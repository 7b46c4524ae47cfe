SPECIFICATION Spec
CONSTANTS
  c1 = c1  c2 = c2  e1 = e1  e2 = e2  w1 = w1  k1 = k1  p1 = p1  x = x
  NoClaim = NoClaim  NoBody = NoBody  NoStream = NoStream
PROPERTIES ClaimsEnd EventuallySettled RevocationArrives EventuallyAcknowledged
CHECK_DEADLOCK FALSE
