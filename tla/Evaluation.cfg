SPECIFICATION MCSpec
CONSTANTS
  c1 = c1  c2 = c2  e1 = e1  e2 = e2  e3 = e3  w1 = w1  k1 = k1
  NoClaim = NoClaim  NoBody = NoBody  NoStream = NoStream
  ClaimIds = {c1, c2}
  Evaluators = {e1, e2, e3}
  Workers = {w1}
  Claims <- AllClaims
  Inputs <- AllInputs
  Bodies <- AllBodies
  Progresses <- Assessment
  Window <- EvalWindow
  Streams = {}
  Counters = {k1}
  Horizons = {0, 1, 2, 3, 4}
  ClockSettings = {1, 2, 3}
  InitialTime = 1
  LeaseSeconds = 1
  MaxTimestamp = 4
  MaxSafe = 1
  RateAtFinalization = TRUE
  Anchored = FALSE
INVARIANTS AllowSound HandoffsMatchStore ReceiptsTellOutcome OneEvaluation
SYMMETRY Symmetry
