SPECIFICATION StatusSpec
CONSTANTS
  Scenarios = {"equivocation"}
  MaxListLifetime = 10
  MaxStatusAge = 2
  ClockSkew = 0
  SetDigest <- MCSetDigest
  ObjDigest <- MCObjDigest
  Issuers = {1}
  Keys <- FourKeys
  IssuerKeys <- NoKeyOfIssuer
  ChainKeys = {}
  Roles = {"verifier", "issuer"}
  Checks <- TwoChecks
  Operators = {"op"}
  sA = sA  sB = sB
  Stages = {sA, sB}
  Objects <- PublisherHistory
  MaxBatch = 1
  MaxGeneration = 3
  MaxEpoch = 2
  MaxTime = 2
  Authentic <- AllHistories
  Certs = {1, 2}
  StatusKeys <- TwoKeys
  MaxHeard = 4
  MaxClock = 2
INVARIANT StateStaysValid
SYMMETRY Symmetry
