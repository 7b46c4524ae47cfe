SPECIFICATION MCSpec
CONSTANTS
  c1 = c1  c2 = c2  c3 = c3  s1 = s1  k1 = k1  q1 = q1  q2 = q2
  NoClaim = NoClaim  NoBody = NoBody  NoStream = NoStream
  ClaimIds = {c1, c2, c3}
  Streams = {s1}
  Counters = {k1}
  Claims <- AllClaims
  Window <- RateWindow
  Progresses <- ContractProgresses
  Bodies <- AllBodies
  Calls = {q1, q2}
  ForeignHandoffs <- AllForeign
  Horizons = {0, 1, 2, 3}
  ClockSettings = {0, 1, 2, 3, 4}
  InitialTime = 0
  LeaseSeconds = 2
  MaxTimestamp = 3
  MaxSafe = 2
  RateAtFinalization = TRUE
  Anchored = TRUE
INVARIANTS CommitInWindow OneEntryPerTerminalClaim LogInOrder LogTimesForward AbandonedNeverAppended StreamContiguous RateWithinLimit
  ReleaseSound ActedInTime RejectedOnlyOnConflict
PROPERTIES CommittedImmutable
SYMMETRY Symmetry
