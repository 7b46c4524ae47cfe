SPECIFICATION KeysSpec
CONSTANTS
  Verifiers = {"v", "w"}
  Keys = {"k1", "k2", "k3"}
  GenesisKeys <- TwoEpochs
  MaxSeq = 2
  MaxDrafts = 3
  MaxTime = 0
  FutureSkew = 0
  Readers = {"p", "q"}
  Signable <- LogEntries
  MaxSigned = 4
  Issuers = {i1, i2, i3}
  Values = {x, y}
  Requests <- AllRequests
  Proofs <- BindProofs
  Policy <- BoundPolicy
  MaxClock = 3
  MaxEpoch = 1
  MaxSafe = 9
  MaxTimestamp = 4
  MaxLifetime = 2
  MaxSkew = 1
  i1 = i1  i2 = i2  i3 = i3  x = x  y = y
INVARIANTS HistorySound ForkedByEquivocation WitnessedHistory IssuanceSound
CHECK_DEADLOCK FALSE
PROPERTIES FrozenStaysFrozen
