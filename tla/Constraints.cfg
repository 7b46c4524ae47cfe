SPECIFICATION ConstraintsSpec
INVARIANTS GrantExact VerdictsSound AudienceExact
CONSTANTS
  Receiver = "r1"
  LinkLists <- OneOrTwoLinks
  Memberships <- MemberLists
  Skews = {0, 2}
  MaxIds = 2
  MaxAge = 4
  MaxSkew = 2
  MaxTime = 8
  Chains <- AllChains
  Contexts <- AllContexts
  Registries <- AllRegistries
  Timeouts = {1, 2, 9}
  Modes = {"worker", "calling"}
  Results <- ExtResults
  TzdbVersions = {"pinned", "other"}
  ClaimTime = 5
  MaxTimestamp = 8
  MaxSafe = 10
  MaxTimeout = 2
  MaxEvaluators = 2
  MaxEntries = 1
  MaxElapsed = 3
CHECK_DEADLOCK FALSE
