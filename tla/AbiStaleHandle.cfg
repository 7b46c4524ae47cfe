SPECIFICATION V1Spec
CONSTANTS
  Scenarios = {"abi2"}
  MaxConstraints = 3
  Callers = {a, b}
  Presentations <- AllPresentations
  Options <- AllOptions
  Sessions <- AllSessions
  MaxChallenges = 2
  Capacity = 1
  Ttl = 1
  Window = 1
  TokenLife = 1
  Revocable = {"leaf", "root"}
  MaxTokens = 1
  MaxDepth = 3
  MaxTime = 2
  a = a  b = b
  MaxHeld <- HeldAtMost
  ChainLength = 2
INVARIANT ReleasedNull
CHECK_DEADLOCK FALSE
