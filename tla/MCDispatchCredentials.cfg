SPECIFICATION Spec
CONSTANTS
  r1 = r1
  r2 = r2
  r3 = r3
  Requests = {r1, r2, r3}
  Envelopes <- MixedEnvelopes
  AuthModes = {"token"}
  Spellings = {"z"}
  Window = 1
  MaxTime = 2
  Sessions = {"s", "u"}
  Tools = {"t"}
  Unit = 2
  Burst = 1
  GlobalRate = 2
  ToolRate = 1
INVARIANTS CredentialsReachAuth
CHECK_DEADLOCK FALSE
