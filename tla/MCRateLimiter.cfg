SPECIFICATION Spec
CONSTANTS
  Sessions = {s1, s2}
  Tools = {t1}
  Unit = 3
  Burst = 2
  GlobalRate = 4
  ToolRate = 2
  MaxTime = 5
INVARIANTS Inv WindowBound RetryAfterExact
PROPERTIES ImplementsTokenBuckets DenialIsFree QuotaIsolation
