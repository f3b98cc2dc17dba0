SPECIFICATION MCSpec
CONSTANTS
  Worlds <- AllWorlds
  Names = {t1, t2, health}
  Health = health
  Raise = raise
  Tool = t1
  Other = t2
  Keys = {k1, k2, k3, k4}
  Absent = absent
  Partial = partial
INVARIANTS Inv LimiterCanRefill SourcesInOrder HealthOutlastsHook EveryExtensionIsTried
PROPERTIES FilesUntouched RegistrationsKept
CHECK_DEADLOCK FALSE
