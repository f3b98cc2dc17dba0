SPECIFICATION Spec
CONSTANTS
  Requests = {r1, r2, r3}
  MaxSignals = 2
  QueueLimit = 2
INVARIANTS ObserverInv ShutdownReachesTransport EndsForACause
PROPERTIES SignalEndsProcess EventsAreTaken
CHECK_DEADLOCK FALSE
