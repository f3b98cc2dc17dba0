SPECIFICATION MCSpec
CONSTANTS
  None = none
  AnyTool = any
  Leeway = 1
  TTL = 2
  MaxTime = 3
  Requests = {r1, r2}
  Keys = {k1, k2}
  ShortKeys = {k2}
  Labels = {u1, "local"}
  Token = k1
  r1 = r1
  r2 = r2
  k1 = k1
  k2 = k2
  u1 = u1
  u2 = u2
  Here = here
  Elsewhere = elsewhere
  Mine = mine
  Other = other
  Good = good
  Bad = bad
  This = this
  That = that
INVARIANTS WithdrawnKeysRefused CacheHonest FitIsTheAnalysts FitCoversCall
PROPERTIES KeysWereListed EmptyStoreHeals
CHECK_DEADLOCK FALSE
