SPECIFICATION Spec
CONSTANTS
  LeaseLimit = 1
  CallLimit = 2
  FailureLimit = 1
  CancelLimit = 2
  Handles = {h1, h2}
  k1 = k1
  k2 = k2
  r1 = r1
  r2 = r2
  Lone = Lone
  None = None
  Window = 1
  MaxTime = 2
  MaxPending = 1
  Clients = {c1, c2}
  c1 = c1
  ViewLimit = 2
  OpLimit = 2
  GateCancels = 1
  Tabs = {t1, t2}
  Elevated = TRUE
  Whole = 4
  RequestLimit = 2
PROPERTIES ClientSound KeySound GateSound ConsentSound
CHECK_DEADLOCK FALSE
