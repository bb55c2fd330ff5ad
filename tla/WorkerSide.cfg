SPECIFICATION WorkerSpec
CONSTANTS
  Keys = {k1, k2}
  Leases = {l1, l2}
  Slots = {s1, s2}
  MaxSequence = 2
  UnusedLimit = 1
  ContextLimit = 1
  SignatureLimit = 3
  ClockLimit = 1
  Tabs = {t1, t2}
  w1 = w1
  w2 = w2
  challenge = challenge
  AdmissionLimit = 2
  StoreClock = 3
  Procs = {p1, p2, p3}
  Nobody = Nobody
  MaxKeys = 2
  LastSequence = 2
  Devices <- EveryDevice
  Packages <- SixPackages
  Schemas = {1, 2, 3}
  ReloadLimit = 2
INVARIANTS EffectsSound OneLeasePerContext
PROPERTIES MarksFallOnlyByOverlap ContinuitySound AuthoritySound OnboardingSound RestorationSound
SYMMETRY MCSymmetry
CHECK_DEADLOCK FALSE
