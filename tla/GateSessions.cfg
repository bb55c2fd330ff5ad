SPECIFICATION Spec
CONSTANTS
  Challenges = {c1}
  Sessions = {s1, s2, s3}
  Events = {e1}
  Shares = {f1}
  Works = {1}
  Boots = {b1, b2}
  Pauses = {"user_requested"}
  Interruptions = {"worker_reboot"}
  Workers = {w1}
  Crashable = {}
  Requirement <- TwoUnits
  WorkCeiling = 2
  ChallengeTTL = 1
  LeaseLength = 1
  SigningLease = 1
  PassTTL = 1
  MaxLag = 0
  PoolSkew = 0
  MaxClock = 1
  MaxInsert = 0
  MaxReading = 1
  MaxLeases = 2
  None = None
SYMMETRY Identifiers
INVARIANTS LeasedOnlyWhileActive SessionsSound
PROPERTIES SessionStepsAllowed
