SPECIFICATION Spec
CONSTANTS
  Challenges = {c1}
  Sessions = {s1}
  Events = {e1}
  Shares = {f1}
  Works = {1}
  Boots = {b1}
  Pauses = {}
  Interruptions = {}
  Workers = {w1}
  Crashable = {}
  Requirement <- OneUnit
  WorkCeiling = 1
  ChallengeTTL = 2
  LeaseLength = 1
  SigningLease = 1
  PassTTL = 1
  MaxLag = 0
  PoolSkew = 0
  MaxClock = 4
  MaxInsert = 0
  MaxReading = 0
  MaxLeases = 1
  None = None
PROPERTIES ChallengeStepsAllowed
