SPECIFICATION Spec
CONSTANTS
  Challenges = {c1, c2}
  Sessions = {s1, s2}
  Events = {e1, e2, e3}
  Shares = {f1, f2}
  Works = {1, 3}
  Boots = {b1}
  Pauses = {}
  Interruptions = {}
  Workers = {w1}
  Crashable = {}
  Requirement <- TwoUnits
  WorkCeiling = 3
  ChallengeTTL = 1
  LeaseLength = 1
  SigningLease = 1
  PassTTL = 1
  MaxLag = 0
  PoolSkew = 1
  MaxClock = 1
  MaxInsert = 0
  MaxReading = 0
  MaxLeases = 1
  None = None
SYMMETRY Identifiers
INVARIANTS TypeOK ShareCreditedOnce ProgressExact
PROPERTIES CreditNeedsLease
