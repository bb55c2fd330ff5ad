SPECIFICATION FairSpec
CONSTANTS
  Challenges = {c1}
  Sessions = {s1}
  Events = {e1}
  Shares = {f1}
  Works = {1}
  Boots = {b1}
  Pauses = {"user_requested"}
  Interruptions = {"worker_reboot"}
  Workers = {w1, w2}
  Crashable = {w1}
  Requirement <- OneUnit
  WorkCeiling = 1
  ChallengeTTL = 3
  LeaseLength = 1
  SigningLease = 2
  PassTTL = 1
  MaxLag = 1
  PoolSkew = 0
  MaxClock = 5
  MaxInsert = 0
  MaxReading = 0
  MaxLeases = 1
  None = None
INVARIANTS IssuanceAgrees CompletionSound RetentionClock
PROPERTIES StoredPassNeverChanges OnlyLateCommitRevives ImplementsGate EarnedIsSettled
