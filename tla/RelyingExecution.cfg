SPECIFICATION FairSpec
CONSTANTS
  Actions = {a1}
  Passes = {p1, p2}
  PassFor <- OneAction
  PassExpires <- ShortLived
  Workers = {w1, w2}
  Crashable = {w1}
  MaxAttempts = 2
  Timeout = 5
  LeaseLength = 2
  MaxLag = 0
  MaxOpen = 1
  MaxClock = 6
  None = None
INVARIANTS OutcomeAgrees AttemptsSound
PROPERTIES ImplementsOnce AcceptedIsSettled
