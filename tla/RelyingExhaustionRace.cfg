SPECIFICATION Spec
CONSTANTS
  Actions = {a1}
  Passes = {p1}
  PassFor <- OneAction
  PassExpires <- ShortLived
  Workers = {w1, w2}
  Crashable = {}
  MaxAttempts = 2
  Timeout = 3
  LeaseLength = 2
  MaxLag = 0
  MaxOpen = 1
  MaxClock = 4
  None = None
INVARIANTS AttemptsAreTerminal
