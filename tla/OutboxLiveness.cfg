SPECIFICATION FairSpec
CONSTANTS
  Events = {e1, e2}
  Workers = {w1, w2}
  Crashable = {w1}
  DeliveryLease = 1
  MaxRetry = 2
  Retention = 3
  LastPersist = 0
  LastFault = 1
  MaxLag = 0
  MaxLeases = 1
  MaxClock = 3
  None = None
PROPERTIES EveryShareSettled
