SPECIFICATION Spec
CONSTANTS
  Events = {e1}
  Workers = {w1, w2, w3}
  Crashable = {w1}
  DeliveryLease = 2
  MaxRetry = 2
  Retention = 3
  LastPersist = 1
  LastFault = 6
  MaxLag = 1
  MaxLeases = 2
  MaxClock = 6
  None = None
SYMMETRY Identifiers
INVARIANTS TypeOK SettlementSound TakenOverOnlyAfterLapse RetriesBounded
PROPERTIES CountedNeverStoredAgain
