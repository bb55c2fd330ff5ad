SPECIFICATION FairSpec
CONSTANTS
  None = None
  Sizes = {1, 3}
  Window = 2
  ChunkBytes = 1
  QueueLimit = 3
  SequenceLimit = 3
  CounterLimit = 5
  ChannelBacklog = 1
  MaxRecords = 5
  MaxSessions = 2
  WireBound = 3
  BacklogLimit = 2
  PeerTimeout = 2
  MaxSequence = 4
  MaxTime = 5
  Deadline = 1
  RecordLimit = 5
  MaxUptime = 2
  MaxRuns = 2
  MaxAdmissions = 2
  MaxCommands = 1
  LeaseLimit = 1
  CallLimit = 1
  FailureLimit = 1
  CancelLimit = 2
CHECK_DEADLOCK FALSE
INVARIANTS ReaderSound RestartSound ControllerSound
PROPERTIES ChannelSound EveryWaitEnds
