SPECIFICATION Spec
CONSTANTS
  Finality = 2
  BootstrapEpoch = 2
  CommitteeLookback = 1
  Power <- MCPower
  NullEpochs = {2,4}
  Retention = 7
  TickEpochs = 2
  MaxHead = 12
  MaxFaults = 1
  MaxRestarts = 1
  None = None
INVARIANTS
  NothingIsLost
PROPERTY
  GetsStarted
CHECK_DEADLOCK FALSE
