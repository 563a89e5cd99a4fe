SPECIFICATION Spec
CONSTANTS
  own = own
  peer = peer
  far = far
  a = a
  b = b
  None = None
  InitialInstance = 0
  CommitteeLookback = 2
  Slots = {own, peer, far}
  OwnSlots = {own}
  DecideSlots = {peer}
  FarSlots = {far}
  Values = {1}
  Tables = {a, b}
  InitialTable = a
  Heads <- MCHeads
  ECPower <- MCECPower
  MaxInstance = 3
  MaxCrashes = 1
INVARIANTS
  CommitteesAreTheNetworks
  WakeUpBetweenInstances
  EarlyMessagesKept
PROPERTIES
  CatchesUp

