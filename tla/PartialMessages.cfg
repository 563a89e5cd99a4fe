SPECIFICATION Spec
CONSTANTS
  base = base
  tip = tip
  sender1 = sender1
  sender2 = sender2
  None = None
  Instances = {1, 2, 3}
  Chains <- MCChains
  Senders = {sender1, sender2}
  Loads <- MCLoads
  FirstInstance = 1
  maxWantedChainsPerInstance = 2
  maxDiscoveredChainsPerInstance = 2
  maxInstanceLookahead = 1
  maxBuffMsgPerInstance = 1
  WantedQueue = 1
  DiscoveredQueue = 1
  PartialQueue = 1
  RemovalQueue = 1
  CompletedQueue = 1
  BroadcastQueue = 1
INVARIANTS
  BufferedAreIndexed
  CompletedWithItsChain

  
CHECK_DEADLOCK FALSE
