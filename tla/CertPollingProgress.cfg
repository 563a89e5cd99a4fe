SPECIFICATION Spec
CONSTANTS
  peer1 = peer1
  peer2 = peer2
  peer3 = peer3
  Peers = {peer1, peer2, peer3}
  Down = {peer3}
  MaxInstance = 2
  MaxFaults = 1
  maxRequestLength = 1
  maxResponseLen = 1
  Width = 4
  None = None
  hitMissSlidingWindow = 1
  maxBackoffExponent = 1
  minRequests = 1
  maxRequests = 2
  maxDistance = 2
  gcHighWater = 3
  gcLowWater = 2
  gcFailureCuttoff = 1
PROPERTY
  ProgressIsCounted
