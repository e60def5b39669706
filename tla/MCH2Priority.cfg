CONSTANTS
  StreamIds = {1, 3}
  RingSize = 2
  Weights = {16}
  MaxStreamsForPriority = 1
  MaxPushes = 1
  PeerMaxConcurrentStreams = 1
SPECIFICATION Spec
INVARIANTS TypeOK RingHoldsRecentlyClosed PriorityTree PriorityStreamsBounded TreeReleasedOnClose PushWithinPeerGoaway
PROPERTY DependencyHonoured
