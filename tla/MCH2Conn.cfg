\* Connection controller: three requests, a soft output limit of three frames,
\* the graceful-shutdown straggler timer enabled; the timers are fair, the
\* peer, the socket and the application are not.
CONSTANTS
  StreamIds = {1, 3, 5}
  SoftMaxSize = 3
  GracefulShutdownTimeout = 1
SPECIFICATION FairSpec
INVARIANTS TypeOK NoAssertionFails NeverStranded ReadStopIsTemporary
PROPERTY ConnectionEventuallyReleased
