\* Header blocks split over CONTINUATION frames: two client streams, one of
\* them may receive a body while the other's HEADERS waits for its
\* CONTINUATION.  Well-formed headers, one-byte DATA frames.
CONSTANTS
  StreamIds = {1, 3}
  MaxConcurrentRequests = 1
  MaxStreamingRequests = 1
  MaxRequestEntitySize = 1
  HostMaxConcurrentStreams = 2
  NULL = NULL
  HeaderResults = {"ok"}
  ContentLengths = {NULL}
  DataLengths = {1}
  WriteFailures = {FALSE}
  Paddings = {0}
  StreamWindowSize = 2
  ActiveStreamWindowSize = 2
  ConnectionWindowSize = 2
  MaxWindowSize = 8
  EndHeadersFlags = {TRUE, FALSE}
  HeaderBlockFits = {TRUE}
  Upgrades = {FALSE}
SPECIFICATION Spec
INVARIANT HeaderBlockCompleted
CHECK_DEADLOCK FALSE
