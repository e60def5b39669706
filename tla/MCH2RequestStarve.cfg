\* Liveness instance: two client streams, one request slot, one streamed
\* body, bodies of one model byte.  Only the inputs that decide whether a
\* stream is freed or admitted are tried: well-formed headers without
\* content-length, one-byte DATA frames, and write_req.cb succeeding.
CONSTANTS
  StreamIds = {1, 3}
  MaxConcurrentRequests = 1
  MaxStreamingRequests = 1
  MaxRequestEntitySize = 1
  HostMaxConcurrentStreams = 1
  NULL = NULL
  HeaderResults = {"ok"}
  ContentLengths = {NULL}
  DataLengths = {1}
  WriteFailures = {FALSE}
  Paddings = {0}
  StreamWindowSize = 2
  ActiveStreamWindowSize = 2
  ConnectionWindowSize = 2
  MaxWindowSize = 8
  EndHeadersFlags = {TRUE}
  HeaderBlockFits = {TRUE}
  Upgrades = {FALSE}
SPECIFICATION CooperativePeerSpec
CHECK_DEADLOCK FALSE
PROPERTY PendingRequestEventuallyRuns
