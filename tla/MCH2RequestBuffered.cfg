\* The same model: a buffered request body larger than its runway.
CONSTANTS
  StreamIds = {1, 3}
  MaxConcurrentRequests = 1
  MaxStreamingRequests = 1
  MaxRequestEntitySize = 4
  HostMaxConcurrentStreams = 2
  NULL = NULL
  HeaderResults = {"ok"}
  ContentLengths = {NULL}
  DataLengths = {1, 2}
  WriteFailures = {FALSE}
  Paddings = {0, 1}
  StreamWindowSize = 1
  ActiveStreamWindowSize = 2
  ConnectionWindowSize = 4
  MaxWindowSize = 8
  EndHeadersFlags = {TRUE}
  HeaderBlockFits = {TRUE}
  Upgrades = {FALSE}
SPECIFICATION Spec
INVARIANT BufferedBodyNotStarved
CHECK_DEADLOCK FALSE
