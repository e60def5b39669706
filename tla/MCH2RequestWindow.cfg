\* Input flow control: one client stream whose body may be streamed or
\* buffered, DATA frames of one or two bytes with or without one byte of
\* padding, a stream window of 1 that a body's first DATA frame extends to
\* active_stream_window_size 2, a connection window of 4, and bodies of up
\* to 4 bytes, so a body can be larger than its runway.  A run ends when
\* the connection is closed or the client stops sending.
CONSTANTS
  StreamIds = {1}
  MaxConcurrentRequests = 1
  MaxStreamingRequests = 1
  MaxRequestEntitySize = 4
  HostMaxConcurrentStreams = 1
  NULL = NULL
  HeaderResults = {"ok"}
  ContentLengths = {NULL}
  DataLengths = {1, 2}
  WriteFailures = {FALSE}
  Paddings = {0, 1}
  StreamWindowSize = 1
  ActiveStreamWindowSize = 2
  ConnectionWindowSize = 4
  MaxWindowSize = 8
  EndHeadersFlags = {TRUE, FALSE}
  HeaderBlockFits = {TRUE, FALSE}
  Upgrades = {FALSE, TRUE}
SPECIFICATION Spec
INVARIANTS BodyBufferBounded StreamingBodyNeverStarved
CHECK_DEADLOCK FALSE
