\* Two client streams, room for one running request and one streamed body,
\* bodies of up to two model bytes.  A run ends when the connection is
\* closed, an assert() fails, or the client has used up StreamIds and
\* stops sending: none of these is a deadlock of the code.
CONSTANTS
  StreamIds = {1, 3}
  MaxConcurrentRequests = 1
  MaxStreamingRequests = 1
  MaxRequestEntitySize = 2
  HostMaxConcurrentStreams = 1
  NULL = NULL
  HeaderResults = {"ok", "bad_pseudo", "bad_char", "hpack_error"}
  ContentLengths = {NULL, 1}
  DataLengths = {0, 1}
  WriteFailures = {FALSE, TRUE}
  Paddings = {0}
  StreamWindowSize = 2
  ActiveStreamWindowSize = 2
  ConnectionWindowSize = 2
  MaxWindowSize = 8
  EndHeadersFlags = {TRUE}
  HeaderBlockFits = {TRUE}
  Upgrades = {FALSE}
SPECIFICATION Spec
INVARIANTS AdmittedWithinLastStreamId
CHECK_DEADLOCK FALSE
