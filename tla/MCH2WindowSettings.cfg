\* Output flow control, the SETTINGS change that overflows a stream window.
CONSTANTS
  StreamIds = {1, 3}
  MaxWindow = 4
  DefaultWindow = 2
  InitialWindowSizes = {0, 1, 4}
  Increments = {1, 3}
  ResponseSizes = {3}
  MaxFrameSize = 2
  MaxCredit = 6
SPECIFICATION Spec
INVARIANT StreamWindowExact
