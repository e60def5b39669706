\* Output flow control: 2^31-1 scaled to 4, the default window to 2; the
\* peer may shrink the initial window to 0 or grow it to the maximum.
CONSTANTS
  StreamIds = {1, 3}
  MaxWindow = 4
  DefaultWindow = 2
  InitialWindowSizes = {0, 1, 4}
  Increments = {1, 3}
  ResponseSizes = {3}
  MaxFrameSize = 2
  MaxCredit = 6
SPECIFICATION Spec
INVARIANTS TypeOK NoStall
