CONSTANTS
  Lens = {0, 3, 4, 15, 16, 40, 16777216, 16777217, 542393671, 2147483647}
  MaxMsgs = 2
SPECIFICATION Spec
INVARIANT HeaderInBounds
CHECK_DEADLOCK FALSE
