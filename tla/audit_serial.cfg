CONSTANTS
  Writer = {w1}
  Exporter = {}
  EntryId = {1, 2, 3, 4}
  Body = {b1, b2}
  ClockStep = {1, 2}
  MaxClock = 4
SPECIFICATION Spec
CHECK_DEADLOCK FALSE
INVARIANTS ChainVerifies
PROPERTIES AppendsAtEnd ImplementsAppendLog
