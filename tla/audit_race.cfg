CONSTANTS
  Writer = {w1, w2}
  Exporter = {e1}
  EntryId = {1, 2, 3}
  Body = {b1}
  ClockStep = {1}
  MaxClock = 3
SPECIFICATION Spec
CHECK_DEADLOCK FALSE
INVARIANTS ChainVerifies
