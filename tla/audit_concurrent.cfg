CONSTANTS
  Writer = {w1, w2}
  Exporter = {e1}
  EntryId = {1, 2, 3}
  Body = {b1, b2}
  ClockStep <- ClockMoves
  MaxClock = 1
SPECIFICATION TamperSpec
CHECK_DEADLOCK FALSE
INVARIANTS TypeOK WellLinked VerifyMeansIntact TamperEvident ExportVouches
PROPERTIES BrokenForGood
SYMMETRY ChainSymmetry
