CONSTANTS
  MandateId = {"m1", "order2"}
  Agent = {"a1"}
  Payload <- Terms
  NoRow = NoRow
  Session = {d1, d2}
  MaxNow = 0
  Caller = {d1, d2}
  Key <- Keys
  NoKey = NoKey
  MarkTries = 2
  Event <- AllEvents
  HookFaults = {"crash", "db"}
SPECIFICATION FairHookSpec
CHECK_DEADLOCK FALSE
INVARIANTS HookTypeOK OneClaimant FalseMeansClaimed AppliedAtMostOnce DuplicatesAreHandled TrailMatchesStatus
PROPERTIES DeliveriesEnd DeliveriesAdvance
