CONSTANTS
  MandateId = {"m1", "order2"}
  Agent = {"a1"}
  Payload <- Terms
  NoRow = NoRow
  Session = {d1}
  MaxNow = 0
  Caller = {d1}
  Key <- Keys
  NoKey = NoKey
  MarkTries = 2
  Event <- PaidEvents
  HookFaults = {}
SPECIFICATION HookSpec
CHECK_DEADLOCK FALSE
INVARIANTS ClaimedGets2xx
