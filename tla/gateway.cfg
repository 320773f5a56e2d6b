CONSTANTS
  MandateId = {"m1"}
  Agent = {"a1"}
  Payload <- StoredTerms
  NoRow = NoRow
  Session = {s1, d1}
  MaxNow = 0
  Catalog <- Shop
  Malformed = {}
  NoEnvelope = NoEnvelope
  Missing = Missing
  Request = {r1}
  Proposal <- Carts
  Envelope <- NoEnvelopes
  Faults = {"crash"}
  Caller = {d1}
  Key <- Keys
  NoKey = NoKey
  MarkTries = 1
  Event <- Events
  HookFaults = {"crash", "db"}
SPECIFICATION GatewaySpec
CHECK_DEADLOCK FALSE
INVARIANTS TypeOK NoOrderAfterRevocation
PROPERTIES RevokedForever EventKeepsBounds
