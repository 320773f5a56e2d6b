CONSTANTS
  MandateId = {"m1"}
  Agent = {"a1"}
  Payload <- AllTerms
  NoRow = NoRow
  Session = {s1}
  MaxNow = 1
  Catalog <- Shop
  Malformed = {"w"}
  NoEnvelope = NoEnvelope
  Missing = Missing
  Request = {r1}
  Proposal <- Proposals
  Envelope <- Envelopes
  Faults = {"audit", "crash"}
SPECIFICATION FairCheckoutSpec
CHECK_DEADLOCK FALSE
INVARIANTS CheckoutTypeOK NoOrderAfterRevocation OrdersAreGated TrailAccountsForOrders
PROPERTIES ImplementsMoneyAction RequestsEnd RequestsAdvance
