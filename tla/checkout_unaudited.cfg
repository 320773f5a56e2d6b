CONSTANTS
  MandateId = {"m1"}
  Agent = {"a1"}
  Payload <- AllTerms
  NoRow = NoRow
  Session = {s1}
  MaxNow = 1
  Catalog <- Shop
  Malformed = {"w"}
  NoEnvelope = NoEnvelope
  Missing = Missing
  Request = {r1}
  Proposal <- FewProposals
  Envelope <- Envelopes
  Faults = {"audit"}
SPECIFICATION CheckoutSpec
CHECK_DEADLOCK FALSE
INVARIANTS TerminalPathsAudited
