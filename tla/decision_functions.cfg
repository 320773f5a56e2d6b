CONSTANTS
  NoEnvelope = NoEnvelope
  Missing = Missing
  CatalogFile <- File
  JsonValue <- JsonValues
  Depth <- Nesting
  Submission <- Submissions
SPECIFICATION DecisionSpec
CHECK_DEADLOCK FALSE
INVARIANTS DecisionTypeOK PassedIsClean ParsedIsWhole GateIsTheComputation PolicyIsTheLoop DiscountBound QuotesHold
