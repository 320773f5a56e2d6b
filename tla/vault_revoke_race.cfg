CONSTANTS
  MandateId = {m1}
  Agent = {a1, a2}
  Payload <- AwarePayloads
  NoRow = NoRow
  Session = {s1}
  MaxNow = 2
SPECIFICATION Spec
CHECK_DEADLOCK FALSE
PROPERTIES RevokedNotOverwritten
