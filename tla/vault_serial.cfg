CONSTANTS
  MandateId = {m1}
  Agent = {a1, a2}
  Payload <- AwarePayloads
  NoRow = NoRow
  Session = {s1}
  MaxNow = 2
  Registrant = {a1}
  PublicKey = {k1, k2}
  Registration = {c1, c2}
SPECIFICATION VaultServiceSpec
CHECK_DEADLOCK FALSE
INVARIANTS PayloadBoundsHold
PROPERTIES ImplementsMandateBook RegistrationTakesEffect
