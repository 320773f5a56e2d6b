--------------------------- MODULE CheckoutProofs ---------------------------
(***************************************************************************)
(* The safety of checkout, for any number of requests, sessions, Mandates  *)
(* and terms, every fault included.                                        *)
(***************************************************************************)
EXTENDS Checkout, VaultProofs

TypeInv == VaultInv /\ CheckoutTypeOK

(* What the parser and the policy may answer.                              *)
LEMMA GateAnswers ==
  ASSUME NEW env, NEW m
  PROVE  GateVerdict(env, m) \in Reasons \cup {"open", "raise"}
  BY DEF GateVerdict, ParseOutcome, Reasons

LEMMA PolicyAnswers ==
  ASSUME NEW p, NEW m
  PROVE  EvaluateProposal(p, m) \in Reasons \cup {"allowed", "raise"}
  BY DEF EvaluateProposal, Reasons

LEMMA ValidateAnswers == ASSUME NEW m PROVE ValidateMandate(m) \in {"valid", "invalid", "raise"}
  BY DEF ValidateMandate

(* An order belongs to an attempt of a request.                            *)
LEMMA OrderOfRequest ==
  ASSUME CheckoutTypeOK, NEW o \in orders
  PROVE  o[1] \in Request /\ o[2] \in Made(o[1])
  BY DEF CheckoutTypeOK, Made

-----------------------------------------------------------------------------
(* What holds of every request by itself.  A late one is stopped by the    *)
(* Vault, as its Mandate stays revoked.  One past the gates has passed     *)
(* them, one past the Vault was shown a row that clears it, one past the   *)
(* policy is within the terms read, and only the latter has orders.  A retry starts a second attempt, and the decision is that  *)
(* of the last one.                                                        *)
Late(r) == late[r] =>
  /\ pc[r] \notin {"new", "evaluate", "fetch", "attempt"} /\ Made(r) = {}
  /\ Revoked(MandateOf(r))

Allowed(r) ==
  /\ ask[r].kind = "execute" /\ GateVerdict(ask[r].envelope, MandateOf(r)) = "open"
  /\ terms[r] # NoRow /\ EvaluateProposal(ask[r].proposal, terms[r]) = "allowed"
Gated(r) ==
  /\ pc[r] \in {"validate", "evaluate"} /\ ask[r].kind = "execute" =>
       GateVerdict(ask[r].envelope, MandateOf(r)) = "open"
  /\ pc[r] \in {"evaluate", "fetch", "attempt"} \/ Made(r) # {} =>
       shown[r] # NoRow /\ Cleared(shown[r])
  /\ pc[r] \in {"fetch", "attempt"} \/ Made(r) # {} => Allowed(r)

Tries(r) ==
  /\ pc[r] \in {"new", "validate", "evaluate", "fetch"} => Made(r) = {}
  /\ pc[r] = "attempt" => IF retried[r] THEN 2 \notin Made(r) ELSE Made(r) = {}

Accounts(r) ==
  /\ verdict[r] = "ok" /\ ask[r].kind = "execute" =>
       Made(r) # {} /\ (retried[r] \/ Made(r) = {1})
  /\ Made(r) # {} => verdict[r] \in {"ok", "executor_failure"}
  /\ Made(r) = {1, 2} => retried[r]
Traced(r) ==
  /\ pc[r] \in {"audit", "reply", "answered"} \/ trail[r] # NoRow => Accounts(r)
  /\ trail[r] # NoRow => trail[r] = [verdict |-> verdict[r], retried |-> retried[r]]

Good(r) == Late(r) /\ Gated(r) /\ Tries(r) /\ Traced(r)
CheckoutInv == TypeInv /\ \A r \in Request : Good(r)

(* A request whose own state a step leaves alone stays good: the Vault     *)
(* cannot undo a revocation.                                               *)
LEMMA Frame ==
  ASSUME CheckoutInv, NEW r \in Request, Revoked(MandateOf(r)) => Revoked(MandateOf(r))',
         pc'[r] = pc[r], ask'[r] = ask[r], shown'[r] = shown[r], terms'[r] = terms[r], verdict'[r] = verdict[r],
         retried'[r] = retried[r], trail'[r] = trail[r], late'[r] = late[r], Made(r)' = Made(r)
  PROVE  Good(r)'
<1>1. MandateOf(r)' = MandateOf(r)
  BY DEF MandateOf
<1>2. Late(r)'
  BY DEF CheckoutInv, Good, Late
<1>3. Gated(r)' /\ Tries(r)' /\ Traced(r)'
  BY <1>1 DEF CheckoutInv, Good, Gated, Allowed, Tries, Traced, Accounts
<1>4. QED
  BY <1>2, <1>3 DEF Good

(* The same for the other requests, when r takes a step.                   *)
LEMMA Others ==
  ASSUME CheckoutInv, NEW r \in Request, UNCHANGED vaultVars,
         \A q \in Request \ {r} :
           /\ pc'[q] = pc[q] /\ ask'[q] = ask[q] /\ shown'[q] = shown[q] /\ terms'[q] = terms[q]
           /\ verdict'[q] = verdict[q] /\ retried'[q] = retried[q] /\ trail'[q] = trail[q]
           /\ late'[q] = late[q] /\ Made(q)' = Made(q),
         TypeInv', Good(r)'
  PROVE  CheckoutInv'
<1>1. ASSUME NEW q \in Request \ {r} PROVE Good(q)'
  <2>1. MandateOf(q)' = MandateOf(q) /\ mandates' = mandates
    BY DEF MandateOf, vaultVars
  <2>2. Revoked(MandateOf(q)) => Revoked(MandateOf(q))'
    BY <2>1 DEF Revoked
  <2>3. QED
    BY <2>2, Frame
<1>2. QED
  BY <1>1 DEF CheckoutInv

LEMMA VaultStill ==
  ASSUME VaultInv, UNCHANGED vaultVars
  PROVE  VaultInv' /\ TypeOK' /\ \A m \in MandateId : Revoked(m) = Revoked(m)'
<1>1. VaultInv'
  BY VaultStep
<1>2. QED
  BY <1>1 DEF VaultInv, Revoked, vaultVars

LEMMA MandateTyped ==
  ASSUME CheckoutInv, NEW r \in Request, pc[r] # "new"
  PROVE  ask[r] \in Asked /\ MandateOf(r) \in MandateId
  BY CheckoutConstants DEF CheckoutInv, TypeInv, CheckoutTypeOK, Asked, MandateOf

-----------------------------------------------------------------------------
LEMMA CheckoutInitInv == CheckoutInit => CheckoutInv
<1> SUFFICES ASSUME CheckoutInit PROVE CheckoutInv
  OBVIOUS
<1>1. TypeInv
  BY VaultInit DEF CheckoutInit, TypeInv, VaultInv, CheckoutTypeOK, PcType
<1>2. ASSUME NEW r \in Request PROVE Good(r)
  <2>1. Made(r) = {} /\ pc[r] = "new" /\ ~late[r] /\ trail[r] = NoRow
    BY DEF CheckoutInit, Made
  <2>2. QED
    BY <2>1 DEF Good, Late, Gated, Tries, Traced
<1>3. QED
  BY <1>1, <1>2 DEF CheckoutInv

LEMMA ReceiveStep == ASSUME CheckoutInv, NEW r \in Request, Receive(r) PROVE CheckoutInv'
<1>1. PICK kind \in {"propose", "execute"}, p \in Proposal, env \in Envelope :
        LET gate == IF kind = "propose" THEN "open" ELSE GateVerdict(env, p.mandate)
        IN /\ ask' = [ask EXCEPT ![r] = [kind |-> kind, proposal |-> p, envelope |-> env]]
           /\ late' = [late EXCEPT ![r] = Revoked(p.mandate)]
           /\ \/ gate = "open" /\ Await(r, "validate")
              \/ gate = "raise" /\ Raise(r)
              \/ gate \notin {"open", "raise"} /\ Decide(r, gate)
  BY DEF Receive
<1> DEFINE gate == IF kind = "propose" THEN "open" ELSE GateVerdict(env, p.mandate)
           a == [kind |-> kind, proposal |-> p, envelope |-> env]
<1>2. /\ pc[r] = "new" /\ UNCHANGED <<vaultVars, shown, terms, handed, retried, orders, trail>>
  BY DEF Receive
<1>3. PICK next \in {"validate", "audit", "raised"}, v \in Reasons \cup {"none", "ok"} :
        /\ pc' = [pc EXCEPT ![r] = next] /\ verdict' = [verdict EXCEPT ![r] = v]
        /\ next = "validate" => gate = "open"
        /\ next = "audit" => v \in Reasons
  <2>1. gate \in Reasons \cup {"open", "raise"}
    BY GateAnswers
  <2>2. verdict[r] \in Reasons \cup {"none", "ok"} /\ verdict = [verdict EXCEPT ![r] = verdict[r]]
    BY DEF CheckoutInv, TypeInv, CheckoutTypeOK
  <2> HIDE DEF gate
  <2>3. \/ gate = "open" /\ Await(r, "validate")
        \/ Raise(r)
        \/ gate \in Reasons /\ Decide(r, gate)
    BY <1>1, <2>1 DEF gate
  <2>4. QED
    BY <2>2, <2>3 DEF Await, Raise, Decide
<1>4. a \in Asked /\ p.mandate \in MandateId /\ Revoked(p.mandate) \in BOOLEAN
  BY CheckoutConstants DEF Asked, Revoked, CheckoutInv, TypeInv, VaultInv, TypeOK, Row
<1>5. ask'[r] = a /\ late'[r] = Revoked(p.mandate) /\ pc'[r] = next /\ verdict'[r] = v
  BY <1>1, <1>3 DEF CheckoutInv, TypeInv, CheckoutTypeOK
<1>6. MandateOf(r)' = p.mandate /\ ask'[r].kind = kind /\ ask'[r].envelope = env
  BY <1>5 DEF MandateOf
<1>7. VaultInv' /\ TypeOK' /\ \A m \in MandateId : Revoked(m) = Revoked(m)'
  BY <1>2, VaultStill DEF CheckoutInv, TypeInv
<1>8. CheckoutTypeOK'
  <2> HIDE DEF gate, a
  <2>1. ask' = [ask EXCEPT ![r] = a] /\ late' = [late EXCEPT ![r] = Revoked(p.mandate)]
    BY <1>1 DEF a
  <2>2. trail[r] = NoRow
    BY <1>2 DEF CheckoutInv, TypeInv, CheckoutTypeOK
  <2>3. v = "none" => next # "audit"
    BY <1>3 DEF Reasons
  <2>4. QED
    BY <1>2, <1>3, <1>4, <1>7, <2>1, <2>2, <2>3 DEF CheckoutInv, TypeInv, CheckoutTypeOK, PcType, Ends
<1>9. Made(r)' = {}
  BY <1>2 DEF CheckoutInv, Good, Tries, Made
<1>10. Good(r)'
  <2>1. Late(r)'
    BY <1>3, <1>4, <1>5, <1>6, <1>7, <1>9 DEF Late
  <2>2. Gated(r)'
    BY <1>3, <1>5, <1>6, <1>9 DEF Gated
  <2>3. Tries(r)' /\ trail'[r] = NoRow
    BY <1>2, <1>3, <1>5, <1>9 DEF Tries, CheckoutInv, TypeInv, CheckoutTypeOK
  <2>4. Traced(r)'
    BY <1>3, <1>5, <1>9, <2>3 DEF Traced, Accounts, Reasons
  <2>5. QED
    BY <2>1, <2>2, <2>3, <2>4 DEF Good
<1>11. \A q \in Request \ {r} :
         /\ pc'[q] = pc[q] /\ ask'[q] = ask[q] /\ shown'[q] = shown[q] /\ terms'[q] = terms[q]
         /\ verdict'[q] = verdict[q] /\ retried'[q] = retried[q] /\ trail'[q] = trail[q]
         /\ late'[q] = late[q] /\ Made(q)' = Made(q)
  BY <1>1, <1>2, <1>3 DEF CheckoutInv, TypeInv, CheckoutTypeOK, Made
<1>12. QED
  BY <1>2, <1>7, <1>8, <1>10, <1>11, Others DEF TypeInv

(* The steps in between: r moves on, without touching what it asked, what  *)
(* it ordered or what was recorded. Only its new state has to be good.     *)
LEMMA QuietStep ==
  ASSUME CheckoutInv, NEW r \in Request, NEW next \in PcType, NEW v \in Reasons \cup {"none", "ok"},
         pc[r] \notin {"new", "reply", "answered", "lost", "raised"}, next \notin {"new", "reply", "answered"},
         pc' = [pc EXCEPT ![r] = next], verdict' = [verdict EXCEPT ![r] = v],
         UNCHANGED <<ask, retried, orders, trail, late, vaultVars>>,
         terms' \in [Request -> Payload \cup {NoRow}], handed' \in [Request -> Payload \cup {NoRow}],
         shown' \in [Request -> Shown \cup {NoRow}],
         \A q \in Request \ {r} :
           shown'[q] = shown[q] /\ terms'[q] = terms[q] /\ handed'[q] = handed[q],
         next \in {"fetch", "attempt"} => terms'[r] \in Payload,
         next = "attempt" => handed'[r] \in Payload,
         next = "audit" => v # "none",
         Good(r)'
  PROVE  CheckoutInv'
<1>1. VaultInv' /\ TypeOK'
  BY VaultStill DEF CheckoutInv, TypeInv
<1>2. trail[r] = NoRow /\ ask[r] \in Asked
  BY DEF CheckoutInv, TypeInv, CheckoutTypeOK
<1>3. CheckoutTypeOK'
  BY <1>1, <1>2 DEF CheckoutInv, TypeInv, CheckoutTypeOK, PcType, Ends
<1>4. \A q \in Request \ {r} :
         /\ pc'[q] = pc[q] /\ ask'[q] = ask[q] /\ shown'[q] = shown[q] /\ terms'[q] = terms[q]
         /\ verdict'[q] = verdict[q] /\ retried'[q] = retried[q] /\ trail'[q] = trail[q]
         /\ late'[q] = late[q] /\ Made(q)' = Made(q)
  BY DEF CheckoutInv, TypeInv, CheckoutTypeOK, Made
<1>5. QED
  BY <1>1, <1>3, <1>4, Others DEF TypeInv

(* What validate_mandate is shown, and what "valid" says of it.            *)
LEMMA ShownClears ==
  ASSUME VaultInv, NEW m \in MandateId
  PROVE  /\ ShownOf(m) \in Shown \cup {NoRow}
         /\ ValidateMandate(m) = "valid" => ShownOf(m) # NoRow /\ Cleared(ShownOf(m))
<1>1. /\ mandates[m] \in Row \cup {NoRow} /\ now \in Nat
  BY DEF VaultInv, TypeOK
<1>2. CASE mandates[m] = NoRow
  BY <1>2 DEF ShownOf, ValidateMandate
<1>3. CASE mandates[m] # NoRow
  <2> DEFINE row == mandates[m]
             s == [revoked |-> row.revoked, denied |-> row.agent \in denylist,
                   exp |-> row.exp, at |-> now]
  <2>1. row.revoked \in BOOLEAN /\ row.exp \in Expiry
    BY <1>1, <1>3 DEF Row
  <2>2. ShownOf(m) = s /\ s \in Shown
    BY <1>1, <1>3, <2>1 DEF ShownOf, Shown
  <2>3. s # NoRow
    BY <2>2, CheckoutConstants
  <2>4. ASSUME ValidateMandate(m) = "valid" PROVE Cleared(s)
    <3>1. ~row.revoked /\ row.agent \notin denylist /\ row.exp.aware /\ ~(now >= row.exp.at)
      BY <1>3, <2>4 DEF ValidateMandate, Revoked
    <3>2. row.exp.at \in Int
      BY <2>1 DEF Expiry
    <3>3. s.revoked = row.revoked /\ s.denied = (row.agent \in denylist) /\ s.exp = row.exp /\ s.at = now
      OBVIOUS
    <3> HIDE DEF s
    <3>4. ~s.revoked /\ ~s.denied /\ s.exp.aware
      BY <3>1, <3>3
    <3>5. s.at < s.exp.at
      BY <1>1, <3>1, <3>2, <3>3
    <3>6. QED
      BY <3>4, <3>5 DEF Cleared
  <2>5. QED
    BY <2>2, <2>3, <2>4
<1>4. QED
  BY <1>2, <1>3

(* Where the Mandate of a late request is revoked, validate_mandate says   *)
(* "invalid".                                                              *)
LEMMA ValidateStep == ASSUME CheckoutInv, NEW r \in Request, Validate(r) PROVE CheckoutInv'
<1>1. PICK next \in {"evaluate", "audit", "raised"}, v \in {verdict[r], "mandate_invalid"} :
        /\ pc' = [pc EXCEPT ![r] = next] /\ verdict' = [verdict EXCEPT ![r] = v]
        /\ next = "evaluate" => ValidateMandate(MandateOf(r)) = "valid"
        /\ next = "audit" => v = "mandate_invalid"
  <2>1. verdict = [verdict EXCEPT ![r] = verdict[r]]
    BY DEF CheckoutInv, TypeInv, CheckoutTypeOK
  <2>2. \/ ValidateMandate(MandateOf(r)) = "valid" /\ Await(r, "evaluate")
        \/ Decide(r, "mandate_invalid")
        \/ Raise(r)
    BY DEF Validate
  <2>3. QED
    BY <2>1, <2>2 DEF Await, Decide, Raise
<1>2. pc[r] = "validate" /\ UNCHANGED <<vaultVars, ask, terms, handed, retried, orders, trail, late>>
  BY DEF Validate
<1>3. /\ shown' = [shown EXCEPT ![r] = ShownOf(MandateOf(r))]
      /\ shown'[r] = ShownOf(MandateOf(r)) /\ shown' \in [Request -> Shown \cup {NoRow}]
      /\ next = "evaluate" => shown'[r] # NoRow /\ Cleared(shown'[r])
  <2>1. shown' = [shown EXCEPT ![r] = ShownOf(MandateOf(r))]
    BY DEF Validate
  <2>2. MandateOf(r) \in MandateId /\ VaultInv /\ shown \in [Request -> Shown \cup {NoRow}]
    BY <1>2, MandateTyped DEF CheckoutInv, TypeInv, CheckoutTypeOK
  <2>3. QED
    BY <1>1, <2>1, <2>2, ShownClears
<1>4. late[r] => next # "evaluate"
  BY <1>1 DEF CheckoutInv, Good, Late, ValidateMandate
<1>5. /\ pc'[r] = next /\ verdict'[r] = v /\ v \in Reasons \cup {"none", "ok"}
      /\ trail[r] = NoRow /\ MandateOf(r)' = MandateOf(r) /\ Made(r)' = Made(r) /\ Made(r) = {}
  BY <1>1, <1>2 DEF CheckoutInv, TypeInv, CheckoutTypeOK, MandateOf, Made, Good, Tries, Reasons
<1>6. Good(r)'
  <2>1. Late(r)'
    BY <1>1, <1>2, <1>4, <1>5, VaultStill DEF CheckoutInv, TypeInv, Good, Late, Revoked, vaultVars
  <2>2. Gated(r)' /\ Tries(r)'
    BY <1>1, <1>2, <1>3, <1>5 DEF CheckoutInv, Good, Gated, Tries
  <2>3. Traced(r)'
    BY <1>1, <1>2, <1>5 DEF Traced, Accounts
  <2>4. QED
    BY <2>1, <2>2, <2>3 DEF Good
<1>7. QED
  BY <1>1, <1>2, <1>3, <1>5, <1>6, QuietStep DEF PcType, Ends, CheckoutInv, TypeInv, CheckoutTypeOK

LEMMA EvaluateStep == ASSUME CheckoutInv, NEW r \in Request, Evaluate(r) PROVE CheckoutInv'
<1> DEFINE row == mandates[MandateOf(r)]
           result == IF row = NoRow THEN "mandate_invalid"
                     ELSE EvaluateProposal(ask[r].proposal, row.payload)
<1>1. /\ pc[r] = "evaluate" /\ UNCHANGED <<vaultVars, ask, shown, handed, retried, orders, trail, late>>
      /\ terms' = [terms EXCEPT ![r] = IF row = NoRow THEN NoRow ELSE row.payload]
  BY DEF Evaluate
<1>2. result \in Reasons \cup {"allowed", "raise"} /\ row \in Row \cup {NoRow}
  BY <1>1, PolicyAnswers, MandateTyped DEF Reasons, CheckoutInv, TypeInv, VaultInv, TypeOK
<1>3. PICK next \in {"fetch", "audit", "raised"}, v \in Reasons \cup {"none", "ok"} :
        /\ pc' = [pc EXCEPT ![r] = next] /\ verdict' = [verdict EXCEPT ![r] = v]
        /\ next = "fetch" => result = "allowed" /\ ask[r].kind = "execute"
        /\ next = "audit" => v # "none" /\ (v = "ok" => ask[r].kind = "propose")
  <2>1. \/ result = "allowed" /\ ask[r].kind = "propose" /\ Decide(r, "ok")
        \/ result = "allowed" /\ ask[r].kind = "execute" /\ Await(r, "fetch")
        \/ Raise(r)
        \/ result \notin {"allowed", "raise"} /\ Decide(r, result)
    BY DEF Evaluate
  <2>2. verdict[r] \in Reasons \cup {"none", "ok"} /\ verdict = [verdict EXCEPT ![r] = verdict[r]]
    BY DEF CheckoutInv, TypeInv, CheckoutTypeOK
  <2> HIDE DEF result
  <2>3. QED
    BY <1>2, <2>1, <2>2 DEF Await, Decide, Raise, Reasons
<1>4. /\ terms'[r] = IF row = NoRow THEN NoRow ELSE row.payload
      /\ terms' \in [Request -> Payload \cup {NoRow}]
      /\ \A q \in Request \ {r} : terms'[q] = terms[q]
      /\ row # NoRow => row.payload \in Payload /\ row.payload # NoRow
  BY <1>1, <1>2, VaultConstants DEF Row, CheckoutInv, TypeInv, CheckoutTypeOK
<1>5. next = "fetch" => row # NoRow /\ terms'[r] = row.payload
                        /\ EvaluateProposal(ask[r].proposal, terms'[r]) = "allowed"
  BY <1>3, <1>4
<1> HIDE DEF row, result
<1>6. /\ pc'[r] = next /\ verdict'[r] = v /\ trail[r] = NoRow
      /\ MandateOf(r)' = MandateOf(r) /\ Made(r)' = Made(r) /\ Made(r) = {} /\ ~late[r]
  BY <1>1, <1>3 DEF CheckoutInv, TypeInv, CheckoutTypeOK, MandateOf, Made, Good, Tries, Late
<1>7. Good(r)'
  <2>1. Late(r)'
    BY <1>1, <1>6 DEF Late
  <2>2. Gated(r)' /\ Tries(r)'
    BY <1>1, <1>3, <1>4, <1>5, <1>6 DEF CheckoutInv, Good, Gated, Tries, Allowed
  <2>3. Traced(r)'
    BY <1>1, <1>3, <1>6 DEF Traced, Accounts
  <2>4. QED
    BY <2>1, <2>2, <2>3 DEF Good
<1>8. QED
  BY <1>1, <1>3, <1>4, <1>5, <1>7, QuietStep DEF PcType, Ends, CheckoutInv, TypeInv, CheckoutTypeOK

LEMMA FetchStep == ASSUME CheckoutInv, NEW r \in Request, Fetch(r) PROVE CheckoutInv'
<1> DEFINE row == mandates[MandateOf(r)]
<1>1. pc[r] = "fetch" /\ UNCHANGED <<vaultVars, ask, shown, terms, retried, orders, trail, late>>
  BY DEF Fetch
<1>2. row \in Row \cup {NoRow}
  BY <1>1, MandateTyped DEF CheckoutInv, TypeInv, VaultInv, TypeOK
<1>3. PICK next \in {"attempt", "audit"}, v \in Reasons \cup {"none", "ok"} :
        /\ pc' = [pc EXCEPT ![r] = next] /\ verdict' = [verdict EXCEPT ![r] = v]
        /\ next = "attempt" => row # NoRow /\ handed' = [handed EXCEPT ![r] = row.payload]
        /\ next = "audit" => v = "mandate_invalid" /\ UNCHANGED handed
  <2>1. \/ row = NoRow /\ Decide(r, "mandate_invalid") /\ UNCHANGED handed
        \/ row # NoRow /\ Await(r, "attempt") /\ handed' = [handed EXCEPT ![r] = row.payload]
    BY DEF Fetch
  <2>2. verdict[r] \in Reasons \cup {"none", "ok"} /\ verdict = [verdict EXCEPT ![r] = verdict[r]]
    BY DEF CheckoutInv, TypeInv, CheckoutTypeOK
  <2> HIDE DEF row
  <2>3. QED
    BY <2>1, <2>2 DEF Await, Decide, Reasons
<1>4. /\ handed' \in [Request -> Payload \cup {NoRow}]
      /\ \A q \in Request \ {r} : handed'[q] = handed[q]
      /\ next = "attempt" => handed'[r] \in Payload
  BY <1>2, <1>3 DEF Row, CheckoutInv, TypeInv, CheckoutTypeOK
<1> HIDE DEF row
<1>5. /\ pc'[r] = next /\ verdict'[r] = v /\ trail[r] = NoRow /\ terms[r] \in Payload
      /\ MandateOf(r)' = MandateOf(r) /\ Made(r)' = Made(r) /\ Made(r) = {} /\ ~late[r]
  BY <1>1, <1>3 DEF CheckoutInv, TypeInv, CheckoutTypeOK, MandateOf, Made, Good, Tries, Late
<1>6. Good(r)'
  <2>1. Late(r)'
    BY <1>1, <1>5 DEF Late
  <2>2. Gated(r)' /\ Tries(r)'
    BY <1>1, <1>3, <1>5 DEF CheckoutInv, Good, Gated, Tries, Allowed
  <2>3. Traced(r)'
    BY <1>1, <1>3, <1>5 DEF Traced, Accounts
  <2>4. QED
    BY <2>1, <2>2, <2>3 DEF Good
<1>7. QED
  BY <1>1, <1>3, <1>4, <1>5, <1>6, QuietStep DEF PcType, Ends, CheckoutInv, TypeInv, CheckoutTypeOK

LEMMA AuditFailsStep == ASSUME CheckoutInv, NEW r \in Request, AuditFails(r) PROVE CheckoutInv'
<1>1. /\ pc[r] = "audit" /\ pc' = [pc EXCEPT ![r] = "raised"]
      /\ UNCHANGED <<vaultVars, ask, shown, terms, handed, verdict, retried, orders, trail, late>>
  BY DEF AuditFails, Raise, Await
<1>2. /\ pc'[r] = "raised" /\ trail[r] = NoRow /\ verdict = [verdict EXCEPT ![r] = verdict[r]]
      /\ MandateOf(r)' = MandateOf(r) /\ Made(r)' = Made(r)
  BY <1>1 DEF CheckoutInv, TypeInv, CheckoutTypeOK, MandateOf, Made
<1>3. Good(r)'
  <2>1. Late(r)'
    BY <1>1, <1>2, VaultStill DEF CheckoutInv, TypeInv, Good, Late, Revoked, vaultVars
  <2>2. Gated(r)' /\ Tries(r)' /\ Traced(r)'
    BY <1>1, <1>2 DEF CheckoutInv, Good, Gated, Tries, Traced, Accounts, Allowed
  <2>3. QED
    BY <2>1, <2>2 DEF Good
<1>4. QED
  BY <1>1, <1>2, <1>3, QuietStep DEF PcType, Ends, CheckoutInv, TypeInv, CheckoutTypeOK

(* The only step that creates an order: its request is past every gate,    *)
(* and this is its first attempt or the retry of one.                      *)
LEMMA AttemptStep == ASSUME CheckoutInv, NEW r \in Request, Attempt(r) PROVE CheckoutInv'
<1> DEFINE n == IF retried[r] THEN 2 ELSE 1
<1>1. PICK answer \in Answers, created \in BOOLEAN :
        /\ Possible(answer, created)
        /\ orders' = IF created THEN orders \cup {<<r, n>>} ELSE orders
        /\ OnAnswer(r, answer)
  BY DEF Attempt
<1>2. /\ pc[r] = "attempt" /\ UNCHANGED <<vaultVars, ask, shown, terms, handed, trail, late>>
      /\ terms[r] \in Payload /\ handed[r] \in Payload /\ ask[r] \in Asked /\ trail[r] = NoRow
      /\ ~late[r] /\ MandateOf(r)' = MandateOf(r) /\ retried[r] \in BOOLEAN
  BY DEF Attempt, CheckoutInv, TypeInv, CheckoutTypeOK, Good, Late, MandateOf
<1>3. PICK next \in {"attempt", "audit"}, v \in Reasons \cup {"none", "ok"}, again \in BOOLEAN :
        /\ pc' = [pc EXCEPT ![r] = next] /\ verdict' = [verdict EXCEPT ![r] = v]
        /\ retried' = [retried EXCEPT ![r] = again]
        /\ next = "attempt" => ~retried[r] /\ again
        /\ next = "audit" => /\ again = retried[r] /\ v \in {"ok", "executor_failure"}
                             /\ v = "ok" => created
  <2>1. \/ answer = "ok" /\ Decide(r, "ok") /\ UNCHANGED retried
        \/ ~retried[r] /\ Await(r, "attempt") /\ retried' = [retried EXCEPT ![r] = TRUE]
        \/ Decide(r, "executor_failure") /\ UNCHANGED retried
    BY <1>1 DEF OnAnswer
  <2>2. /\ verdict[r] \in Reasons \cup {"none", "ok"} /\ verdict = [verdict EXCEPT ![r] = verdict[r]]
        /\ retried = [retried EXCEPT ![r] = retried[r]]
    BY DEF CheckoutInv, TypeInv, CheckoutTypeOK
  <2>3. answer = "ok" => created
    BY <1>1 DEF Possible
  <2>4. CASE answer = "ok" /\ Decide(r, "ok") /\ UNCHANGED retried
    BY <1>2, <2>2, <2>3, <2>4 DEF Decide
  <2>5. CASE ~retried[r] /\ Await(r, "attempt") /\ retried' = [retried EXCEPT ![r] = TRUE]
    BY <2>2, <2>5 DEF Await
  <2>6. CASE Decide(r, "executor_failure") /\ UNCHANGED retried
    BY <1>2, <2>2, <2>6 DEF Decide, Reasons
  <2>7. QED
    BY <2>1, <2>4, <2>5, <2>6
<1>4. /\ pc'[r] = next /\ verdict'[r] = v /\ retried'[r] = again
      /\ Made(r)' = IF created THEN Made(r) \cup {n} ELSE Made(r)
  BY <1>1, <1>3 DEF CheckoutInv, TypeInv, CheckoutTypeOK, Made
<1>5. IF retried[r] THEN 2 \notin Made(r) ELSE Made(r) = {}
  BY <1>2 DEF CheckoutInv, Good, Tries
<1>6. Made(r) \subseteq {1, 2}
  BY DEF Made
<1>7. \A q \in Request \ {r} :
         /\ pc'[q] = pc[q] /\ ask'[q] = ask[q] /\ shown'[q] = shown[q] /\ terms'[q] = terms[q]
         /\ verdict'[q] = verdict[q] /\ retried'[q] = retried[q] /\ trail'[q] = trail[q]
         /\ late'[q] = late[q] /\ Made(q)' = Made(q)
  BY <1>1, <1>2, <1>3 DEF CheckoutInv, TypeInv, CheckoutTypeOK, Made
<1>8. VaultInv' /\ TypeOK'
  BY <1>2, VaultStill DEF CheckoutInv, TypeInv
<1>9. orders' \subseteq Request \X {1, 2}
  BY <1>1 DEF CheckoutInv, TypeInv, CheckoutTypeOK
<1>10. CheckoutTypeOK'
  <2>1. next = "audit" => v # "none"
    BY <1>3
  <2> HIDE DEF n
  <2>2. QED
    BY <1>2, <1>3, <1>8, <1>9, <2>1 DEF CheckoutInv, TypeInv, CheckoutTypeOK, PcType, Ends
<1>11. Good(r)'
  <2>1. Late(r)'
    BY <1>2 DEF Late
  <2>2. Allowed(r) /\ shown[r] # NoRow /\ Cleared(shown[r])
    BY <1>2 DEF CheckoutInv, Good, Gated
  <2>3. Gated(r)'
    BY <1>2, <1>3, <1>4, <2>2 DEF Gated, Allowed
  <2>4. Tries(r)'
    BY <1>3, <1>4, <1>5, <1>6 DEF Tries
  <2>5. next = "audit" => Accounts(r)'
    BY <1>3, <1>4, <1>5, <1>6 DEF Accounts
  <2>6. Traced(r)'
    BY <1>2, <1>3, <1>4, <2>5 DEF Traced
  <2>7. QED
    BY <2>1, <2>3, <2>4, <2>6 DEF Good
<1>12. QED
  BY <1>2, <1>7, <1>8, <1>10, <1>11, Others DEF TypeInv

(* The row repeats the decision, and the answer follows the row.           *)
LEMMA RecordStep ==
  ASSUME CheckoutInv, NEW r \in Request, WriteAudit(r) \/ Respond(r)
  PROVE  CheckoutInv'
<1> DEFINE e == [verdict |-> verdict[r], retried |-> retried[r]]
<1>1. /\ UNCHANGED <<vaultVars, ask, shown, terms, handed, verdict, retried, orders, late>>
      /\ \/ pc[r] = "audit" /\ pc' = [pc EXCEPT ![r] = "reply"] /\ trail' = [trail EXCEPT ![r] = e]
         \/ pc[r] = "reply" /\ pc' = [pc EXCEPT ![r] = "answered"] /\ UNCHANGED trail
  BY DEF WriteAudit, Respond, Await
<1>2. Accounts(r) /\ verdict[r] # "none" /\ MandateOf(r)' = MandateOf(r) /\ Made(r)' = Made(r)
  BY <1>1 DEF CheckoutInv, TypeInv, CheckoutTypeOK, Good, Traced, MandateOf, Made
<1>3. e \in Entry /\ e # NoRow
  BY <1>2, CheckoutConstants DEF Entry, CheckoutInv, TypeInv, CheckoutTypeOK
<1>4. \A q \in Request \ {r} :
         /\ pc'[q] = pc[q] /\ ask'[q] = ask[q] /\ shown'[q] = shown[q] /\ terms'[q] = terms[q]
         /\ verdict'[q] = verdict[q] /\ retried'[q] = retried[q] /\ trail'[q] = trail[q]
         /\ late'[q] = late[q] /\ Made(q)' = Made(q)
  BY <1>1 DEF CheckoutInv, TypeInv, CheckoutTypeOK, Made
<1>5. VaultInv' /\ TypeOK'
  BY <1>1, VaultStill DEF CheckoutInv, TypeInv
<1>6. trail'[r] = e /\ pc'[r] \in {"reply", "answered"}
  BY <1>1 DEF CheckoutInv, TypeInv, CheckoutTypeOK, Good, Traced
<1>7. CheckoutTypeOK'
  <2> HIDE DEF e
  <2>1. QED
    BY <1>1, <1>2, <1>3, <1>5 DEF CheckoutInv, TypeInv, CheckoutTypeOK, PcType, Ends
<1>8. Good(r)'
  <2>1. Late(r)'
    BY <1>1, <1>2, <1>6, VaultStill DEF CheckoutInv, TypeInv, Good, Late, Revoked, vaultVars
  <2>2. Gated(r)' /\ Tries(r)'
    BY <1>1, <1>2, <1>6 DEF CheckoutInv, Good, Gated, Tries, Allowed
  <2>3. Traced(r)'
    BY <1>1, <1>2, <1>6 DEF Traced, Accounts
  <2>4. QED
    BY <2>1, <2>2, <2>3 DEF Good
<1>9. QED
  BY <1>1, <1>4, <1>5, <1>7, <1>8, Others DEF TypeInv

-----------------------------------------------------------------------------
(* A crash ends requests and sessions; rows, orders and the trail stay.    *)
LEMMA CrashStep == ASSUME CheckoutInv, Crash PROVE CheckoutInv'
<1>1. /\ sess' = [s \in Session |-> Ended("idle")]
      /\ UNCHANGED <<mandates, denylist, now, ask, shown, terms, handed, verdict, retried, orders, trail, late>>
      /\ pc' = [r \in Request |-> IF Live(r) THEN "lost" ELSE pc[r]]
  BY DEF Crash
<1>2. VaultInv' /\ TypeOK'
  BY <1>1, SessionsEnd DEF CheckoutInv, TypeInv
<1>3. CheckoutTypeOK'
  BY <1>1, <1>2 DEF CheckoutInv, TypeInv, CheckoutTypeOK, PcType, Ends, Live
<1>4. ASSUME NEW r \in Request PROVE Good(r)'
  <2>1. /\ pc'[r] = pc[r] \/ (pc[r] # "new" /\ pc'[r] = "lost")
        /\ MandateOf(r)' = MandateOf(r) /\ Made(r)' = Made(r)
        /\ Revoked(MandateOf(r)) => Revoked(MandateOf(r))'
    BY <1>1 DEF Live, MandateOf, Made, Revoked
  <2>2. CASE pc'[r] = pc[r]
    BY <1>1, <2>1, <2>2, Frame
  <2>3. CASE pc[r] # "new" /\ pc'[r] = "lost"
    <3>1. Late(r)'
      BY <1>1, <2>1, <2>3 DEF CheckoutInv, Good, Late
    <3>2. Gated(r)' /\ Tries(r)' /\ Traced(r)'
      BY <1>1, <2>1, <2>3 DEF CheckoutInv, Good, Gated, Allowed, Tries, Traced, Accounts
    <3>3. QED
      BY <3>1, <3>2 DEF Good
  <2>4. QED
    BY <2>1, <2>2, <2>3
<1>5. QED
  BY <1>2, <1>3, <1>4 DEF CheckoutInv, TypeInv

(* A step of the Vault leaves requests alone, and the revoked revoked.     *)
LEMMA VaultSide ==
  ASSUME CheckoutInv, [Next]_vaultVars, UNCHANGED reqVars
  PROVE  CheckoutInv'
<1>1. VaultInv' /\ \A m \in MandateId : Revoked(m) => Revoked(m)'
  BY VaultStep DEF CheckoutInv, TypeInv
<1>2. UNCHANGED <<pc, ask, shown, terms, handed, verdict, retried, orders, trail, late>>
  BY DEF reqVars
<1>3. CheckoutTypeOK'
  BY <1>1, <1>2 DEF CheckoutInv, TypeInv, VaultInv, CheckoutTypeOK
<1>4. ASSUME NEW r \in Request PROVE Good(r)'
  <2>1. MandateOf(r)' = MandateOf(r) /\ Made(r)' = Made(r)
    BY <1>2 DEF MandateOf, Made
  <2>2. CASE pc[r] = "new"
    BY <1>2, <2>1, <2>2 DEF CheckoutInv, Good, Late, Gated, Allowed, Tries, Traced, Accounts
  <2>3. CASE pc[r] # "new"
    BY <1>1, <1>2, <2>1, <2>3, MandateTyped, Frame
  <2>4. QED
    BY <2>2, <2>3
<1>5. QED
  BY <1>1, <1>3, <1>4 DEF CheckoutInv, TypeInv

LEMMA CheckoutStep == ASSUME CheckoutInv, [CheckoutNext]_checkoutVars PROVE CheckoutInv'
<1>1. CASE Next /\ UNCHANGED reqVars
  BY <1>1, VaultSide
<1>2. ASSUME NEW r \in Request, Serve(r) PROVE CheckoutInv'
  BY <1>2, ReceiveStep, ValidateStep, EvaluateStep, FetchStep, AttemptStep, RecordStep,
     AuditFailsStep DEF Serve
<1>3. CASE Crash
  BY <1>3, CrashStep
<1>4. CASE UNCHANGED checkoutVars
  BY <1>4, VaultSide DEF checkoutVars
<1>5. QED
  BY <1>1, <1>2, <1>3, <1>4 DEF CheckoutNext

LEMMA CheckoutAlways == CheckoutSpec => []CheckoutInv
  BY CheckoutInitInv, CheckoutStep, PTL DEF CheckoutSpec

(* Requests stay in their domains, and none is answered before its row is  *)
(* in Audit.                                                               *)
THEOREM CheckoutTyped == CheckoutSpec => []CheckoutTypeOK
<1>1. CheckoutInv => CheckoutTypeOK
  BY DEF CheckoutInv, TypeInv
<1>2. QED
  BY <1>1, CheckoutAlways, PTL

(* No order is created for a request that arrived after its Mandate was    *)
(* revoked, whatever stores, retries, faults and crashes surround it.      *)
THEOREM RevocationStopsMoney == CheckoutSpec => []NoOrderAfterRevocation
<1>1. CheckoutInv => NoOrderAfterRevocation
  BY OrderOfRequest DEF CheckoutInv, TypeInv, Good, Late, NoOrderAfterRevocation
<1>2. QED
  BY <1>1, CheckoutAlways, PTL

(* Every order has passed firewall, parser, Vault and policy: on the row   *)
(* validate_mandate was shown, by the clock it read, and on the terms the  *)
(* policy read after it.                                                   *)
THEOREM OrdersPassTheGates == CheckoutSpec => []OrdersAreGated
<1>1. CheckoutInv => OrdersAreGated
  BY OrderOfRequest DEF CheckoutInv, TypeInv, Good, Gated, Allowed, MandateOf, OrdersAreGated
<1>2. QED
  BY <1>1, CheckoutAlways, PTL

(* What the trail says of a request can be reconciled with its orders.     *)
THEOREM TrailReconciles == CheckoutSpec => []TrailAccountsForOrders
<1>1. CheckoutInv => TrailAccountsForOrders
  <2> SUFFICES ASSUME CheckoutInv, NEW r \in Request, trail[r] # NoRow
               PROVE  /\ trail[r].verdict = "ok" /\ ask[r].kind = "execute" =>
                           Made(r) # {} /\ (trail[r].retried \/ Made(r) = {1})
                      /\ Made(r) # {} => trail[r].verdict \in {"ok", "executor_failure"}
                      /\ Made(r) = {1, 2} => trail[r].retried
    BY DEF TrailAccountsForOrders
  <2>1. Accounts(r) /\ trail[r] = [verdict |-> verdict[r], retried |-> retried[r]]
    BY DEF CheckoutInv, Good, Traced
  <2>2. trail[r].verdict = verdict[r] /\ trail[r].retried = retried[r]
    BY <2>1
  <2>3. QED
    BY <2>1, <2>2 DEF Accounts
<1>2. QED
  BY <1>1, CheckoutAlways, PTL

-----------------------------------------------------------------------------
(***************************************************************************)
(* Checkout implements MoneyAction: every step of a handler, of the Vault  *)
(* and of a crash is a step of the promise, or leaves it alone.            *)
(***************************************************************************)

(* The abstract state of a Checkout state. *)
Phases == [r \in Request |-> Phase(pc[r])]
Questions == [r \in Request |-> IF pc[r] = "new" THEN NoRow
                               ELSE [kind |-> ask[r].kind, mandate |-> MandateOf(r)]]
Withdrawn == {m \in MandateId : Revoked(m)}
Entries == [r \in Request |-> IF trail[r] = NoRow THEN "none" ELSE trail[r].verdict]

LEMMA PhaseValues ==
  /\ Phase("new") = "new" /\ Phase("validate") = "open" /\ Phase("evaluate") = "authorised"
  /\ Phase("fetch") = "authorised" /\ Phase("attempt") = "authorised" /\ Phase("audit") = "decided"
  /\ Phase("reply") = "recorded" /\ Phase("answered") = "answered"
  /\ Phase("raised") = "failed" /\ Phase("lost") = "failed"
  BY DEF Phase

LEMMA MoneyInit == CheckoutInit => Money!Init
<1> SUFFICES ASSUME CheckoutInit PROVE Money!Init
  OBVIOUS
<1>1. Phases = [r \in Request |-> "new"] /\ Questions = [r \in Request |-> NoRow]
  BY PhaseValues DEF CheckoutInit, Phases, Questions
<1>2. Withdrawn = {} /\ Entries = [r \in Request |-> "none"]
  BY DEF CheckoutInit, Init, Revoked, Withdrawn, Entries
<1>3. QED
  BY <1>1, <1>2 DEF CheckoutInit, Money!Init, Phases, Questions, Withdrawn, Entries

(* A request that moves, with the Vault and the other requests at rest,    *)
(* moves alone in the promise too.                                         *)
LEMMA Moves ==
  ASSUME CheckoutInv, NEW r \in Request, NEW next, pc' = [pc EXCEPT ![r] = next],
         pc[r] # "new", next # "new", UNCHANGED vaultVars, UNCHANGED ask
  PROVE  /\ Phases' = [Phases EXCEPT ![r] = Phase(next)]
         /\ Phases[r] = Phase(pc[r])
         /\ UNCHANGED <<Questions, Withdrawn>>
         /\ Questions[r] = [kind |-> ask[r].kind, mandate |-> MandateOf(r)]
<1>1. pc \in [Request -> PcType]
  BY DEF CheckoutInv, TypeInv, CheckoutTypeOK
<1>2. Phases' = [Phases EXCEPT ![r] = Phase(next)] /\ Phases[r] = Phase(pc[r])
  BY <1>1 DEF Phases
<1>3. Questions' = Questions /\ Questions[r] = [kind |-> ask[r].kind, mandate |-> MandateOf(r)]
  BY <1>1 DEF Questions, MandateOf
<1>4. Withdrawn' = Withdrawn
  BY DEF Withdrawn, Revoked, vaultVars
<1>5. QED
  BY <1>2, <1>3, <1>4

LEMMA ArriveImpl == ASSUME CheckoutInv, NEW r \in Request, Receive(r) PROVE Money!Arrive(r)
<1>1. PICK kind \in {"propose", "execute"}, p \in Proposal, env \in Envelope :
        LET gate == IF kind = "propose" THEN "open" ELSE GateVerdict(env, p.mandate)
        IN /\ ask' = [ask EXCEPT ![r] = [kind |-> kind, proposal |-> p, envelope |-> env]]
           /\ \/ gate = "open" /\ Await(r, "validate")
              \/ gate = "raise" /\ Raise(r)
              \/ gate \notin {"open", "raise"} /\ Decide(r, gate)
  BY DEF Receive
<1> DEFINE gate == IF kind = "propose" THEN "open" ELSE GateVerdict(env, p.mandate)
<1>2. pc[r] = "new" /\ UNCHANGED <<vaultVars, orders, trail>>
  BY DEF Receive
<1>3. pc \in [Request -> PcType] /\ ask \in [Request -> Asked \cup {NoRow}]
  BY DEF CheckoutInv, TypeInv, CheckoutTypeOK
<1>4. PICK next \in {"validate", "audit", "raised"} :
        /\ pc' = [pc EXCEPT ![r] = next]
        /\ \/ next # "audit" /\ UNCHANGED verdict
           \/ next = "audit" /\ gate \in Reasons /\ verdict' = [verdict EXCEPT ![r] = gate]
  <2>1. gate \in Reasons \cup {"open", "raise"}
    BY GateAnswers
  <2> HIDE DEF gate
  <2>2. \/ Await(r, "validate") \/ Raise(r)
        \/ gate \in Reasons /\ Decide(r, gate)
    BY <1>1, <2>1 DEF gate
  <2>3. QED
    BY <2>2 DEF Await, Raise, Decide
<1>5. ask'[r].kind = kind /\ MandateOf(r)' = p.mandate /\ p.mandate \in MandateId
  BY <1>1, <1>3, CheckoutConstants DEF MandateOf
<1>6. Questions' = [Questions EXCEPT ![r] = [kind |-> kind, mandate |-> p.mandate]]
  <2>1. ASSUME NEW q \in Request, q # r PROVE Questions'[q] = Questions[q]
    BY <1>1, <1>3, <1>4, <2>1 DEF Questions, MandateOf
  <2>2. Questions'[r] = [kind |-> kind, mandate |-> p.mandate]
    BY <1>3, <1>4, <1>5 DEF Questions
  <2>3. QED
    BY <2>1, <2>2 DEF Questions
<1>7. Phases[r] = "new" /\ Phases' = [Phases EXCEPT ![r] = Phase(next)]
  BY <1>2, <1>3, <1>4, PhaseValues DEF Phases
<1>8. UNCHANGED <<Withdrawn, Entries, orders>>
  BY <1>2 DEF Withdrawn, Revoked, Entries, vaultVars
<1> HIDE DEF gate
<1>9. \/ /\ \E where \in {"open", "failed"} : Phases' = [Phases EXCEPT ![r] = where]
         /\ UNCHANGED verdict
      \/ /\ Phases' = [Phases EXCEPT ![r] = "decided"]
         /\ \E v \in Reasons : verdict' = [verdict EXCEPT ![r] = v]
  BY <1>4, <1>7, PhaseValues
<1>10. QED
  BY <1>5, <1>6, <1>7, <1>8, <1>9
  DEF Money!Arrive, Money!Move, Money!Decide, Phases, Questions, Withdrawn, Entries

(* A Refusal by Vault or policy, with nothing ordered so far.              *)
LEMMA RefuseImpl ==
  ASSUME CheckoutInv, NEW r \in Request, NEW v \in Reasons, Decide(r, v),
         pc[r] \in {"validate", "evaluate", "fetch"},
         UNCHANGED vaultVars, UNCHANGED ask, UNCHANGED <<orders, trail>>
  PROVE  Money!Refuse(r)
<1>1. pc' = [pc EXCEPT ![r] = "audit"] /\ verdict' = [verdict EXCEPT ![r] = v]
  BY DEF Decide
<1>2. /\ Phases' = [Phases EXCEPT ![r] = Phase("audit")] /\ Phases[r] = Phase(pc[r])
      /\ UNCHANGED <<Questions, Withdrawn>>
  BY <1>1, Moves
<1>3. Phases' = [Phases EXCEPT ![r] = "decided"] /\ Phases[r] \in {"open", "authorised"}
  BY <1>2, PhaseValues
<1>4. Money!Made(r) = {} /\ UNCHANGED Entries
  BY DEF Money!Made, Made, Entries, CheckoutInv, Good, Tries
<1>5. QED
  BY <1>1, <1>2, <1>3, <1>4
  DEF Money!Refuse, Money!Decide, Money!Move, Phases, Questions, Withdrawn, Entries

(* A request that ends in an exception.                                    *)
LEMMA RaiseImpl ==
  ASSUME CheckoutInv, NEW r \in Request, Raise(r), pc[r] \in {"validate", "evaluate", "audit"},
         UNCHANGED vaultVars, UNCHANGED ask, UNCHANGED <<orders, trail>>
  PROVE  Money!Fail({r})
<1>1. pc' = [pc EXCEPT ![r] = "raised"] /\ UNCHANGED verdict
  BY DEF Raise, Await
<1>2. /\ Phases' = [Phases EXCEPT ![r] = Phase("raised")] /\ Phases[r] = Phase(pc[r])
      /\ UNCHANGED <<Questions, Withdrawn>>
  BY <1>1, Moves
<1>3. Phases' = [Phases EXCEPT ![r] = "failed"] /\ Phases[r] \in {"open", "authorised", "decided"}
  BY <1>2, PhaseValues
<1>4. Phases' = [q \in Request |-> IF q \in {r} THEN "failed" ELSE Phases[q]]
  BY <1>3 DEF Phases
<1>5. UNCHANGED Entries
  BY DEF Entries
<1>6. QED
  BY <1>1, <1>2, <1>3, <1>4, <1>5 DEF Money!Fail, Phases, Questions, Withdrawn, Entries

LEMMA ValidateImpl ==
  ASSUME CheckoutInv, NEW r \in Request, Validate(r)
  PROVE  Money!Authorise(r) \/ Money!Refuse(r) \/ Money!Fail({r})
<1>1. /\ pc[r] = "validate" /\ UNCHANGED vaultVars /\ UNCHANGED ask /\ UNCHANGED <<orders, trail>>
      /\ "mandate_invalid" \in Reasons
  BY DEF Validate, Reasons
<1>2. CASE ValidateMandate(MandateOf(r)) = "valid" /\ Await(r, "evaluate")
  <2>1. /\ pc' = [pc EXCEPT ![r] = "evaluate"] /\ UNCHANGED verdict
        /\ MandateOf(r) \notin Withdrawn
    BY <1>2 DEF Await, ValidateMandate, Withdrawn
  <2>2. /\ Phases' = [Phases EXCEPT ![r] = Phase("evaluate")] /\ Phases[r] = Phase("validate")
        /\ UNCHANGED <<Questions, Withdrawn>>
    BY <1>1, <2>1, Moves
  <2>3. Phases' = [Phases EXCEPT ![r] = "authorised"] /\ Phases[r] = "open"
    BY <2>2, PhaseValues
  <2>4. Questions[r].mandate = MandateOf(r)
    BY <1>1 DEF Questions
  <2>5. UNCHANGED Entries
    BY <1>1 DEF Entries
  <2>6. QED
    BY <1>1, <2>1, <2>2, <2>3, <2>4, <2>5
    DEF Money!Authorise, Money!Move, Phases, Questions, Withdrawn, Entries
<1>3. CASE Decide(r, "mandate_invalid")
  BY <1>1, <1>3, RefuseImpl
<1>4. CASE Raise(r)
  BY <1>1, <1>4, RaiseImpl
<1>5. QED
  BY <1>2, <1>3, <1>4 DEF Validate

(* Inside the promise's "authorised", policy and fetch only go on,         *)
(* approve, refuse or raise.                                               *)
LEMMA PolicyImpl ==
  ASSUME CheckoutInv, NEW r \in Request, Evaluate(r) \/ Fetch(r)
  PROVE  Money!Refuse(r) \/ Money!Approve(r) \/ Money!Fail({r}) \/ UNCHANGED Money!actionVars
<1>1. /\ pc[r] \in {"evaluate", "fetch"} /\ UNCHANGED vaultVars /\ UNCHANGED ask
      /\ UNCHANGED <<orders, trail>>
  BY DEF Evaluate, Fetch
<1>2. UNCHANGED Entries
  BY <1>1 DEF Entries
<1>3. CASE \E v \in Reasons : Decide(r, v)
  BY <1>1, <1>3, RefuseImpl
<1>4. CASE ask[r].kind = "propose" /\ Decide(r, "ok")
  <2>1. pc' = [pc EXCEPT ![r] = "audit"] /\ verdict' = [verdict EXCEPT ![r] = "ok"]
    BY <1>4 DEF Decide
  <2>2. /\ Phases' = [Phases EXCEPT ![r] = Phase("audit")] /\ Phases[r] = Phase(pc[r])
        /\ UNCHANGED <<Questions, Withdrawn>>
    BY <1>1, <2>1, Moves
  <2>3. Phases' = [Phases EXCEPT ![r] = "decided"] /\ Phases[r] = "authorised"
    BY <1>1, <2>2, PhaseValues
  <2>4. Questions[r].kind = "propose"
    BY <1>1, <1>4 DEF Questions
  <2>5. QED
    BY <1>1, <1>2, <2>1, <2>2, <2>3, <2>4
    DEF Money!Approve, Money!Decide, Money!Move, Phases, Questions, Withdrawn, Entries
<1>5. ASSUME NEW next \in {"fetch", "attempt"}, Await(r, next) PROVE UNCHANGED Money!actionVars
  <2>1. pc' = [pc EXCEPT ![r] = next] /\ UNCHANGED verdict
    BY <1>5 DEF Await
  <2>2. /\ Phases' = [Phases EXCEPT ![r] = Phase(next)] /\ Phases[r] = Phase(pc[r])
        /\ UNCHANGED <<Questions, Withdrawn>>
    BY <1>1, <2>1, Moves
  <2>3. Phase(next) = Phases[r]
    BY <1>1, <2>2, PhaseValues
  <2>4. Phases' = Phases
    BY <2>2, <2>3 DEF Phases
  <2>5. QED
    BY <1>1, <1>2, <2>1, <2>2, <2>4
    DEF Money!actionVars, Phases, Questions, Withdrawn, Entries
<1>6. \/ \E v \in Reasons : Decide(r, v)
      \/ ask[r].kind = "propose" /\ Decide(r, "ok")
      \/ \E next \in {"fetch", "attempt"} : Await(r, next)
      \/ Raise(r)
  <2>1. CASE Fetch(r)
    BY <2>1 DEF Fetch, Reasons
  <2>2. CASE Evaluate(r)
    <3> DEFINE row == mandates[MandateOf(r)]
               result == IF row = NoRow THEN "mandate_invalid"
                         ELSE EvaluateProposal(ask[r].proposal, row.payload)
    <3>1. result \in Reasons \cup {"allowed", "raise"}
      BY PolicyAnswers DEF Reasons
    <3>2. \/ result = "allowed" /\ ask[r].kind = "propose" /\ Decide(r, "ok")
          \/ result = "allowed" /\ ask[r].kind = "execute" /\ Await(r, "fetch")
          \/ Raise(r)
          \/ result \notin {"allowed", "raise"} /\ Decide(r, result)
      BY <2>2 DEF Evaluate
    <3> HIDE DEF row, result
    <3>3. QED
      BY <3>1, <3>2
  <2>3. QED
    BY <2>1, <2>2
<1>7. CASE Raise(r)
  <2>1. pc[r] \in {"validate", "evaluate", "audit"}
    <3>1. ~Fetch(r)
      BY <1>7 DEF Fetch, Decide, Raise, Await, CheckoutInv, TypeInv, CheckoutTypeOK
    <3>2. QED
      BY <3>1 DEF Evaluate
  <2>2. Money!Fail({r})
    BY <1>1, <1>7, <2>1, RaiseImpl
  <2>3. QED
    BY <2>2
<1>8. QED
  BY <1>3, <1>4, <1>5, <1>6, <1>7

LEMMA ExecuteImpl ==
  ASSUME CheckoutInv, NEW r \in Request, Attempt(r)
  PROVE  Money!Execute(r)
<1> DEFINE n == IF retried[r] THEN 2 ELSE 1
<1>1. PICK answer \in Answers, created \in BOOLEAN :
        /\ Possible(answer, created)
        /\ orders' = IF created THEN orders \cup {<<r, n>>} ELSE orders
        /\ OnAnswer(r, answer)
  BY DEF Attempt
<1>2. /\ pc[r] = "attempt" /\ UNCHANGED vaultVars /\ UNCHANGED ask /\ UNCHANGED trail
      /\ ask[r].kind = "execute"
      /\ IF retried[r] THEN 2 \notin Made(r) ELSE Made(r) = {}
  BY DEF Attempt, CheckoutInv, Good, Gated, Allowed, Tries
<1>3. UNCHANGED Entries /\ Questions[r].kind = "execute"
  BY <1>2 DEF Entries, Questions
<1>4. n \in {1, 2} /\ orders' \in {orders, orders \cup {<<r, n>>}}
  BY <1>1
<1>5. \A k \in Made(r) : k < n
  BY <1>2 DEF Made
<1>6. \/ answer = "ok" /\ Decide(r, "ok")
      \/ Await(r, "attempt")
      \/ Decide(r, "executor_failure")
  BY <1>1 DEF OnAnswer
<1>7. answer = "ok" => Made(r)' # {}
  BY <1>1, <1>4 DEF Possible, Made
<1> HIDE DEF n
<1>8. CASE \E v \in {"ok", "executor_failure"} : Decide(r, v) /\ (v = "ok" => Made(r)' # {})
  <2>1. PICK v \in {"ok", "executor_failure"} : Decide(r, v) /\ (v = "ok" => Made(r)' # {})
    BY <1>8
  <2>2. pc' = [pc EXCEPT ![r] = "audit"] /\ verdict' = [verdict EXCEPT ![r] = v]
    BY <2>1 DEF Decide
  <2>3. /\ Phases' = [Phases EXCEPT ![r] = Phase("audit")] /\ Phases[r] = Phase("attempt")
        /\ UNCHANGED <<Questions, Withdrawn>>
    BY <1>2, <2>2, Moves
  <2>4. Phases' = [Phases EXCEPT ![r] = "decided"] /\ Phases[r] = "authorised"
    BY <2>3, PhaseValues
  <2>5. QED
    BY <1>3, <1>4, <1>5, <2>1, <2>2, <2>3, <2>4
    DEF Money!Execute, Money!Made, Made, Money!Decide, Money!Move, Phases, Questions, Withdrawn, Entries
<1>9. CASE Await(r, "attempt")
  <2>1. pc' = [pc EXCEPT ![r] = "attempt"] /\ UNCHANGED verdict
    BY <1>9 DEF Await
  <2>2. /\ Phases' = [Phases EXCEPT ![r] = Phase("attempt")] /\ Phases[r] = Phase("attempt")
        /\ UNCHANGED <<Questions, Withdrawn>>
    BY <1>2, <2>1, Moves
  <2>3. Phases' = Phases /\ Phases[r] = "authorised"
    BY <2>2, PhaseValues DEF Phases
  <2>4. QED
    BY <1>3, <1>4, <1>5, <2>1, <2>2, <2>3
    DEF Money!Execute, Money!Made, Made, Phases, Questions, Withdrawn, Entries
<1>10. QED
  BY <1>6, <1>7, <1>8, <1>9

LEMMA RecordImpl ==
  ASSUME CheckoutInv, NEW r \in Request, WriteAudit(r)
  PROVE  Money!Record(r)
<1> DEFINE e == [verdict |-> verdict[r], retried |-> retried[r]]
<1>1. /\ pc[r] = "audit" /\ pc' = [pc EXCEPT ![r] = "reply"] /\ UNCHANGED verdict
      /\ UNCHANGED vaultVars /\ UNCHANGED ask /\ UNCHANGED orders
      /\ trail' = [trail EXCEPT ![r] = e]
  BY DEF WriteAudit, Await
<1>2. e \in Entry /\ e # NoRow /\ e.verdict = verdict[r]
  BY <1>1, CheckoutConstants DEF Entry, CheckoutInv, TypeInv, CheckoutTypeOK
<1> HIDE DEF e
<1>3. Entries' = [Entries EXCEPT ![r] = verdict[r]]
  BY <1>1, <1>2 DEF Entries, CheckoutInv, TypeInv, CheckoutTypeOK
<1>4. /\ Phases' = [Phases EXCEPT ![r] = Phase("reply")] /\ Phases[r] = Phase("audit")
      /\ UNCHANGED <<Questions, Withdrawn>>
  BY <1>1, Moves
<1>5. Phases' = [Phases EXCEPT ![r] = "recorded"] /\ Phases[r] = "decided"
  BY <1>4, PhaseValues
<1>6. QED
  BY <1>1, <1>3, <1>4, <1>5 DEF Money!Record, Money!Move, Phases, Questions, Withdrawn, Entries

LEMMA AnswerImpl ==
  ASSUME CheckoutInv, NEW r \in Request, Respond(r)
  PROVE  Money!Answer(r)
<1>1. /\ pc[r] = "reply" /\ pc' = [pc EXCEPT ![r] = "answered"] /\ UNCHANGED verdict
      /\ UNCHANGED vaultVars /\ UNCHANGED ask /\ UNCHANGED <<orders, trail>>
  BY DEF Respond, Await
<1>2. /\ Phases' = [Phases EXCEPT ![r] = Phase("answered")] /\ Phases[r] = Phase("reply")
      /\ UNCHANGED <<Questions, Withdrawn>>
  BY <1>1, Moves
<1>3. Phases' = [Phases EXCEPT ![r] = "answered"] /\ Phases[r] = "recorded"
  BY <1>2, PhaseValues
<1>4. UNCHANGED Entries
  BY <1>1 DEF Entries
<1>5. QED
  BY <1>1, <1>2, <1>3, <1>4 DEF Money!Answer, Money!Move, Phases, Questions, Withdrawn, Entries

LEMMA CrashImpl == ASSUME CheckoutInv, Crash PROVE \E R \in SUBSET Request : Money!Fail(R)
<1> DEFINE R == {r \in Request : Live(r)}
<1>1. /\ pc' = [r \in Request |-> IF Live(r) THEN "lost" ELSE pc[r]]
      /\ UNCHANGED <<mandates, ask, orders, verdict, trail>>
  BY DEF Crash
<1>2. pc \in [Request -> PcType]
  BY DEF CheckoutInv, TypeInv, CheckoutTypeOK
<1>3. Phases' = [r \in Request |-> IF r \in R THEN "failed" ELSE Phases[r]]
  <2>1. \A r \in Request : Phase(pc'[r]) = IF Live(r) THEN "failed" ELSE Phase(pc[r])
    BY <1>1, PhaseValues
  <2>2. QED
    BY <2>1 DEF Phases
<1>4. \A r \in R : Phases[r] \notin {"new", "answered", "failed"}
  BY <1>2, PhaseValues DEF Phases, Live, PcType, Ends
<1>5. UNCHANGED <<Questions, Withdrawn, Entries>>
  BY <1>1, <1>2 DEF Questions, Withdrawn, Entries, Revoked, MandateOf, Live, Ends
<1>6. Money!Fail(R)
  BY <1>1, <1>3, <1>4, <1>5 DEF Money!Fail, Phases, Questions, Withdrawn, Entries
<1>7. QED
  BY <1>6

(* The Vault only ever adds to the revoked Mandates.                       *)
LEMMA VaultImpl ==
  ASSUME CheckoutInv, [Next]_vaultVars, UNCHANGED reqVars
  PROVE  \E M \in SUBSET MandateId : Money!Revoke(M)
<1>1. \A m \in MandateId : Revoked(m) => Revoked(m)'
  BY VaultStep DEF CheckoutInv, TypeInv
<1>2. Withdrawn' = Withdrawn \cup Withdrawn' /\ Withdrawn' \in SUBSET MandateId
  BY <1>1 DEF Withdrawn
<1>3. UNCHANGED <<Phases, Questions, Entries, orders, verdict>>
  BY DEF reqVars, Phases, Questions, Entries, MandateOf
<1>4. Money!Revoke(Withdrawn')
  BY <1>2, <1>3 DEF Money!Revoke, Phases, Questions, Withdrawn, Entries
<1>5. QED
  BY <1>2, <1>4

LEMMA MoneyStep ==
  ASSUME CheckoutInv, [CheckoutNext]_checkoutVars
  PROVE  [Money!Next]_Money!actionVars
<1>1. CASE Next /\ UNCHANGED reqVars
  BY <1>1, VaultImpl DEF Money!Next
<1>2. ASSUME NEW r \in Request, Serve(r) PROVE [Money!Next]_Money!actionVars
  <2>1. CASE Receive(r)
    BY <2>1, ArriveImpl DEF Money!Next, Money!Progress
  <2>2. CASE Validate(r)
    BY <2>2, ValidateImpl DEF Money!Next, Money!Progress
  <2>3. CASE Evaluate(r) \/ Fetch(r)
    BY <2>3, PolicyImpl DEF Money!Next, Money!Progress
  <2>4. CASE Attempt(r)
    BY <2>4, ExecuteImpl DEF Money!Next, Money!Progress
  <2>5. CASE WriteAudit(r) \/ Respond(r)
    BY <2>5, RecordImpl, AnswerImpl DEF Money!Next, Money!Progress
  <2>6. CASE AuditFails(r)
    <3>1. Money!Fail({r})
      BY <2>6, RaiseImpl DEF AuditFails
    <3>2. QED
      BY <3>1 DEF Money!Next
  <2>7. QED
    BY <1>2, <2>1, <2>2, <2>3, <2>4, <2>5, <2>6 DEF Serve
<1>3. CASE Crash
  BY <1>3, CrashImpl DEF Money!Next
<1>4. CASE UNCHANGED checkoutVars
  BY <1>4, VaultImpl DEF checkoutVars, Money!Next
<1>5. QED
  BY <1>1, <1>2, <1>3, <1>4 DEF CheckoutNext

(* Whatever requests, sessions, Mandates, faults and crashes there are,    *)
(* checkout keeps the promise of a Money action.                           *)
THEOREM CheckoutIsAMoneyAction == CheckoutSpec => ImplementsMoneyAction
  BY MoneyInit, MoneyStep, CheckoutAlways, PTL DEF CheckoutSpec, ImplementsMoneyAction, Money!Spec

-----------------------------------------------------------------------------
(* A step serves one request; the others stay as they are.                 *)
LEMMA OthersStay ==
  ASSUME CheckoutInv, NEW r \in Request, Serve(r), NEW q \in Request \ {r}
  PROVE  RequestState(q)' = RequestState(q)
<1>1. /\ pc'[q] = pc[q] /\ ask'[q] = ask[q] /\ shown'[q] = shown[q] /\ terms'[q] = terms[q] /\ handed'[q] = handed[q]
      /\ verdict'[q] = verdict[q] /\ retried'[q] = retried[q] /\ trail'[q] = trail[q]
      /\ late'[q] = late[q]
  BY DEF CheckoutInv, TypeInv, CheckoutTypeOK, Serve, Receive, Validate, Evaluate, Fetch, Attempt, OnAnswer,
     WriteAudit, AuditFails, Respond, Decide, Await, Raise
<1>2. orders' = orders \/ \E n : orders' = orders \cup {<<r, n>>}
  BY DEF Serve, Receive, Validate, Evaluate, Fetch, Attempt, WriteAudit, AuditFails, Respond
<1>3. Made(q)' = Made(q)
  BY <1>2 DEF Made
<1>4. QED
  BY <1>1, <1>3 DEF RequestState

(* The one that is served has come nearer its end. *)
LEMMA ServedAdvances ==
  ASSUME CheckoutInv, NEW r \in Request, Serve(r)
  PROVE  AwaitsLeft(r)' < AwaitsLeft(r)
<1> USE DEF AwaitsLeft, Decide, Await, Raise
<1>0. /\ pc \in [Request -> PcType] /\ retried \in [Request -> BOOLEAN]
  BY DEF CheckoutInv, TypeInv, CheckoutTypeOK
<1>1. CASE Receive(r)
  <2>1. pc[r] = "new" /\ pc'[r] \in {"validate", "raised", "audit"}
    BY <1>0, <1>1 DEF Receive
  <2>2. QED
    BY <2>1
<1>2. CASE Validate(r)
  <2>1. pc[r] = "validate" /\ pc'[r] \in {"evaluate", "raised", "audit"}
    BY <1>0, <1>2 DEF Validate
  <2>2. QED
    BY <2>1
<1>3. CASE Evaluate(r)
  <2>1. pc[r] = "evaluate" /\ pc'[r] \in {"fetch", "raised", "audit"}
    BY <1>0, <1>3 DEF Evaluate
  <2>2. QED
    BY <2>1
<1>4. CASE Fetch(r)
  <2>1. pc[r] = "fetch" /\ pc'[r] \in {"attempt", "audit"}
    BY <1>0, <1>4 DEF Fetch
  <2>2. QED
    BY <2>1
<1>5. CASE Attempt(r)
  <2>1. pc[r] = "attempt" /\ \/ pc'[r] = "audit"
                             \/ pc'[r] = "attempt" /\ ~retried[r] /\ retried'[r]
    BY <1>0, <1>5 DEF Attempt, OnAnswer
  <2>2. QED
    BY <2>1
<1>6. CASE WriteAudit(r) \/ AuditFails(r) \/ Respond(r)
  <2>1. \/ pc[r] = "audit" /\ pc'[r] \in {"reply", "raised"}
        \/ pc[r] = "reply" /\ pc'[r] = "answered"
    BY <1>0, <1>6 DEF WriteAudit, AuditFails, Respond
  <2>2. QED
    BY <2>1
<1>7. QED
  BY <1>1, <1>2, <1>3, <1>4, <1>5, <1>6 DEF Serve

(* No answer, fault, crash or other request takes a request back: it has   *)
(* eight steps at most, and is over when it has ended.                     *)
THEOREM RequestsOnlyAdvance == CheckoutSpec => RequestsAdvance
<1>1. ASSUME CheckoutInv, CheckoutNext, NEW r \in Request, RequestState(r)' # RequestState(r)
      PROVE  AwaitsLeft(r)' < AwaitsLeft(r)
  <2>1. CASE UNCHANGED reqVars
    BY <1>1, <2>1 DEF RequestState, Made, reqVars
  <2>2. CASE \E q \in Request : Serve(q)
    BY <1>1, <2>2, OthersStay, ServedAdvances
  <2>3. CASE Crash
    <3>1. /\ pc'[r] = IF Live(r) THEN "lost" ELSE pc[r]
          /\ UNCHANGED <<ask, shown, terms, handed, verdict, retried, orders, trail, late>>
      BY <2>3 DEF Crash
    <3>2. Made(r)' = Made(r)
      BY <3>1 DEF Made
    <3>3. Live(r)
      BY <1>1, <3>1, <3>2 DEF RequestState
    <3>4. pc'[r] = "lost" /\ pc[r] \in PcType \ (Ends \cup {"new"})
      <4>1. pc[r] \in PcType
        BY <1>1 DEF CheckoutInv, TypeInv, CheckoutTypeOK
      <4>2. pc'[r] = "lost"
        BY <3>1, <3>3
      <4>3. QED
        BY <3>3, <4>1, <4>2 DEF Live
    <3>5. AwaitsLeft(r)' = 0
      BY <3>4 DEF AwaitsLeft
    <3>6. AwaitsLeft(r) > 0
      BY <3>4 DEF AwaitsLeft, PcType, Ends
    <3>7. QED
      BY <3>5, <3>6
  <2>4. QED
    BY <1>1, <2>1, <2>2, <2>3 DEF CheckoutNext
<1>2. CheckoutInv /\ [CheckoutNext]_checkoutVars =>
        [\A r \in Request : RequestState(r)' # RequestState(r) => AwaitsLeft(r)' < AwaitsLeft(r)]_checkoutVars
  BY <1>1
<1>3. QED
  BY <1>2, CheckoutAlways, PTL DEF CheckoutSpec, RequestsAdvance
=============================================================================
