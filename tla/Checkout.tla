------------------------------ MODULE Checkout ------------------------------
(***************************************************************************)
(* Checkout requests against the Vault: POST /v1/checkout/propose and      *)
(* /execute.  Every await is a step boundary, at which stores, revocations *)
(* and other requests come between.  The Audit write is one step here; how *)
(* log_entry itself interleaves is the subject of AuditChain.              *)
(***************************************************************************)
EXTENDS Vault, Policy, Gate

CONSTANTS Request,   \* requests in flight, each served once
          Proposal, Envelope,
          Faults     \* subset of {"audit", "crash"}: what may go wrong around the handler

(* What the policy, the gates before it and the executor refuse with.      *)
Reasons == {"idpi_detected", "unknown_protocol", "missing_required_field", "missing_expires_at",
            "mandate_invalid", "over_limit", "sku_not_allowed", "invented_price",
            "invented_discount", "dark_pattern", "executor_failure"}
Entry == [verdict : Reasons \cup {"ok"}, retried : BOOLEAN]
Shown == [revoked : BOOLEAN, denied : BOOLEAN, exp : Expiry, at : Nat]

ASSUME CheckoutConstants ==
  /\ \A p \in Proposal : p.mandate \in MandateId
  /\ NoRow \notin Entry \cup Shown

VARIABLES pc,       \* pc[r]: the await request r is at, or how it ended
          ask,      \* ask[r]: the request: kind, proposal, envelope
          shown,    \* history: what validate_mandate's SELECT and clock gave r
          terms,    \* terms[r]: the Mandate the policy read
          handed,   \* handed[r]: the Mandate given to the executor
          verdict,  \* verdict[r]: "ok" or a reason_code, once decided
          retried,  \* retried[r]: the transient retry was taken
          orders,   \* <<r, n>>: an order exists at Razorpay from attempt n of r
          trail,    \* trail[r]: the Audit row of r, or NoRow
          late      \* history: late[r] iff r arrived with its Mandate revoked

reqVars == <<pc, ask, shown, terms, handed, verdict, retried, orders, trail, late>>
checkoutVars == <<vaultVars, reqVars>>

Ends == {"answered", "raised", "lost"}
Live(r) == pc[r] \notin Ends \cup {"new"}
MandateOf(r) == ask[r].proposal.mandate

CheckoutInit ==
  /\ Init
  /\ pc = [r \in Request |-> "new"]
  /\ ask = [r \in Request |-> NoRow]
  /\ shown = [r \in Request |-> NoRow]
  /\ terms = [r \in Request |-> NoRow] /\ handed = [r \in Request |-> NoRow]
  /\ verdict = [r \in Request |-> "none"] /\ retried = [r \in Request |-> FALSE]
  /\ orders = {} /\ trail = [r \in Request |-> NoRow]
  /\ late = [r \in Request |-> FALSE]

(* A decision ends in the Audit write: "ok" or a Refusal with its reason. *)
Decide(r, v) == /\ pc' = [pc EXCEPT ![r] = "audit"]
                /\ verdict' = [verdict EXCEPT ![r] = v]
Await(r, next) == pc' = [pc EXCEPT ![r] = next] /\ UNCHANGED verdict
Raise(r) == Await(r, "raised")

(* The row of validate_mandate's joined SELECT, and the clock beside it. *)
ShownOf(m) ==
  IF mandates[m] = NoRow THEN NoRow
  ELSE [revoked |-> mandates[m].revoked, denied |-> mandates[m].agent \in denylist,
        exp |-> mandates[m].exp, at |-> now]

-----------------------------------------------------------------------------
(* Mutant: an exception of the parser swallowed *)
ReceiveLenient(r) ==
  /\ pc[r] = "new"
  /\ \E kind \in {"propose", "execute"}, p \in Proposal, env \in Envelope :
       LET gate == IF kind = "propose" THEN "open" ELSE GateVerdict(env, p.mandate)
       IN /\ ask' = [ask EXCEPT ![r] = [kind |-> kind, proposal |-> p, envelope |-> env]]
          /\ late' = [late EXCEPT ![r] = Revoked(p.mandate)]
          /\ \/ gate \in {"open", "raise"} /\ Await(r, "validate")
             \/ gate \notin {"open", "raise"} /\ Decide(r, gate)
  /\ UNCHANGED <<vaultVars, shown, terms, handed, retried, orders, trail>>

(* A request arrives and passes, or not, what run_execute does before its  *)
(* first await; propose goes straight to the policy.                       *)
Receive(r) ==
  /\ pc[r] = "new"
  /\ \E kind \in {"propose", "execute"}, p \in Proposal, env \in Envelope :
       LET gate == IF kind = "propose" THEN "open" ELSE GateVerdict(env, p.mandate)
       IN /\ ask' = [ask EXCEPT ![r] = [kind |-> kind, proposal |-> p, envelope |-> env]]
          /\ late' = [late EXCEPT ![r] = Revoked(p.mandate)]
          /\ \/ gate = "open" /\ Await(r, "validate")
             \/ gate = "raise" /\ Raise(r)
             \/ gate \notin {"open", "raise"} /\ Decide(r, gate)
  /\ UNCHANGED <<vaultVars, shown, terms, handed, retried, orders, trail>>

(* Mutant: the answer of validate_mandate taken for true without an await *)
ValidateUnawaited(r) ==
  /\ pc[r] = "validate"
  /\ shown' = [shown EXCEPT ![r] = ShownOf(MandateOf(r))]
  /\ Await(r, "evaluate")
  /\ UNCHANGED <<vaultVars, ask, terms, handed, retried, orders, trail, late>>

(* evaluate_proposal awaits validate_mandate ... *)
Validate(r) ==
  LET answer == ValidateMandate(MandateOf(r))
  IN /\ pc[r] = "validate"
     /\ shown' = [shown EXCEPT ![r] = ShownOf(MandateOf(r))]
     /\ \/ answer = "valid" /\ Await(r, "evaluate")
        \/ answer = "invalid" /\ Decide(r, "mandate_invalid")
        \/ answer = "raise" /\ Raise(r)
     /\ UNCHANGED <<vaultVars, ask, terms, handed, retried, orders, trail, late>>

(* ... then get_mandate, and decides on what that second query returned.   *)
Evaluate(r) ==
  LET row == mandates[MandateOf(r)]
      result == IF row = NoRow THEN "mandate_invalid"
                ELSE EvaluateProposal(ask[r].proposal, row.payload)
  IN /\ pc[r] = "evaluate"
     /\ terms' = [terms EXCEPT ![r] = IF row = NoRow THEN NoRow ELSE row.payload]
     /\ \/ result = "allowed" /\ ask[r].kind = "propose" /\ Decide(r, "ok")
        \/ result = "allowed" /\ ask[r].kind = "execute" /\ Await(r, "fetch")
        \/ result = "raise" /\ Raise(r)
        \/ result \notin {"allowed", "raise"} /\ Decide(r, result)
     /\ UNCHANGED <<vaultVars, ask, shown, handed, retried, orders, trail, late>>

(* Mutant: the Mandate read only when there was an envelope *)
FetchParsedOnly(r) ==
  /\ pc[r] = "fetch"
  /\ Await(r, "attempt")
  /\ handed' = [handed EXCEPT ![r] = IF ask[r].envelope = NoEnvelope THEN NoRow
                                     ELSE mandates[MandateOf(r)].payload]
  /\ UNCHANGED <<vaultVars, ask, shown, terms, retried, orders, trail, late>>

(* run_execute reads the Mandate once more, for the executor. *)
Fetch(r) ==
  LET row == mandates[MandateOf(r)]
  IN /\ pc[r] = "fetch"
     /\ IF row = NoRow THEN Decide(r, "mandate_invalid") /\ UNCHANGED handed
        ELSE Await(r, "attempt") /\ handed' = [handed EXCEPT ![r] = row.payload]
     /\ UNCHANGED <<vaultVars, ask, shown, terms, retried, orders, trail, late>>

(* External: one call of Razorpay's create order.  The order may exist     *)
(* whatever the caller hears; chaos injection is the case of a transient   *)
(* fault with no order.                                                    *)
Answers == {"ok", "transient", "permanent"}
Possible(answer, created) == answer = "ok" => created

(* Mutants: a retry without a bound; the mark of the retry lost when it    *)
(* fails.                                                                  *)
OnAnswerUnbounded(r, answer) ==
  \/ answer = "ok" /\ Decide(r, "ok") /\ UNCHANGED retried
  \/ answer = "transient" /\ Await(r, "attempt")
                           /\ retried' = [retried EXCEPT ![r] = ~retried[r]]
  \/ answer = "permanent" /\ Decide(r, "executor_failure") /\ UNCHANGED retried
OnAnswerUnmarked(r, answer) ==
  \/ answer = "ok" /\ Decide(r, "ok") /\ UNCHANGED retried
  \/ answer = "transient" /\ ~retried[r] /\ Await(r, "attempt")
                           /\ retried' = [retried EXCEPT ![r] = TRUE]
  \/ (answer = "permanent" \/ retried[r]) /\ answer # "ok" /\ Decide(r, "executor_failure")
                           /\ retried' = [retried EXCEPT ![r] = FALSE]
(* _execute_once_with_retry and the except of run_execute: a transient     *)
(* fault is retried exactly once, any other is a Refusal.                  *)
OnAnswer(r, answer) ==
  \/ answer = "ok" /\ Decide(r, "ok") /\ UNCHANGED retried
  \/ answer = "transient" /\ ~retried[r] /\ Await(r, "attempt")
                           /\ retried' = [retried EXCEPT ![r] = TRUE]
  \/ (answer = "permanent" \/ retried[r]) /\ answer # "ok" /\ Decide(r, "executor_failure")
                           /\ UNCHANGED retried

Attempt(r) ==
  /\ pc[r] = "attempt"
  /\ \E answer \in Answers, created \in BOOLEAN :
       /\ Possible(answer, created)
       /\ orders' = IF created THEN orders \cup {<<r, IF retried[r] THEN 2 ELSE 1>>} ELSE orders
       /\ OnAnswer(r, answer)
  /\ UNCHANGED <<vaultVars, ask, shown, terms, handed, trail, late>>

(* audit.log_entry: the row is committed ... *)
WriteAudit(r) ==
  /\ pc[r] = "audit"
  /\ trail' = [trail EXCEPT ![r] = [verdict |-> verdict[r], retried |-> retried[r]]]
  /\ Await(r, "reply")
  /\ UNCHANGED <<vaultVars, ask, shown, terms, handed, retried, orders, late>>

(* ... and the Agent answered, when log_entry has returned. *)
Respond(r) ==
  /\ pc[r] = "reply"
  /\ Await(r, "answered")
  /\ UNCHANGED <<vaultVars, ask, shown, terms, handed, retried, orders, trail, late>>

(* Mutant: the exception of log_entry swallowed *)
AuditFailsQuiet(r) ==
  /\ pc[r] = "audit" /\ "audit" \in Faults
  /\ Await(r, "reply")
  /\ UNCHANGED <<vaultVars, ask, shown, terms, handed, retried, orders, trail, late>>

(* log_entry raises (database locked): a 500 and no row. *)
AuditFails(r) ==
  /\ pc[r] = "audit" /\ "audit" \in Faults
  /\ Raise(r)
  /\ UNCHANGED <<vaultVars, ask, shown, terms, handed, retried, orders, trail, late>>

(* The process is killed: every request and session in flight is lost. *)
Crash ==
  /\ "crash" \in Faults
  /\ pc' = [r \in Request |-> IF Live(r) THEN "lost" ELSE pc[r]]
  /\ sess' = [s \in Session |-> Ended("idle")]
  /\ UNCHANGED <<mandates, denylist, now, ask, shown, terms, handed, verdict, retried, orders,
                 trail, late>>

Serve(r) == \/ Receive(r) \/ Validate(r) \/ Evaluate(r) \/ Fetch(r) \/ Attempt(r)
            \/ WriteAudit(r) \/ AuditFails(r) \/ Respond(r)

CheckoutNext ==
        \/ Next /\ UNCHANGED reqVars
        \/ \E r \in Request : Serve(r)
        \/ Crash

CheckoutSpec == CheckoutInit /\ [][CheckoutNext]_checkoutVars

(* The event loop resumes every request whose await has returned; that the *)
(* Razorpay call returns at all is assumed of the SDK.                     *)
Resume(r) == \/ Validate(r) \/ Evaluate(r) \/ Fetch(r) \/ Attempt(r)
             \/ WriteAudit(r) \/ Respond(r)
FairCheckoutSpec == CheckoutSpec /\ \A r \in Request : WF_checkoutVars(Resume(r))

-----------------------------------------------------------------------------
(* Type: a request past the policy has terms, one at the executor was      *)
(* handed a Mandate, and no Agent is answered before the row is in Audit   *)
(* ("computed and persisted before the response is returned to the Agent", *)
(* docs/ARCHITECTURE.md); a row behind no answer is that of a killed one.  *)
PcType == {"new", "validate", "evaluate", "fetch", "attempt", "audit", "reply"} \cup Ends
Asked == [kind : {"propose", "execute"}, proposal : Proposal, envelope : Envelope]
CheckoutTypeOK ==
  /\ TypeOK
  /\ pc \in [Request -> PcType]
  /\ ask \in [Request -> Asked \cup {NoRow}]
  /\ shown \in [Request -> Shown \cup {NoRow}]
  /\ terms \in [Request -> Payload \cup {NoRow}]
  /\ handed \in [Request -> Payload \cup {NoRow}]
  /\ verdict \in [Request -> Reasons \cup {"none", "ok"}]
  /\ retried \in [Request -> BOOLEAN] /\ late \in [Request -> BOOLEAN]
  /\ orders \subseteq Request \X {1, 2}
  /\ trail \in [Request -> Entry \cup {NoRow}]
  /\ \A r \in Request :
       /\ pc[r] # "new" => ask[r] \in Asked
       /\ pc[r] \in {"fetch", "attempt"} => terms[r] \in Payload
       /\ pc[r] = "attempt" => handed[r] \in Payload
       /\ pc[r] \in {"audit", "reply", "answered"} => verdict[r] # "none"
       /\ pc[r] \in {"reply", "answered"} => trail[r] # NoRow
       /\ trail[r] # NoRow => pc[r] \in {"reply", "answered", "lost"}

(* A revocation is final for the Money action: no order is ever created    *)
(* for a request that arrived after its Mandate was revoked, whatever      *)
(* store_mandate calls were in flight around the revocation.               *)
NoOrderAfterRevocation == \A o \in orders : ~late[o[1]]

(* Firewall, parser, Vault and policy all passed before any order (README, *)
(* "Gated"): the row that validate_mandate read was not revoked, not of a  *)
(* denylisted Agent and not expired by the clock it read, and the policy   *)
(* allows the proposal on the terms it read.  That the two reads were of   *)
(* one row it does not say: a store may come between them.                 *)
Cleared(row) == ~row.revoked /\ ~row.denied /\ row.exp.aware /\ row.at < row.exp.at
OrdersAreGated ==
  \A o \in orders :
    LET q == ask[o[1]] IN
      /\ q.kind = "execute" /\ GateVerdict(q.envelope, q.proposal.mandate) = "open"
      /\ shown[o[1]] # NoRow /\ Cleared(shown[o[1]])
      /\ terms[o[1]] # NoRow /\ EvaluateProposal(q.proposal, terms[o[1]]) = "allowed"

(* The trail lets an operator reconcile Razorpay's orders (docstring of    *)
(* _execute_once_with_retry): an ok has its order, an ok without a retry   *)
(* exactly one; an order stands behind no Refusal but executor_failure;    *)
(* two orders of one request only behind an entry marked retried.          *)
Made(r) == {n \in {1, 2} : <<r, n>> \in orders}
TrailAccountsForOrders ==
  \A r \in Request : trail[r] # NoRow =>
    /\ trail[r].verdict = "ok" /\ ask[r].kind = "execute" =>
         Made(r) # {} /\ (trail[r].retried \/ Made(r) = {1})
    /\ Made(r) # {} => trail[r].verdict \in {"ok", "executor_failure"}
    /\ Made(r) = {1, 2} => trail[r].retried

(* run_execute is a Money action: authorised, ordered, decided, recorded   *)
(* and answered in that order ("Money actions are gated", docs/RULES.md).  *)
Phase(at) == CASE at = "validate" -> "open"
               [] at \in {"evaluate", "fetch", "attempt"} -> "authorised"
               [] at = "audit" -> "decided"
               [] at = "reply" -> "recorded"
               [] at \in {"raised", "lost"} -> "failed"
               [] at \in {"new", "answered"} -> at
Money == INSTANCE MoneyAction WITH
  Refusal <- Reasons, None <- NoRow,
  phase <- [r \in Request |-> Phase(pc[r])],
  asked <- [r \in Request |-> IF pc[r] = "new" THEN NoRow
                              ELSE [kind |-> ask[r].kind, mandate |-> MandateOf(r)]],
  revoked <- {m \in MandateId : Revoked(m)},
  entry <- [r \in Request |-> IF trail[r] = NoRow THEN "none" ELSE trail[r].verdict]
ImplementsMoneyAction == Money!Spec

(* Every request that arrives ends, whatever Razorpay answers, however     *)
(* often, and wherever Audit or the process fails.                         *)
RequestsEnd == \A r \in Request : Live(r) ~> pc[r] \in Ends

(* Nothing takes a request back but the one retry: whatever changes about  *)
(* it, its orders and its Audit row included, it has fewer awaits ahead of *)
(* it than before, so that an ended one is over ("retried exactly once",   *)
(* docstring of _execute_once_with_retry).                                 *)
AwaitsLeft(r) ==
  CASE pc[r] = "new" -> 8 [] pc[r] = "validate" -> 7 [] pc[r] = "evaluate" -> 6
    [] pc[r] = "fetch" -> 5 [] pc[r] = "attempt" -> IF retried[r] THEN 3 ELSE 4
    [] pc[r] = "audit" -> 2 [] pc[r] = "reply" -> 1 [] OTHER -> 0
RequestState(r) ==
  <<pc[r], ask[r], shown[r], terms[r], handed[r], verdict[r], retried[r], trail[r], late[r], Made(r)>>
RequestsAdvance ==
  [][\A r \in Request : RequestState(r)' # RequestState(r) => AwaitsLeft(r)' < AwaitsLeft(r)
    ]_checkoutVars

(* "Every terminal path (allow or Refusal) writes an Audit event"          *)
(* (docs/RULES.md).  The code: see the run that refutes it.                *)
TerminalPathsAudited == \A r \in Request : pc[r] = "raised" => trail[r] # NoRow
=============================================================================
