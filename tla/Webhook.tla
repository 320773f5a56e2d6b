------------------------------- MODULE Webhook -------------------------------
(***************************************************************************)
(* POST /webhooks/razorpay: a delivery is verified, claims its event, then *)
(* applies it to the Mandate and the Audit trail (persist-then-apply).     *)
(* Razorpay redelivers, so many deliveries may carry one event, at once or *)
(* later.  A delivery is a caller of mark and a session of the Vault; the  *)
(* other sessions are the operators'.                                      *)
(***************************************************************************)
EXTENDS Vault, Idempotency

CONSTANTS Event,      \* payment events: type, order, payment, created, noted
          HookFaults  \* subset of {"crash", "db"}: the process dies, a database call fails

VARIABLES hook,    \* hook[d]: the await delivery d is at, or its answer
          evt,     \* evt[d]: the event it carries
          seen,    \* seen[d]: the Mandate get_mandate returned
          applied  \* applied[d]: its webhook.apply row in Audit, or NoRow

hookVars == <<hook, evt, seen, applied>>
webhookVars == <<vaultVars, markVars, hookVars>>

(* event_idempotency_key *)
BaseId(e) == IF e.order # NoRow THEN e.order ELSE IF e.payment # NoRow THEN e.payment ELSE e.created
EventKey(e) == <<e.type, BaseId(e)>>

(* resolve_mandate_id: notes.mandate_id, else order_id as Mandate id *)
ResolveMandate(e) == IF e.noted # NoRow THEN e.noted ELSE e.order

Applyable == {"payment.captured", "payment.failed"}
StatusFor(e) == IF e.type = "payment.captured" THEN "captured" ELSE "failed"

(* mandate.model_copy(update) *)
Updated(p, e) == [p EXCEPT !.status = StatusFor(e), !.last = e.payment]

(* A webhook.apply row of Audit *)
HookEntry == [key : Key, status : {"captured", "failed"}, mandate : MandateId]

ASSUME HookConstants ==
  /\ Caller \subseteq Session
  /\ NoRow \notin Event \cup HookEntry \cup MandateId
  /\ \A e \in Event : EventKey(e) \in Key /\ ResolveMandate(e) \in MandateId \cup {NoRow}
  /\ \A p \in Payload : {"agent", "exp", "status", "last"} \subseteq DOMAIN p
  /\ \A p \in Payload, e \in Event : e.type \in Applyable => Updated(p, e) \in Payload

Answered == {"refused", "applied", "not_applied", "already_processed", "raised", "lost"}
InFlight(d) == hook[d] \notin Answered \cup {"new"}

(* The process starts on the tables an earlier one left: Mandates stored,  *)
(* none paid for, none of the events claimed.                              *)
Unpaid == {NewRow(p) : p \in {q \in Payload : q.status = "none" /\ q.last = NoRow}}
HookInit == /\ mandates \in [MandateId -> Unpaid \cup {NoRow}]
            /\ denylist = {} /\ now = 0 /\ sess = [s \in Session |-> Ended("idle")]
            /\ MarkInit
            /\ hook = [d \in Caller |-> "new"]
            /\ evt = [d \in Caller |-> NoRow] /\ seen = [d \in Caller |-> NoRow]
            /\ applied = [d \in Caller |-> NoRow]

Goto(d, where) == hook' = [hook EXCEPT ![d] = where]

-----------------------------------------------------------------------------
(* A delivery is turned away: no signature (400), a signature that does    *)
(* not match the raw body (401), or a body that is no JSON object (200).   *)
TurnAway(d) ==
  /\ hook[d] = "new" /\ Goto(d, "refused")
  /\ UNCHANGED <<vaultVars, markVars, evt, seen, applied>>

(* A verified, well-formed delivery; the claim begins. *)
Deliver(d) ==
  /\ hook[d] = "new"
  /\ \E e \in Event : evt' = [evt EXCEPT ![d] = e] /\ MarkBegin(d, EventKey(e))
  /\ Goto(d, "mark")
  /\ UNCHANGED <<vaultVars, seen, applied>>

Claim(d) == /\ hook[d] = "mark" /\ MarkStep(d)
            /\ UNCHANGED <<vaultVars, hookVars>>

(* Mutant: a delivery whose mark raised goes on *)
AfterMarkOpen(d) ==
  LET e == evt[d]
      applies == e.type \in Applyable /\ ResolveMandate(e) # NoRow
  IN /\ hook[d] = "mark"
     /\ \/ mstate[d] \in {"true", "error"} /\ Goto(d, IF applies THEN "load" ELSE "not_applied")
        \/ mstate[d] = "false" /\ Goto(d, "already_processed")
     /\ UNCHANGED <<vaultVars, markVars, evt, seen, applied>>

(* Mutant: an error of mark answered like a duplicate *)
AfterMarkQuiet(d) ==
  LET e == evt[d]
      applies == e.type \in Applyable /\ ResolveMandate(e) # NoRow
  IN /\ hook[d] = "mark"
     /\ \/ mstate[d] = "true" /\ Goto(d, IF applies THEN "load" ELSE "not_applied")
        \/ mstate[d] \in {"false", "error"} /\ Goto(d, "already_processed")
     /\ UNCHANGED <<vaultVars, markVars, evt, seen, applied>>

(* mark has returned: a duplicate is answered, a claimed event filtered.   *)
AfterMark(d) ==
  LET e == evt[d]
      applies == e.type \in Applyable /\ ResolveMandate(e) # NoRow
  IN /\ hook[d] = "mark"
     /\ \/ mstate[d] = "true" /\ Goto(d, IF applies THEN "load" ELSE "not_applied")
        \/ mstate[d] = "false" /\ Goto(d, "already_processed")
        \/ mstate[d] = "error" /\ Goto(d, "raised")
     /\ UNCHANGED <<vaultVars, markVars, evt, seen, applied>>

(* vault.get_mandate *)
LoadMandate(d) ==
  LET row == mandates[ResolveMandate(evt[d])]
  IN /\ hook[d] = "load"
     /\ \/ row = NoRow /\ Goto(d, "not_applied") /\ UNCHANGED seen
        \/ row # NoRow /\ Goto(d, "store") /\ seen' = [seen EXCEPT ![d] = row.payload]
     /\ UNCHANGED <<vaultVars, markVars, evt, applied>>

(* Mutant: the VaultError swallowed *)
BeginApplyLenient(d) ==
  LET m == ResolveMandate(evt[d])
  IN /\ hook[d] = "store"
     /\ StoreRead(d, m, Updated(seen[d], evt[d]))
     /\ Goto(d, IF Revoked(m) THEN "log" ELSE "commit")
     /\ UNCHANGED <<markVars, evt, seen, applied>>

(* vault.store_mandate(updated); its VaultError is caught by nobody. *)
BeginApply(d) ==
  LET m == ResolveMandate(evt[d])
  IN /\ hook[d] = "store"
     /\ StoreRead(d, m, Updated(seen[d], evt[d]))
     /\ Goto(d, IF Revoked(m) THEN "raised" ELSE "commit")
     /\ UNCHANGED <<markVars, evt, seen, applied>>

CommitApply(d) ==
  /\ hook[d] = "commit"
  /\ StoreCommit(d)
  /\ Goto(d, "log")
  /\ UNCHANGED <<markVars, evt, seen, applied>>

(* audit.log_entry(webhook.apply): the row is committed ... *)
LogApply(d) ==
  /\ hook[d] = "log"
  /\ applied' = [applied EXCEPT ![d] = [key |-> EventKey(evt[d]), status |-> StatusFor(evt[d]),
                                        mandate |-> ResolveMandate(evt[d])]]
  /\ Goto(d, "reply")
  /\ UNCHANGED <<vaultVars, markVars, evt, seen>>

(* ... and Razorpay gets its 2xx. *)
Acknowledge(d) ==
  /\ hook[d] = "reply" /\ Goto(d, "applied")
  /\ UNCHANGED <<vaultVars, markVars, evt, seen, applied>>

(* A call to the Vault or to Audit raises; no handler catches it.  The     *)
(* session that store_mandate had open is closed.                          *)
CallFails(d) ==
  /\ "db" \in HookFaults /\ hook[d] \in {"load", "store", "commit", "log"}
  /\ IF hook[d] = "commit" THEN StoreAbort(d) ELSE UNCHANGED vaultVars
  /\ Goto(d, "raised")
  /\ UNCHANGED <<markVars, evt, seen, applied>>

(* The process is killed: calls and sessions in flight are lost.           *)
HookCrash ==
  /\ "crash" \in HookFaults
  /\ hook' = [d \in Caller |-> IF InFlight(d) THEN "lost" ELSE hook[d]]
  /\ mstate' = [d \in Caller |-> IF mstate[d] \in {"insert", "check"} THEN "aborted" ELSE mstate[d]]
  /\ sess' = [s \in Session |-> Ended("idle")]
  /\ UNCHANGED <<mandates, denylist, now, claimed, mkey, tries, evt, seen, applied>>

HandlerStep(d) == \/ Claim(d) \/ AfterMark(d) \/ LoadMandate(d) \/ BeginApply(d)
                  \/ CommitApply(d) \/ LogApply(d) \/ Acknowledge(d)
DeliveryStep(d) == TurnAway(d) \/ Deliver(d) \/ HandlerStep(d) \/ CallFails(d)

HookNext == \/ OperatorStep(Session \ Caller) /\ UNCHANGED <<markVars, hookVars>>
            \/ \E d \in Caller : DeliveryStep(d)
            \/ HookCrash

HookSpec == HookInit /\ [][HookNext]_webhookVars
FairHookSpec == HookSpec /\ \A d \in Caller : WF_webhookVars(HandlerStep(d))

-----------------------------------------------------------------------------
(* Type: what each await of a delivery rests on is there: a claim, a       *)
(* Mandate, a loaded session, and the Audit row before the 2xx.            *)
HookTypeOK ==
  /\ TypeOK /\ MarkTypeOK
  /\ hook \in [Caller -> {"new", "mark", "load", "store", "commit", "log", "reply"} \cup Answered]
  /\ evt \in [Caller -> Event \cup {NoRow}] /\ seen \in [Caller -> Payload \cup {NoRow}]
  /\ applied \in [Caller -> HookEntry \cup {NoRow}]
  /\ \A d \in Caller :
       /\ hook[d] \in {"load", "store", "commit", "log", "reply", "applied"} => mstate[d] = "true"
       /\ hook[d] \in {"store", "commit", "log"} => seen[d] \in Payload
       /\ hook[d] = "commit" <=> sess[d].state = "loaded"
       /\ hook[d] \in {"reply", "applied"} => applied[d] # NoRow

(* One webhook.apply row per event, whatever Razorpay redelivers at once   *)
(* or after a restart (SECURITY.md: duplicates have no side effects).      *)
AppliedAtMostOnce ==
  \A c, d \in Caller :
    applied[c] # NoRow /\ applied[d] # NoRow /\ applied[c].key = applied[d].key => c = d

(* A delivery answered already_processed has one other delivery to thank   *)
(* for it, that claimed the event: it is under way, applied it with a row  *)
(* in Audit, found nothing to apply it to, or failed or died on the way -  *)
(* the gap of docs/TROUBLESHOOTING.md, and its only causes.                *)
DuplicatesAreHandled ==
  \A d \in Caller : hook[d] = "already_processed" =>
    \E c \in Caller \ {d} :
      /\ evt[c] # NoRow /\ EventKey(evt[c]) = EventKey(evt[d]) /\ mstate[c] = "true"
      /\ \/ InFlight(c) \/ hook[c] \in {"not_applied", "raised", "lost"}
         \/ hook[c] = "applied" /\ applied[c] # NoRow

(* The payment status that stands on a Mandate.                            *)
PaymentStatus(m) == IF mandates[m] = NoRow THEN "none" ELSE mandates[m].payload.status

(* Mandate and Audit agree on every applied event: the payment status and  *)
(* the payment id on a Mandate are those of one event, which has its row   *)
(* of webhook.apply, written or next to be written, or else its delivery   *)
(* failed or died on the way; and a row stands for a Mandate that got a    *)
(* status.  So it is as long as only deliveries store Mandates: an         *)
(* operator's store in between takes the status away.                      *)
TrailMatchesStatus ==
  \A m \in MandateId :
    /\ PaymentStatus(m) # "none" =>
         \E d \in Caller : /\ evt[d] # NoRow /\ ResolveMandate(evt[d]) = m
                           /\ StatusFor(evt[d]) = PaymentStatus(m)
                           /\ evt[d].payment = mandates[m].payload.last
                           /\ hook[d] \in {"log", "raised", "lost"} \/ applied[d] # NoRow
    /\ (\E d \in Caller : applied[d] # NoRow /\ applied[d].mandate = m) => PaymentStatus(m) # "none"

(* An event writes a payment to the Mandate and nothing else of its own:   *)
(* every bound is left as it is or, when a store came between the event's  *)
(* read and its write, set back to what the event read; never mixed with   *)
(* a third value, and revoked is not touched (webhook_apply.py rewrites    *)
(* the whole Mandate).                                                     *)
Bounds(p) == [p EXCEPT !.status = "none", !.last = NoRow]
EventKeepsBounds ==
  [][\A d \in Caller : hook[d] = "commit" /\ hook'[d] = "log" =>
       LET m == ResolveMandate(evt[d]) IN
         /\ mandates'[m].revoked = mandates[m].revoked
         /\ mandates'[m].agent \in {mandates[m].agent, seen[d].agent}
         /\ mandates'[m].exp \in {mandates[m].exp, seen[d].exp}
         /\ Bounds(mandates'[m].payload) \in {Bounds(mandates[m].payload), Bounds(seen[d])}
    ]_webhookVars

(* Every delivery ends: mark's attempts are bounded, and each await after  *)
(* it is left by an answer, an error or the death of the process.          *)
DeliveriesEnd == \A d \in Caller : InFlight(d) ~> hook[d] \in Answered

(* Nothing takes a delivery back but a locked attempt of mark, and these   *)
(* are counted: whatever changes about it, it has fewer steps ahead of it  *)
(* than before, and an answered one is over ("for _ in range(5)" of mark). *)
StepsLeft(d) ==
  CASE hook[d] = "new" -> 7 + 2 * MarkTries
    [] hook[d] = "mark" -> IF mstate[d] = "insert" THEN 6 + 2 * (MarkTries - tries[d])
                           ELSE IF mstate[d] = "check" THEN 5 + 2 * (MarkTries - tries[d])
                           ELSE 6
    [] hook[d] = "load" -> 5 [] hook[d] = "store" -> 4 [] hook[d] = "commit" -> 3
    [] hook[d] = "log" -> 2 [] hook[d] = "reply" -> 1 [] OTHER -> 0
DeliveryState(d) == <<hook[d], evt[d], seen[d], applied[d], mstate[d], mkey[d], tries[d]>>
DeliveriesAdvance ==
  [][\A d \in Caller : DeliveryState(d)' # DeliveryState(d) => StepsLeft(d)' < StepsLeft(d)
    ]_webhookVars

(* A verified event whose claim succeeded is answered applied or           *)
(* not_applied, never with an error (docstring of apply_verified_event).   *)
ClaimedGets2xx == \A d \in Caller : mstate[d] = "true" => hook[d] # "raised"
=============================================================================
