---------------------------- MODULE MoneyAction -----------------------------
(***************************************************************************)
(* What checkout promises of a Money action: a request is authorised under *)
(* a Mandate that is not revoked, or refused; only an authorised one gets  *)
(* orders, at most one per attempt; it is decided once, recorded as it was *)
(* decided, and answered after it was recorded; or else it fails.          *)
(***************************************************************************)
EXTENDS Naturals

CONSTANTS Request, MandateId, Refusal, None

VARIABLES phase,    \* phase[r]: how far request r has come
          asked,    \* asked[r]: its kind and its Mandate, or None
          revoked,  \* Mandates revoked so far
          orders,   \* <<r, n>>: attempt n of r made an order
          verdict,  \* verdict[r]: "ok" or a Refusal, once decided
          entry     \* entry[r]: the verdict in the trail

actionVars == <<phase, asked, revoked, orders, verdict, entry>>

Init == /\ phase = [r \in Request |-> "new"]
        /\ asked = [r \in Request |-> None]
        /\ revoked = {} /\ orders = {}
        /\ verdict = [r \in Request |-> "none"]
        /\ entry = [r \in Request |-> "none"]

Made(r) == {n \in {1, 2} : <<r, n>> \in orders}
Move(r, where) == phase' = [phase EXCEPT ![r] = where]
Decide(r, v) == Move(r, "decided") /\ verdict' = [verdict EXCEPT ![r] = v]

Arrive(r) ==
  /\ phase[r] = "new"
  /\ \E kind \in {"propose", "execute"}, m \in MandateId :
       asked' = [asked EXCEPT ![r] = [kind |-> kind, mandate |-> m]]
  /\ \/ \E where \in {"open", "failed"} : Move(r, where) /\ UNCHANGED verdict
     \/ \E v \in Refusal : Decide(r, v)
  /\ UNCHANGED <<revoked, orders, entry>>

Authorise(r) ==
  /\ phase[r] = "open" /\ asked[r].mandate \notin revoked
  /\ Move(r, "authorised")
  /\ UNCHANGED <<asked, revoked, orders, verdict, entry>>

(* A Refusal on the gateway's own grounds leaves nothing at Razorpay.      *)
Refuse(r) ==
  /\ phase[r] \in {"open", "authorised"} /\ Made(r) = {}
  /\ \E v \in Refusal : Decide(r, v)
  /\ UNCHANGED <<asked, revoked, orders, entry>>

Approve(r) ==
  /\ phase[r] = "authorised" /\ asked[r].kind = "propose"
  /\ Decide(r, "ok")
  /\ UNCHANGED <<asked, revoked, orders, entry>>

(* An attempt makes an order or none, whatever comes of it.                *)
Execute(r) ==
  /\ phase[r] = "authorised" /\ asked[r].kind = "execute"
  /\ \E n \in {1, 2} : /\ \A k \in Made(r) : k < n
                       /\ orders' \in {orders, orders \cup {<<r, n>>}}
  /\ \/ UNCHANGED <<phase, verdict>>
     \/ Made(r)' # {} /\ Decide(r, "ok")
     \/ Decide(r, "executor_failure")
  /\ UNCHANGED <<asked, revoked, entry>>

Record(r) ==
  /\ phase[r] = "decided"
  /\ entry' = [entry EXCEPT ![r] = verdict[r]] /\ Move(r, "recorded")
  /\ UNCHANGED <<asked, revoked, orders, verdict>>

Answer(r) ==
  /\ phase[r] = "recorded" /\ Move(r, "answered")
  /\ UNCHANGED <<asked, revoked, orders, verdict, entry>>

(* An exception ends one request, a crash all that are under way.          *)
Fail(R) ==
  /\ \A r \in R : phase[r] \notin {"new", "answered", "failed"}
  /\ phase' = [r \in Request |-> IF r \in R THEN "failed" ELSE phase[r]]
  /\ UNCHANGED <<asked, revoked, orders, verdict, entry>>

Revoke(M) == /\ revoked' = revoked \cup M
             /\ UNCHANGED <<phase, asked, orders, verdict, entry>>

Progress(r) == \/ Arrive(r) \/ Authorise(r) \/ Refuse(r) \/ Approve(r)
               \/ Execute(r) \/ Record(r) \/ Answer(r)
Next == \/ \E r \in Request : Progress(r)
        \/ \E R \in SUBSET Request : Fail(R)
        \/ \E M \in SUBSET MandateId : Revoke(M)
Spec == Init /\ [][Next]_actionVars
=============================================================================
