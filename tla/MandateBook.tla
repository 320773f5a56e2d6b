---------------------------- MODULE MandateBook -----------------------------
(***************************************************************************)
(* What the Mandate Vault promises: for each Mandate id at most one record *)
(* whose agent and expiry are those of its terms.  The terms may be        *)
(* replaced as a whole; a revocation is never undone.                      *)
(***************************************************************************)
CONSTANTS MandateId, Payload, Absent
VARIABLE book

Record(p, revoked) == [agent |-> p.agent, exp |-> p.exp, payload |-> p, revoked |-> revoked]

Init == book = [m \in MandateId |-> Absent]

Put(m, p) ==
  \/ book[m] = Absent /\ book' = [book EXCEPT ![m] = Record(p, FALSE)]
  \/ book[m] # Absent /\ book' = [book EXCEPT ![m] = Record(p, book[m].revoked)]

Revoke(m) == /\ book[m] # Absent
             /\ book' = [book EXCEPT ![m] = Record(book[m].payload, TRUE)]

Next == \E m \in MandateId : Revoke(m) \/ \E p \in Payload : Put(m, p)
Spec == Init /\ [][Next]_book
=============================================================================
