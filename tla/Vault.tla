------------------------------- MODULE Vault --------------------------------
(***************************************************************************)
(* The Mandate Vault (C3): the tables mandates and denylist, and the       *)
(* methods that read and write them.  SQLAlchemy sends a SELECT outside    *)
(* any transaction and opens one only for the flush, so store_mandate is   *)
(* two steps that other sessions come between; and the flush writes only   *)
(* the columns whose value differs from the one the session loaded.        *)
(* revoke_mandate and add_to_denylist also read before they write, but     *)
(* what they write depends on no value read, so one step stands for both.  *)
(***************************************************************************)
EXTENDS Naturals

CONSTANTS MandateId, Agent,
          Payload,  \* the Mandates an operator may store: records with agent, exp, ...
          NoRow,    \* session.get found nothing
          Session,  \* concurrent calls of store_mandate
          MaxNow    \* bound: the wall clock stays in 0..MaxNow

(* expires_at: an instant, with or without a UTC offset *)
Expiry == [aware : BOOLEAN, at : Nat]

NewRow(p) == [agent |-> p.agent, exp |-> p.exp, payload |-> p, revoked |-> FALSE]
Row == [agent : Agent, exp : Expiry, payload : Payload, revoked : BOOLEAN]

ASSUME VaultConstants ==
  /\ \A p \in Payload : p.agent \in Agent /\ p.exp \in Expiry
  /\ NoRow \notin Row \cup Payload
  /\ MaxNow \in Nat

VARIABLES mandates,  \* mandates[m]: the row of Mandate m, or NoRow
          denylist,  \* the agents on the denylist
          now,       \* datetime.now(UTC)
          sess       \* sess[s]: the store_mandate call of session s

vaultVars == <<mandates, denylist, now, sess>>

Ended(answer) == [state |-> answer, id |-> NoRow, new |-> NoRow, loaded |-> NoRow]
Loading(m, p) == [state |-> "loaded", id |-> m, new |-> p, loaded |-> mandates[m]]

Init == /\ mandates = [m \in MandateId |-> NoRow]
        /\ denylist = {} /\ now = 0
        /\ sess = [s \in Session |-> Ended("idle")]

Revoked(m) == mandates[m] # NoRow /\ mandates[m].revoked

-----------------------------------------------------------------------------
(* validate_mandate: one joined SELECT, then the clock.  The comparison    *)
(* with a naive expires_at raises TypeError, outside the try.              *)
ValidateMandate(m) ==
  IF mandates[m] = NoRow \/ Revoked(m) THEN "invalid"
  ELSE IF mandates[m].agent \in denylist THEN "invalid"
  ELSE IF ~mandates[m].exp.aware THEN "raise"
  ELSE IF now >= mandates[m].exp.at THEN "invalid" ELSE "valid"

(* Mutant: the revoked row not refused *)
StoreReadUnchecked(s, m, p) ==
  /\ sess[s].state # "loaded"
  /\ sess' = [sess EXCEPT ![s] = Loading(m, p)]
  /\ UNCHANGED <<mandates, denylist, now>>

(* store_mandate, up to session.get; mandate_revoked is raised here *)
StoreRead(s, m, p) ==
  /\ sess[s].state # "loaded"
  /\ \/ Revoked(m) /\ sess' = [sess EXCEPT ![s] = Ended("refused")]
     \/ ~Revoked(m) /\ sess' = [sess EXCEPT ![s] = Loading(m, p)]
  /\ UNCHANGED <<mandates, denylist, now>>

(* Mutants: every column written back; expires_at not assigned. *)
FlushAll(new, loaded, current) == new
FlushKeepingExpiry(new, loaded, current) == [new EXCEPT !.exp = current.exp,
                                                        !.revoked = current.revoked]

(* The UPDATE of a flush: column by column, the assigned value where it    *)
(* differs from the loaded one, else whatever the table holds by now.      *)
Dirty(new, loaded, current) == IF new # loaded THEN new ELSE current
Flush(new, loaded, current) ==
  [agent   |-> Dirty(new.agent, loaded.agent, current.agent),
   exp     |-> Dirty(new.exp, loaded.exp, current.exp),
   payload |-> Dirty(new.payload, loaded.payload, current.payload),
   revoked |-> Dirty(new.revoked, loaded.revoked, current.revoked)]

(* The rest of store_mandate: an INSERT (IntegrityError when another       *)
(* session inserted the id first) or an UPDATE, and commit.                *)
StoreCommit(s) ==
  LET m == sess[s].id
      new == NewRow(sess[s].new)
      old == sess[s].loaded
  IN /\ sess[s].state = "loaded"
     /\ \/ /\ old = NoRow /\ mandates[m] # NoRow
           /\ sess' = [sess EXCEPT ![s] = Ended("conflict")]
           /\ UNCHANGED mandates
        \/ /\ old = NoRow /\ mandates[m] = NoRow
           /\ mandates' = [mandates EXCEPT ![m] = new]
           /\ sess' = [sess EXCEPT ![s] = Ended("stored")]
        \/ /\ old # NoRow
           /\ mandates' = [mandates EXCEPT ![m] = Flush(new, old, mandates[m])]
           /\ sess' = [sess EXCEPT ![s] = Ended("stored")]
     /\ UNCHANGED <<denylist, now>>

(* The call dies (process killed, request cancelled, database locked). *)
StoreAbort(s) ==
  /\ sess[s].state = "loaded"
  /\ sess' = [sess EXCEPT ![s] = Ended("idle")]
  /\ UNCHANGED <<mandates, denylist, now>>

RevokeMandate(m) ==
  /\ mandates[m] # NoRow
  /\ mandates' = [mandates EXCEPT ![m].revoked = TRUE]
  /\ UNCHANGED <<denylist, now, sess>>

AddToDenylist(a) ==
  /\ denylist' = denylist \cup {a}
  /\ UNCHANGED <<mandates, now, sess>>

Tick == /\ now < MaxNow /\ now' = now + 1
        /\ UNCHANGED <<mandates, denylist, sess>>

(* What operators do through the sessions S, and what the clock does. *)
StoreStep(s) == \/ \E m \in MandateId, p \in Payload : StoreRead(s, m, p)
                \/ StoreCommit(s) \/ StoreAbort(s)
OperatorStep(S) == \/ \E s \in S : StoreStep(s)
                   \/ \E m \in MandateId : RevokeMandate(m)
                   \/ \E a \in Agent : AddToDenylist(a)
                   \/ Tick

Next == OperatorStep(Session)
Spec == Init /\ [][Next]_vaultVars

-----------------------------------------------------------------------------
(* Type: rows and sessions hold values of their domains, and a session     *)
(* that will write loaded a row that was not revoked.                      *)
TypeOK ==
  /\ mandates \in [MandateId -> Row \cup {NoRow}]
  /\ denylist \subseteq Agent /\ now \in 0..MaxNow
  /\ sess \in [Session -> [state : {"idle", "loaded", "refused", "stored", "conflict"},
                           id : MandateId \cup {NoRow}, new : Payload \cup {NoRow},
                           loaded : Row \cup {NoRow}]]
  /\ \A s \in Session : sess[s].state = "loaded" =>
       /\ sess[s].id \in MandateId /\ sess[s].new \in Payload
       /\ sess[s].loaded # NoRow => ~sess[s].loaded.revoked

(* A revoked Mandate stays revoked and never validates again, though a     *)
(* store that loaded its row before the revocation commits after it        *)
(* (store_mandate assigns revoked = 0).                                    *)
RevokedForever ==
  [][\A m \in MandateId : Revoked(m) => Revoked(m)' /\ ValidateMandate(m)' = "invalid"]_vaultVars

(* A Mandate that validates is within the bounds of the payload that       *)
(* get_mandate returns: validate_mandate reads the columns agent_id and    *)
(* expires_at, everyone else the payload.                                  *)
PayloadBoundsHold ==
  \A m \in MandateId : ValidateMandate(m) = "valid" =>
    /\ mandates[m].payload.agent \notin denylist
    /\ now < mandates[m].payload.exp.at

(* The table behaves as a book of Mandates replaced atomically, while      *)
(* revocations and denylistings interleave with the store.                 *)
Book == INSTANCE MandateBook WITH book <- mandates, Absent <- NoRow
ImplementsMandateBook == Book!Spec

(* Once revoked, the stored terms are not overwritten (routes/mandates.py, *)
(* docstring of store_mandate).  The code: see the run that refutes it.    *)
RevokedNotOverwritten ==
  [][\A m \in MandateId : Revoked(m) => mandates'[m].payload = mandates[m].payload]_vaultVars
=============================================================================
