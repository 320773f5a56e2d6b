---------------------------- MODULE VaultProofs -----------------------------
(***************************************************************************)
(* Theorems about the Vault, for any set of Mandates, agents, payloads and *)
(* concurrent sessions.                                                    *)
(***************************************************************************)
EXTENDS Vault, TLAPS

SessionType == [state : {"idle", "loaded", "refused", "stored", "conflict"},
                id : MandateId \cup {NoRow}, new : Payload \cup {NoRow},
                loaded : Row \cup {NoRow}]

LEMMA NewRowTyped == ASSUME NEW p \in Payload PROVE NewRow(p) \in Row
  BY VaultConstants DEF NewRow, Row

LEMMA FlushTyped ==
  ASSUME NEW a \in Row, NEW b \in Row, NEW c \in Row
  PROVE  /\ Flush(a, b, c) \in Row
         /\ Flush(a, b, c).revoked = Dirty(a.revoked, b.revoked, c.revoked)
  BY DEF Flush, Dirty, Row

LEMMA EndedTyped ==
  /\ Ended("idle") \in SessionType /\ Ended("refused") \in SessionType
  /\ Ended("stored") \in SessionType /\ Ended("conflict") \in SessionType
  /\ \A x : Ended(x).state = x
  BY DEF Ended, SessionType

(* Rows are never deleted: what a session loaded is still there. *)
RowsStay == \A s \in Session :
  sess[s].state = "loaded" /\ sess[s].loaded # NoRow => mandates[sess[s].id] # NoRow

VaultInv == TypeOK /\ RowsStay

(* What one step of store_mandate does to the tables: nothing, an INSERT,  *)
(* or an UPDATE of the row; and the session is loading or has ended.       *)
LEMMA StoreEffect ==
  ASSUME VaultInv, NEW s \in Session, StoreStep(s)
  PROVE  /\ VaultInv'
         /\ \A m \in MandateId : Revoked(m) => Revoked(m)'
<1>1. ASSUME NEW m \in MandateId, NEW p \in Payload, StoreRead(s, m, p)
      PROVE  VaultInv' /\ \A x \in MandateId : Revoked(x) => Revoked(x)'
  <2>1. \/ Revoked(m) /\ sess' = [sess EXCEPT ![s] = Ended("refused")]
        \/ ~Revoked(m) /\ sess' = [sess EXCEPT ![s] = Loading(m, p)]
    BY <1>1 DEF StoreRead
  <2>2. UNCHANGED <<mandates, denylist, now>>
    BY <1>1 DEF StoreRead
  <2>3. CASE sess' = [sess EXCEPT ![s] = Ended("refused")]
    BY <2>2, <2>3, EndedTyped DEF VaultInv, RowsStay, TypeOK, Revoked, SessionType
  <2>4. CASE ~Revoked(m) /\ sess' = [sess EXCEPT ![s] = Loading(m, p)]
    <3>1. /\ Loading(m, p) \in SessionType /\ Loading(m, p).id = m /\ Loading(m, p).new = p
          /\ Loading(m, p).loaded = mandates[m]
      BY DEF Loading, SessionType, VaultInv, TypeOK
    <3>2. QED
      BY <2>2, <2>4, <3>1 DEF VaultInv, RowsStay, TypeOK, Revoked, SessionType
  <2>5. QED
    BY <2>1, <2>3, <2>4
<1>2. CASE StoreCommit(s)
  <2> DEFINE m == sess[s].id
             new == NewRow(sess[s].new)
             old == sess[s].loaded
  <2>1. /\ m \in MandateId /\ new \in Row /\ ~new.revoked
        /\ old # NoRow => old \in Row /\ ~old.revoked
        /\ mandates[m] \in Row \cup {NoRow}
        /\ UNCHANGED <<denylist, now>>
    BY <1>2, NewRowTyped DEF StoreCommit, VaultInv, TypeOK, NewRow
  <2>2. sess' = [sess EXCEPT ![s] = Ended("conflict")] \/ sess' = [sess EXCEPT ![s] = Ended("stored")]
    BY <1>2 DEF StoreCommit
  <2>3. sess' \in [Session -> SessionType] /\ \A t \in Session :
          sess'[t].state = "loaded" => sess'[t] = sess[t]
    BY <2>2, EndedTyped DEF VaultInv, TypeOK, SessionType
  <2>4. CASE mandates' = mandates
    BY <2>1, <2>3, <2>4 DEF VaultInv, RowsStay, TypeOK, SessionType, Revoked
  <2>5. CASE mandates[m] = NoRow /\ mandates' = [mandates EXCEPT ![m] = new]
    BY <2>1, <2>3, <2>5, VaultConstants DEF VaultInv, RowsStay, TypeOK, SessionType, Revoked
  <2>6. CASE old # NoRow /\ mandates' = [mandates EXCEPT ![m] = Flush(new, old, mandates[m])]
    <3>1. mandates[m] \in Row
      BY <1>2, <2>1, <2>6 DEF VaultInv, RowsStay, StoreCommit
    <3> DEFINE f == Flush(new, old, mandates[m])
    <3>2. f \in Row /\ f # NoRow /\ f.revoked = mandates[m].revoked
      <4>1. new.revoked = FALSE /\ old.revoked = FALSE /\ old \in Row
        BY <2>1, <2>6 DEF Row
      <4>2. f \in Row /\ f.revoked = Dirty(new.revoked, old.revoked, mandates[m].revoked)
        BY <2>1, <3>1, <4>1, FlushTyped
      <4>3. Dirty(new.revoked, old.revoked, mandates[m].revoked) = mandates[m].revoked
        BY <4>1 DEF Dirty
      <4> HIDE DEF f, m, new, old
      <4>4. QED
        BY <4>2, <4>3, VaultConstants
    <3>3. mandates' = [mandates EXCEPT ![m] = f]
      BY <2>6
    <3> HIDE DEF f, m, new, old
    <3>4. /\ mandates' \in [MandateId -> Row \cup {NoRow}]
          /\ \A x \in MandateId : Revoked(x) => Revoked(x)'
          /\ \A x \in MandateId : mandates[x] # NoRow => mandates'[x] # NoRow
      BY <2>1, <3>1, <3>2, <3>3 DEF VaultInv, TypeOK, Revoked
    <3>5. QED
      BY <2>1, <2>3, <3>4 DEF VaultInv, RowsStay, TypeOK, SessionType
  <2>7. QED
    BY <1>2, <2>4, <2>5, <2>6 DEF StoreCommit
<1>3. CASE StoreAbort(s)
  BY <1>3, EndedTyped DEF StoreAbort, VaultInv, RowsStay, TypeOK, SessionType, Revoked
<1>4. QED
  BY <1>1, <1>2, <1>3 DEF StoreStep

LEMMA VaultInit == Init => VaultInv
<1> SUFFICES ASSUME Init PROVE VaultInv
  OBVIOUS
<1>1. 0 \in 0..MaxNow
  BY VaultConstants
<1>2. QED
  BY <1>1, EndedTyped DEF Init, VaultInv, RowsStay, TypeOK, SessionType

LEMMA RevokeEffect ==
  ASSUME VaultInv, NEW m \in MandateId, RevokeMandate(m)
  PROVE  VaultInv' /\ \A x \in MandateId : Revoked(x) => Revoked(x)'
<1> DEFINE r == [mandates[m] EXCEPT !.revoked = TRUE]
<1>1. /\ mandates' = [mandates EXCEPT ![m] = r]
      /\ mandates[m] \in Row
      /\ UNCHANGED <<denylist, now, sess>>
  BY DEF RevokeMandate, VaultInv, TypeOK
<1>2. r \in Row /\ r # NoRow /\ r.revoked = TRUE
  BY <1>1, VaultConstants DEF Row
<1> HIDE DEF r
<1>3. QED
  BY <1>1, <1>2 DEF VaultInv, RowsStay, TypeOK, Revoked

LEMMA VaultStep ==
  ASSUME VaultInv, [Next]_vaultVars
  PROVE  VaultInv' /\ \A m \in MandateId : Revoked(m) => Revoked(m)'
<1>1. CASE \E s \in Session : StoreStep(s)
  BY <1>1, StoreEffect
<1>2. CASE \E m \in MandateId : RevokeMandate(m)
  BY <1>2, RevokeEffect
<1>3. CASE \E a \in Agent : AddToDenylist(a)
  BY <1>3 DEF AddToDenylist, VaultInv, RowsStay, TypeOK, Revoked
<1>4. CASE Tick
  <2>1. now' \in 0..MaxNow /\ UNCHANGED <<mandates, denylist, sess>>
    BY <1>4, VaultConstants DEF Tick, VaultInv, TypeOK
  <2>2. QED
    BY <2>1 DEF VaultInv, RowsStay, TypeOK, Revoked
<1>5. CASE UNCHANGED vaultVars
  BY <1>5 DEF vaultVars, VaultInv, RowsStay, TypeOK, Revoked
<1>6. QED
  BY <1>1, <1>2, <1>3, <1>4, <1>5 DEF Next, OperatorStep

(* A restart ends every session; the rows stay.                            *)
LEMMA SessionsEnd ==
  ASSUME VaultInv, sess' = [s \in Session |-> Ended("idle")], UNCHANGED <<mandates, denylist, now>>
  PROVE  VaultInv' /\ TypeOK'
  BY EndedTyped DEF VaultInv, TypeOK, RowsStay, SessionType

(* Rows are never deleted.                                                 *)
LEMMA RowsPersist ==
  ASSUME VaultInv, [Next]_vaultVars, NEW m \in MandateId, mandates[m] # NoRow
  PROVE  mandates'[m] # NoRow
<1>1. ASSUME NEW s \in Session, StoreCommit(s) PROVE mandates'[m] # NoRow
  <2> DEFINE i == sess[s].id
             f == Flush(NewRow(sess[s].new), sess[s].loaded, mandates[i])
  <2>1. /\ i \in MandateId /\ sess[s].new \in Payload
        /\ sess[s].loaded # NoRow => sess[s].loaded \in Row /\ mandates[i] \in Row
    BY <1>1 DEF StoreCommit, VaultInv, TypeOK, RowsStay
  <2>2. NewRow(sess[s].new) # NoRow
    BY <2>1, NewRowTyped, VaultConstants
  <2>3. sess[s].loaded # NoRow => f # NoRow
    BY <2>1, NewRowTyped, FlushTyped, VaultConstants
  <2>4. \/ UNCHANGED mandates
        \/ mandates' = [mandates EXCEPT ![i] = NewRow(sess[s].new)]
        \/ sess[s].loaded # NoRow /\ mandates' = [mandates EXCEPT ![i] = f]
    BY <1>1 DEF StoreCommit
  <2> HIDE DEF f, i
  <2>5. QED
    BY <2>2, <2>3, <2>4 DEF VaultInv, TypeOK
<1>2. ASSUME NEW x \in MandateId, RevokeMandate(x) PROVE mandates'[m] # NoRow
  <2> DEFINE r == [mandates[x] EXCEPT !.revoked = TRUE]
  <2>1. mandates' = [mandates EXCEPT ![x] = r] /\ mandates[x] \in Row
    BY <1>2 DEF RevokeMandate, VaultInv, TypeOK
  <2>2. r \in Row /\ r # NoRow
    BY <2>1, VaultConstants DEF Row
  <2> HIDE DEF r
  <2>3. QED
    BY <2>1, <2>2 DEF VaultInv, TypeOK
<1>3. QED
  BY <1>1, <1>2 DEF Next, OperatorStep, StoreStep, StoreRead, StoreAbort, AddToDenylist, Tick, vaultVars

(* Rows and sessions stay in their domains, for any number of sessions. *)
THEOREM VaultTyped == Spec => []TypeOK
<1>1. VaultInv /\ [Next]_vaultVars => VaultInv'
  BY VaultStep
<1>2. VaultInv => TypeOK
  BY DEF VaultInv
<1>3. QED
  BY <1>1, <1>2, VaultInit, PTL DEF Spec

(* No interleaving of stores, revocations, aborts and ticks undoes a       *)
(* revocation or lets a revoked Mandate validate.                          *)
THEOREM RevocationIsForever == Spec => RevokedForever
<1>1. VaultInv /\ [Next]_vaultVars => VaultInv'
  BY VaultStep
<1>2. VaultInv /\ [Next]_vaultVars =>
        [\A m \in MandateId : Revoked(m) => Revoked(m)' /\ ValidateMandate(m)' = "invalid"]_vaultVars
  BY VaultStep DEF ValidateMandate
<1>3. QED
  BY <1>1, <1>2, VaultInit, PTL DEF Spec, RevokedForever

-----------------------------------------------------------------------------
(***************************************************************************)
(* One call of store_mandate at a time: the table is a book of Mandates    *)
(* replaced atomically, revocations and denylistings in between or not.    *)
(***************************************************************************)
OneSession == \A s, t \in Session : s = t

(* What the session loaded is what the table holds, but for a revocation.  *)
Current ==
  \A s \in Session : sess[s].state = "loaded" =>
    LET old == sess[s].loaded
        cur == mandates[sess[s].id]
    IN IF old = NoRow THEN cur = NoRow
       ELSE cur # NoRow /\ cur.agent = old.agent /\ cur.exp = old.exp /\ cur.payload = old.payload

(* The columns repeat what the payload says. *)
Coherent ==
  \A m \in MandateId : mandates[m] # NoRow =>
    mandates[m] = Book!Record(mandates[m].payload, mandates[m].revoked)

SerialInv == VaultInv /\ Current /\ Coherent

LEMMA RecordFields ==
  ASSUME NEW p, NEW r
  PROVE  /\ Book!Record(p, r).agent = p.agent /\ Book!Record(p, r).exp = p.exp
         /\ Book!Record(p, r).payload = p /\ Book!Record(p, r).revoked = r
  BY DEF Book!Record

LEMMA RecordRevoked ==
  ASSUME NEW x, NEW p, NEW r, x = Book!Record(p, r)
  PROVE  [x EXCEPT !.revoked = TRUE] = Book!Record(p, TRUE)
<1>1. \A b : [x EXCEPT !.revoked = b] = Book!Record(p, b)
  BY DEF Book!Record
<1>2. QED
  BY <1>1, Zenon

LEMMA NewRecord == ASSUME NEW p PROVE NewRow(p) = Book!Record(p, FALSE)
  BY DEF Book!Record, NewRow

LEMMA PutEffect ==
  ASSUME SerialInv, NEW m \in MandateId, NEW p \in Payload, NEW r \in BOOLEAN,
         mandates' = [mandates EXCEPT ![m] = Book!Record(p, r)]
  PROVE  Coherent'
<1>1. /\ mandates'[m] = Book!Record(p, r)
      /\ \A x \in MandateId : x # m => mandates'[x] = mandates[x]
  BY DEF SerialInv, VaultInv, TypeOK
<1>2. mandates'[m].payload = p /\ mandates'[m].revoked = r
  BY <1>1, RecordFields
<1>3. QED
  BY <1>1, <1>2 DEF SerialInv, Coherent

LEMMA SerialCommit ==
  ASSUME SerialInv, OneSession, NEW s \in Session, StoreCommit(s)
  PROVE  /\ Current' /\ Coherent'
         /\ Book!Next \/ mandates' = mandates
<1> DEFINE m == sess[s].id
           p == sess[s].new
           old == sess[s].loaded
           cur == mandates[m]
<1>1. /\ m \in MandateId /\ p \in Payload
      /\ old # NoRow => old \in Row /\ old.revoked = FALSE /\ cur \in Row
      /\ sess[s].state = "loaded"
  BY DEF StoreCommit, SerialInv, VaultInv, RowsStay, TypeOK, Row
<1>2. sess'[s].state # "loaded" /\ \A t \in Session : t = s
  <2>1. sess' = [sess EXCEPT ![s] = Ended("conflict")] \/ sess' = [sess EXCEPT ![s] = Ended("stored")]
    BY DEF StoreCommit
  <2>2. QED
    BY <2>1, EndedTyped DEF SerialInv, VaultInv, TypeOK, OneSession
<1>3. Current'
  BY <1>2 DEF Current
<1>4. CASE mandates' = mandates
  BY <1>3, <1>4 DEF SerialInv, Coherent
<1>5. CASE old = NoRow /\ cur = NoRow /\ mandates' = [mandates EXCEPT ![m] = NewRow(p)]
  <2>1. mandates' = [mandates EXCEPT ![m] = Book!Record(p, FALSE)]
    BY <1>5, NewRecord
  <2>2. Book!Put(m, p)
    BY <1>5, <2>1 DEF Book!Put
  <2>3. QED
    BY <1>1, <1>3, <2>1, <2>2, PutEffect DEF Book!Next
<1>6. CASE old # NoRow /\ mandates' = [mandates EXCEPT ![m] = Flush(NewRow(p), old, cur)]
  <2>1. cur # NoRow /\ cur.agent = old.agent /\ cur.exp = old.exp /\ cur.payload = old.payload
    BY <1>1, <1>6 DEF SerialInv, Current
  <2>2. Flush(NewRow(p), old, cur) = Book!Record(p, cur.revoked)
    <3>1. /\ Dirty(p.agent, old.agent, cur.agent) = p.agent
          /\ Dirty(p.exp, old.exp, cur.exp) = p.exp
          /\ Dirty(p, old.payload, cur.payload) = p
          /\ Dirty(FALSE, old.revoked, cur.revoked) = cur.revoked
      BY <1>1, <1>6, <2>1 DEF Dirty
    <3>2. /\ NewRow(p).agent = p.agent /\ NewRow(p).exp = p.exp
          /\ NewRow(p).payload = p /\ NewRow(p).revoked = FALSE
      BY DEF NewRow
    <3> HIDE DEF m, p, old, cur
    <3>3. QED
      BY <3>1, <3>2 DEF Flush, Book!Record
  <2>3. mandates' = [mandates EXCEPT ![m] = Book!Record(p, mandates[m].revoked)]
    BY <1>6, <2>2
  <2>4. Book!Put(m, p)
    BY <2>1, <2>3 DEF Book!Put
  <2>5. cur.revoked \in BOOLEAN
    BY <1>1, <1>6 DEF Row
  <2>6. QED
    BY <1>1, <1>3, <2>3, <2>4, <2>5, PutEffect DEF Book!Next
<1>7. QED
  BY <1>4, <1>5, <1>6 DEF StoreCommit

LEMMA SerialRead ==
  ASSUME SerialInv, OneSession, NEW s \in Session,
         (\E m \in MandateId, p \in Payload : StoreRead(s, m, p)) \/ StoreAbort(s)
  PROVE  Current' /\ Coherent' /\ mandates' = mandates
<1>1. mandates' = mandates
  BY DEF StoreRead, StoreAbort
<1>2. Coherent'
  BY <1>1 DEF SerialInv, Coherent
<1>3. Current'
  <2>1. CASE StoreAbort(s)
    BY <2>1, EndedTyped DEF StoreAbort, SerialInv, VaultInv, TypeOK, Current, OneSession
  <2>2. CASE \E m \in MandateId, p \in Payload : StoreRead(s, m, p)
    <3>1. PICK m \in MandateId, p \in Payload :
            \/ Revoked(m) /\ sess' = [sess EXCEPT ![s] = Ended("refused")]
            \/ ~Revoked(m) /\ sess' = [sess EXCEPT ![s] = Loading(m, p)]
      BY <2>2 DEF StoreRead
    <3>2. sess'[s] = Ended("refused") \/ sess'[s] = Loading(m, p)
      BY <3>1 DEF SerialInv, VaultInv, TypeOK
    <3>3. Loading(m, p).id = m /\ Loading(m, p).loaded = mandates[m]
      BY DEF Loading
    <3>4. QED
      BY <1>1, <3>2, <3>3, EndedTyped DEF Current, OneSession
  <2>3. QED
    BY <2>1, <2>2
<1>4. QED
  BY <1>1, <1>2, <1>3

LEMMA SerialRevoke ==
  ASSUME SerialInv, NEW m \in MandateId, RevokeMandate(m)
  PROVE  Current' /\ Coherent' /\ Book!Next
<1> DEFINE r == [mandates[m] EXCEPT !.revoked = TRUE]
<1>1. /\ mandates' = [mandates EXCEPT ![m] = r] /\ mandates[m] \in Row /\ mandates[m] # NoRow
      /\ sess' = sess
  BY DEF RevokeMandate, SerialInv, VaultInv, TypeOK
<1>2. r = Book!Record(mandates[m].payload, TRUE)
  <2>1. mandates[m] = Book!Record(mandates[m].payload, mandates[m].revoked)
    BY <1>1 DEF SerialInv, Coherent
  <2>2. QED
    BY <2>1, RecordRevoked
<1>3. mandates[m].payload \in Payload
  BY <1>1 DEF Row
<1>4. r # NoRow /\ r.agent = mandates[m].agent /\ r.exp = mandates[m].exp
      /\ r.payload = mandates[m].payload
  BY <1>1, VaultConstants DEF Row
<1> HIDE DEF r
<1>5. Coherent'
  BY <1>1, <1>2, <1>3, PutEffect
<1>6. Current'
  BY <1>1, <1>4 DEF SerialInv, VaultInv, TypeOK, Current
<1>7. Book!Next
  BY <1>1, <1>2 DEF Book!Next, Book!Revoke
<1>8. QED
  BY <1>5, <1>6, <1>7

LEMMA SerialStep ==
  ASSUME OneSession, SerialInv, [Next]_vaultVars
  PROVE  SerialInv' /\ [Book!Next]_mandates
<1>1. VaultInv'
  BY VaultStep DEF SerialInv
<1>2. CASE \E s \in Session : StoreStep(s)
  BY <1>1, <1>2, SerialRead, SerialCommit DEF StoreStep, SerialInv
<1>3. CASE \E m \in MandateId : RevokeMandate(m)
  BY <1>1, <1>3, SerialRevoke DEF SerialInv
<1>4. CASE UNCHANGED <<mandates, sess>>
  BY <1>1, <1>4 DEF SerialInv, Current, Coherent
<1>5. QED
  BY <1>2, <1>3, <1>4 DEF Next, OperatorStep, AddToDenylist, Tick, vaultVars

LEMMA SerialInit == Init => SerialInv
  BY VaultInit, EndedTyped DEF Init, SerialInv, Current, Coherent

(* With stores that do not overlap, the Vault implements the book of       *)
(* Mandates: rows are replaced whole and revocations are never undone.     *)
THEOREM SerialVaultIsABook ==
  ASSUME OneSession PROVE Spec => ImplementsMandateBook
<1>1. Init => Book!Init
  BY DEF Init, Book!Init
<1>2. SerialInv /\ [Next]_vaultVars => SerialInv' /\ [Book!Next]_mandates
  BY SerialStep
<1>3. QED
  BY <1>1, <1>2, SerialInit, PTL DEF Spec, ImplementsMandateBook, Book!Spec

(* With stores that do not overlap, a Mandate that validates is within the *)
(* bounds of the payload the rest of the gateway reads.                    *)
THEOREM SerialPayloadBoundsHold ==
  ASSUME OneSession PROVE Spec => []PayloadBoundsHold
<1>1. SerialInv /\ [Next]_vaultVars => SerialInv'
  BY SerialStep
<1>2. SerialInv => PayloadBoundsHold
  <2> SUFFICES ASSUME SerialInv, NEW m \in MandateId, ValidateMandate(m) = "valid"
               PROVE  /\ mandates[m].payload.agent \notin denylist
                      /\ now < mandates[m].payload.exp.at
    BY DEF PayloadBoundsHold
  <2>1. /\ mandates[m] # NoRow /\ mandates[m].agent \notin denylist
        /\ ~(now >= mandates[m].exp.at)
    BY DEF ValidateMandate
  <2>2. mandates[m].agent = mandates[m].payload.agent /\ mandates[m].exp = mandates[m].payload.exp
    <3>1. mandates[m] = Book!Record(mandates[m].payload, mandates[m].revoked)
      BY <2>1 DEF SerialInv, Coherent
    <3>2. QED
      BY <3>1, RecordFields
  <2>3. now \in Nat /\ mandates[m].exp.at \in Nat
    BY <2>1, VaultConstants DEF SerialInv, VaultInv, TypeOK, Row, Expiry
  <2>4. QED
    BY <2>1, <2>2, <2>3
<1>3. QED
  BY <1>1, <1>2, SerialInit, PTL DEF Spec
=============================================================================
