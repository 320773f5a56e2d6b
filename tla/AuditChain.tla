----------------------------- MODULE AuditChain -----------------------------
(***************************************************************************)
(* The Audit logger (C7): an append-only table whose rows form a hash      *)
(* chain.  log_entry is three steps -- stamp, read the last hash, commit   *)
(* -- with an await (and a separate SQLite transaction) between them, so   *)
(* the steps of different requests interleave.  The chain has no order of  *)
(* its own: verify_chain sorts the rows by (timestamp, entry_id).          *)
(*                                                                         *)
(* A SHA-256 digest is modelled by the tuple it is computed from, which is *)
(* what collision resistance means; GENESIS_HASH is the empty tuple.       *)
(***************************************************************************)
EXTENDS Integers, SequencesExt

CONSTANTS Writer,     \* requests that call log_entry
          Exporter,   \* requests of GET /v1/audit/export
          EntryId,    \* uuid4 values, ordered, in no relation to time
          Body,       \* the caller's fields: action, outcome, mandate_id, ...
          ClockStep,  \* what datetime.now(UTC) may move by between two readings
          MaxClock    \* bound: clock readings stay in 0..MaxClock

ASSUME AuditConstants == /\ EntryId \subseteq Nat
                         /\ ClockStep \subseteq Int
                         /\ MaxClock \in Nat

VARIABLES audit,    \* the committed rows of table audit
          clock,    \* the last reading of the wall clock
          pc,       \* pc[w]: where writer w is inside log_entry
          draft,    \* draft[w]: the record writer w has built so far
          export,   \* export[e]: what the export request e has answered; its
                    \* field verified is history: the rows verify_chain walked
          tampered  \* an operator edited a stored row (TamperSpec only)

vars == <<audit, clock, pc, draft, export, tampered>>

Time == 0..MaxClock
GenesisHash == <<>>

CanonicalWithoutTime(r) == <<r.id, r.body>>   \* mutant: timestamp left out of the digest
CanonicalFields(r) == <<r.id, r.ts, r.body>>
ComputeEntryHash(r) == <<r.prev, CanonicalFields(r)>>

BeforeById(a, b) == a.id < b.id   \* mutant: ORDER BY entry_id alone

(* ORDER BY timestamp, entry_id *)
Before(a, b) == a.ts < b.ts \/ (a.ts = b.ts /\ a.id < b.id)

(* Mutant: the descending order forgotten *)
FirstEntryHash(rows) ==
  IF rows = {} THEN GenesisHash
  ELSE (CHOOSE r \in rows : \A q \in rows : q = r \/ Before(r, q)).hash

(* _last_entry_hash: the first row in descending order *)
LastEntryHash(rows) ==
  IF rows = {} THEN GenesisHash
  ELSE (CHOOSE r \in rows : \A q \in rows : q = r \/ Before(q, r)).hash

(* ORDER BY timestamp ASC, entry_id ASC: the query of verify_chain and get_full_chain *)
InOrder(rows) == CHOOSE s \in SetToSeqs(rows) : IsSorted(s, Before)

(* Mutant: expected_prev never compared *)
VerifyDigestsOnly(rows) == \A r \in rows : r.hash = ComputeEntryHash(r)

(* verify_chain: one pass over the ordered rows, carrying expected_prev *)
VerifyChain(rows) ==
  LET Check(acc, r) ==
        [ok   |-> acc.ok /\ r.prev = acc.prev /\ r.hash = ComputeEntryHash(r),
         prev |-> r.hash]
  IN FoldLeft(Check, [ok |-> TRUE, prev |-> GenesisHash], InOrder(rows)).ok

UsedIds == {r.id : r \in audit} \cup {draft[w].id : w \in {v \in Writer : pc[v] # "idle"}}

NoDraft == [id |-> 0, ts |-> 0, body |-> 0, prev |-> GenesisHash]

Init == /\ audit = {} /\ clock = 0 /\ tampered = FALSE
        /\ pc = [w \in Writer |-> "idle"]
        /\ draft = [w \in Writer |-> NoDraft]
        /\ export = [e \in Exporter |-> [state |-> "idle", verified |-> {}, rows |-> {}]]

-----------------------------------------------------------------------------
(* Mutant: a timestamp truncated to a coarser unit *)
StartEntryCoarse(w) ==
  /\ pc[w] = "idle"
  /\ \E id \in EntryId \ UsedIds, d \in ClockStep, b \in Body :
       /\ clock + d \in Time
       /\ clock' = clock + d
       /\ draft' = [draft EXCEPT ![w] = [id |-> id, ts |-> (clock + d) \div 2, body |-> b,
                                         prev |-> GenesisHash]]
  /\ pc' = [pc EXCEPT ![w] = "stamped"]
  /\ UNCHANGED <<audit, export, tampered>>

(* log_entry, up to the await on the last hash: entry_id and timestamp *)
StartEntry(w) ==
  /\ pc[w] = "idle"
  /\ \E id \in EntryId \ UsedIds, d \in ClockStep, b \in Body :
       /\ clock + d \in Time
       /\ clock' = clock + d
       /\ draft' = [draft EXCEPT ![w] = [id |-> id, ts |-> clock + d, body |-> b,
                                         prev |-> GenesisHash]]
  /\ pc' = [pc EXCEPT ![w] = "stamped"]
  /\ UNCHANGED <<audit, export, tampered>>

(* Mutant: the last hash remembered in the process before it is committed *)
ReadCachedHash(w) ==
  /\ pc[w] = "stamped"
  /\ \E h \in {LastEntryHash(audit)}
              \cup {ComputeEntryHash(draft[v]) : v \in {u \in Writer : pc[u] = "linked"}} :
       draft' = [draft EXCEPT ![w].prev = h]
  /\ pc' = [pc EXCEPT ![w] = "linked"]
  /\ UNCHANGED <<audit, clock, export, tampered>>

ReadLastHash(w) ==
  /\ pc[w] = "stamped"
  /\ draft' = [draft EXCEPT ![w].prev = LastEntryHash(audit)]
  /\ pc' = [pc EXCEPT ![w] = "linked"]
  /\ UNCHANGED <<audit, clock, export, tampered>>

(* Mutant: the caller's fields not copied into the record *)
SealedWithoutBody(d) == [id |-> d.id, ts |-> d.ts, body |-> NoDraft.body, prev |-> d.prev,
                         hash |-> ComputeEntryHash(d)]

(* The AuditRow, with the entry_hash computed from the rest of it *)
Sealed(d) == [id |-> d.id, ts |-> d.ts, body |-> d.body, prev |-> d.prev,
              hash |-> ComputeEntryHash(d)]

CommitEntry(w) ==
  /\ pc[w] = "linked"
  /\ audit' = audit \cup {Sealed(draft[w])}
  /\ pc' = [pc EXCEPT ![w] = "idle"]
  /\ draft' = [draft EXCEPT ![w] = NoDraft]
  /\ UNCHANGED <<clock, export, tampered>>

(* The session fails (database locked, process killed) before the commit. *)
AbortEntry(w) ==
  /\ pc[w] # "idle"
  /\ pc' = [pc EXCEPT ![w] = "idle"]
  /\ draft' = [draft EXCEPT ![w] = NoDraft]
  /\ UNCHANGED <<audit, clock, export, tampered>>

(* Mutant: verify_chain not awaited, so that its answer is always true *)
ExportVerifyUnawaited(e) ==
  /\ export[e].state = "idle"
  /\ export' = [export EXCEPT ![e] = [state |-> "verified", verified |-> audit, rows |-> {}]]
  /\ UNCHANGED <<audit, clock, pc, draft, tampered>>

(* audit_export: verify_chain, and 409 when it fails ... *)
ExportVerify(e) ==
  /\ export[e].state = "idle"
  /\ export' = [export EXCEPT ![e] =
       [state |-> IF VerifyChain(audit) THEN "verified" ELSE "refused",
        verified |-> audit, rows |-> {}]]
  /\ UNCHANGED <<audit, clock, pc, draft, tampered>>

(* ... then get_full_chain, a second query in a session of its own *)
ExportRead(e) ==
  /\ export[e].state = "verified"
  /\ export' = [export EXCEPT ![e] = [state |-> "done", verified |-> export[e].verified,
                                     rows |-> audit]]
  /\ UNCHANGED <<audit, clock, pc, draft, tampered>>

Next == \/ \E w \in Writer : StartEntry(w) \/ ReadLastHash(w) \/ CommitEntry(w) \/ AbortEntry(w)
        \/ \E e \in Exporter : ExportVerify(e) \/ ExportRead(e)

Spec == Init /\ [][Next]_vars

-----------------------------------------------------------------------------
(* Outside the program: one column of one stored row is edited in place.   *)
EditRow ==
  /\ ~tampered
  /\ \E r \in audit :
       \E edited \in {[r EXCEPT !.ts = t] : t \in Time}
                     \cup {[r EXCEPT !.body = b] : b \in Body}
                     \cup {[r EXCEPT !.prev = q.hash] : q \in audit}
                     \cup {[r EXCEPT !.hash = q.prev] : q \in audit} :
         edited # r /\ audit' = (audit \ {r}) \cup {edited}
  /\ tampered' = TRUE
  /\ UNCHANGED <<clock, pc, draft, export>>

TamperNext == Next \/ EditRow
TamperSpec == Init /\ [][TamperNext]_vars

-----------------------------------------------------------------------------
Stamped(r) == r.id \in EntryId /\ r.ts \in Time /\ r.body \in Body

(* Type: rows and live drafts carry an id, a time and a body of the domain. *)
TypeOK ==
  /\ clock \in Time /\ tampered \in BOOLEAN
  /\ pc \in [Writer -> {"idle", "stamped", "linked"}]
  /\ \A r \in audit : Stamped(r)
  /\ \A w \in Writer : pc[w] # "idle" => Stamped(draft[w])
  /\ \A e \in Exporter : export[e].state \in {"idle", "verified", "refused", "done"}

(* However log_entry calls interleave, fail or die, every committed row    *)
(* carries its own digest and points at the genesis or at a row that is    *)
(* really in the table: until a row is edited outside the program no link  *)
(* dangles, so the log is a tree rooted at the genesis (log_entry;         *)
(* entry_id is a primary key).                                             *)
Rooted ==
  /\ \A r \in audit : /\ r.hash = ComputeEntryHash(r)
                      /\ r.prev = GenesisHash \/ \E q \in audit : r.prev = q.hash
  /\ \A r, q \in audit : r.id = q.id => r = q
WellLinked == ~tampered => Rooted

(* The rows, in timestamp order, form one chain from the genesis: each     *)
(* carries its digest and the digest of the row just before it.            *)
JustBefore(rows, q, r) ==
  Before(q, r) /\ \A x \in rows : ~(Before(q, x) /\ Before(x, r))
ChainIntact(rows) ==
  \A r \in rows :
    /\ r.hash = ComputeEntryHash(r)
    /\ \/ r.prev = GenesisHash /\ \A q \in rows : ~Before(q, r)
       \/ \E q \in rows : JustBefore(rows, q, r) /\ r.prev = q.hash

(* verify_chain's answer means what its docstring says: true exactly when  *)
(* every row matches its digest and the digest of its predecessor.         *)
VerifyMeansIntact == VerifyChain(audit) <=> ChainIntact(audit)

(* The trail is a verifiable hash chain at every moment (README, core      *)
(* guarantees).  Holds when log_entry calls do not overlap and the clock   *)
(* advances between them.                                                  *)
ChainVerifies == ChainIntact(audit)

(* What an export's answer is worth, with log_entry calls, clock set back  *)
(* and an edit around it.  A 409 is right for good: no later append makes  *)
(* the table a chain.  With chain_ok = true a chain was verified, and its  *)
(* rows are all in the answer unless one was edited; the answer was read   *)
(* by a second query and need not be a chain itself, but if it is not, the *)
(* table has stopped being one too, so that a later export is refused.     *)
ExportVouches ==
  \A e \in Exporter :
    /\ export[e].state = "refused" => ~ChainIntact(audit)
    /\ export[e].state = "done" =>
         /\ ChainIntact(export[e].verified)
         /\ tampered \/ export[e].verified \subseteq export[e].rows
         /\ ChainIntact(export[e].rows) \/ ~ChainIntact(audit)

(* A chain once broken stays broken: a fork left by overlapping log_entry  *)
(* calls or a clock set back is never healed by an entry that is committed *)
(* later, wherever its timestamp sorts it, nor by the edit of a row.       *)
BrokenForGood == [][~VerifyChain(audit) => ~VerifyChain(audit)']_vars

(* A new row sorts after every row already there: the order in which the   *)
(* chain is verified is the order in which it was written.                 *)
AppendsAtEnd ==
  [][audit \subseteq audit' /\ \A a \in audit, b \in audit' \ audit : Before(a, b)]_audit

(* Once a stored row was edited in place the chain never verifies again,   *)
(* whatever is appended afterwards.                                        *)
TamperEvident == tampered => ~VerifyChain(audit)

(* The log as a reader sees it: the bodies in the order of the chain. *)
LogView == [i \in 1..Cardinality(audit) |-> InOrder(audit)[i].body]
Log == INSTANCE AppendLog WITH log <- LogView
ImplementsAppendLog == Log!Spec
=============================================================================
