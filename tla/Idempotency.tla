----------------------------- MODULE Idempotency -----------------------------
(***************************************************************************)
(* The IdempotencyStore: mark(event_id) inserts a row keyed by the event,  *)
(* and answers True to the caller whose insert committed.  SQLite may turn *)
(* an insert away because the database is locked; mark then looks whether  *)
(* the row is there (seen) and tries again, a bounded number of times.     *)
(* Whatever else fails is raised at once.                                  *)
(***************************************************************************)
EXTENDS Naturals

CONSTANTS Caller,    \* concurrent calls of mark
          Key,       \* event ids
          NoKey,
          MarkTries  \* attempts of mark: 5 in the code

ASSUME MarkConstants == MarkTries \in Nat \ {0} /\ NoKey \notin Key

VARIABLES claimed,  \* rows of table idempotency_keys
          mstate,   \* mstate[c]: where the call is, or what it answered
          mkey,     \* mkey[c]: its event id
          tries     \* tries[c]: failed attempts so far

markVars == <<claimed, mstate, mkey, tries>>

MarkInit == /\ claimed = {}
            /\ mstate = [c \in Caller |-> "idle"]
            /\ mkey = [c \in Caller |-> NoKey]
            /\ tries = [c \in Caller |-> 0]

MarkBegin(c, k) ==
  /\ mstate[c] = "idle"
  /\ mstate' = [mstate EXCEPT ![c] = "insert"]
  /\ mkey' = [mkey EXCEPT ![c] = k]
  /\ UNCHANGED <<claimed, tries>>

Step(c, state) == mstate' = [mstate EXCEPT ![c] = state]

(* Mutant: INSERT OR REPLACE *)
MarkReplace(c) ==
  /\ mstate[c] = "insert"
  /\ \/ claimed' = claimed \cup {mkey[c]} /\ Step(c, "true")
     \/ Step(c, "check") /\ UNCHANGED claimed
     \/ Step(c, "error") /\ UNCHANGED claimed
  /\ UNCHANGED <<mkey, tries>>

(* session.commit(): the row is new, is there already (IntegrityError),    *)
(* the database is locked or busy, whoever holds it, or fails otherwise,   *)
(* which is raised at once. *)
MarkInsert(c) ==
  /\ mstate[c] = "insert"
  /\ \/ mkey[c] \notin claimed /\ claimed' = claimed \cup {mkey[c]} /\ Step(c, "true")
     \/ mkey[c] \in claimed /\ Step(c, "false") /\ UNCHANGED claimed
     \/ Step(c, "check") /\ UNCHANGED claimed
     \/ Step(c, "error") /\ UNCHANGED claimed
  /\ UNCHANGED <<mkey, tries>>

(* Mutants: an exhausted call answers False; attempts not counted.         *)
MarkSeenQuiet(c) ==
  /\ mstate[c] = "check"
  /\ \/ (mkey[c] \in claimed \/ tries[c] + 1 = MarkTries) /\ Step(c, "false") /\ UNCHANGED tries
     \/ /\ mkey[c] \notin claimed /\ tries[c] + 1 < MarkTries
        /\ tries' = [tries EXCEPT ![c] = @ + 1] /\ Step(c, "insert")
     \/ Step(c, "error") /\ UNCHANGED tries
  /\ UNCHANGED <<claimed, mkey>>
MarkSeenForever(c) ==
  /\ mstate[c] = "check"
  /\ \/ Step(c, IF mkey[c] \in claimed THEN "false" ELSE "insert")
     \/ Step(c, "error")
  /\ UNCHANGED <<claimed, mkey, tries>>

(* After a locked attempt: seen() in a session of its own, which may raise *)
(* too; then the next attempt, or the last OperationalError is raised. *)
MarkSeen(c) ==
  /\ mstate[c] = "check"
  /\ \/ mkey[c] \in claimed /\ Step(c, "false") /\ UNCHANGED tries
     \/ /\ mkey[c] \notin claimed
        /\ tries' = [tries EXCEPT ![c] = @ + 1]
        /\ Step(c, IF tries[c] + 1 = MarkTries THEN "error" ELSE "insert")
     \/ Step(c, "error") /\ UNCHANGED tries
  /\ UNCHANGED <<claimed, mkey>>

(* The process dies in the call, before the commit or after it. *)
MarkAbort(c) ==
  /\ mstate[c] \in {"insert", "check"}
  /\ Step(c, "aborted")
  /\ \/ UNCHANGED claimed
     \/ mstate[c] = "insert" /\ claimed' = claimed \cup {mkey[c]}
  /\ UNCHANGED <<mkey, tries>>

MarkStep(c) == MarkInsert(c) \/ MarkSeen(c)
MarkNext == \E c \in Caller : \/ \E k \in Key : MarkBegin(c, k)
                              \/ MarkStep(c) \/ MarkAbort(c)

MarkSpec == MarkInit /\ [][MarkNext]_markVars

-----------------------------------------------------------------------------
(* Type: calls are in one of their states, and never past the last try. *)
MarkTypeOK ==
  /\ claimed \subseteq Key
  /\ mstate \in [Caller -> {"idle", "insert", "check", "true", "false", "error", "aborted"}]
  /\ mkey \in [Caller -> Key \cup {NoKey}]
  /\ \A c \in Caller : /\ tries[c] \in 0..MarkTries
                       /\ mstate[c] # "idle" => mkey[c] \in Key
                       /\ mstate[c] \in {"idle", "insert", "check"} => tries[c] < MarkTries

(* An event is claimed by at most one delivery, however many race, retry   *)
(* on locks or die (mark: "True if newly claimed").                        *)
OneClaimant ==
  \A c, d \in Caller : mstate[c] = "true" /\ mstate[d] = "true" /\ mkey[c] = mkey[d] => c = d

(* False means that the event really is recorded: no delivery is turned    *)
(* away as a duplicate of an event nobody claimed (mark: "False if already *)
(* present").                                                              *)
FalseMeansClaimed == \A c \in Caller : mstate[c] = "false" => mkey[c] \in claimed
=============================================================================
