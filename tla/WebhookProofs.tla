---------------------------- MODULE WebhookProofs ----------------------------
(***************************************************************************)
(* The safety of the webhook and of the idempotency store it claims its    *)
(* events in, for any number of deliveries, events and Mandates, with      *)
(* operators' stores in between and every fault.                           *)
(***************************************************************************)
EXTENDS Webhook, VaultProofs

-----------------------------------------------------------------------------
(***************************************************************************)
(* mark, for any number of racing callers, events and attempts.            *)
(***************************************************************************)

(* A caller that answered True or False left its event claimed: so no      *)
(* later insert of that event commits, and the claimant stays the only one. *)
AnsweredClaimed == \A c \in Caller : mstate[c] \in {"true", "false"} => mkey[c] \in claimed

MarkInv == MarkTypeOK /\ AnsweredClaimed /\ OneClaimant

LEMMA MarkInitInv == MarkInit => MarkInv
  BY MarkConstants DEF MarkInit, MarkInv, MarkTypeOK, AnsweredClaimed, OneClaimant

LEMMA MarkStepInv == ASSUME MarkInv, [MarkNext]_markVars PROVE MarkInv'
<1> USE MarkConstants DEF MarkInv, MarkTypeOK, AnsweredClaimed, OneClaimant
<1>1. ASSUME NEW c \in Caller, NEW k \in Key, MarkBegin(c, k) PROVE MarkInv'
  BY <1>1 DEF MarkBegin
<1>2. ASSUME NEW c \in Caller, MarkInsert(c) PROVE MarkInv'
  <2>1. CASE mkey[c] \notin claimed /\ claimed' = claimed \cup {mkey[c]} /\ Step(c, "true")
    BY <1>2, <2>1 DEF MarkInsert, Step
  <2>2. CASE mkey[c] \in claimed /\ Step(c, "false") /\ UNCHANGED claimed
    BY <1>2, <2>2 DEF MarkInsert, Step
  <2>3. CASE Step(c, "check") /\ UNCHANGED claimed
    BY <1>2, <2>3 DEF MarkInsert, Step
  <2>4. CASE Step(c, "error") /\ UNCHANGED claimed
    BY <1>2, <2>4 DEF MarkInsert, Step
  <2>5. QED
    BY <1>2, <2>1, <2>2, <2>3, <2>4 DEF MarkInsert
<1>3. ASSUME NEW c \in Caller, MarkSeen(c) PROVE MarkInv'
  <2>1. CASE mkey[c] \in claimed /\ Step(c, "false") /\ UNCHANGED tries
    BY <1>3, <2>1 DEF MarkSeen, Step
  <2>2. CASE mkey[c] \notin claimed /\ tries' = [tries EXCEPT ![c] = @ + 1]
    BY <1>3, <2>2 DEF MarkSeen, Step
  <2>3. CASE Step(c, "error") /\ UNCHANGED tries
    BY <1>3, <2>3 DEF MarkSeen, Step
  <2>4. QED
    BY <1>3, <2>1, <2>2, <2>3 DEF MarkSeen
<1>4. ASSUME NEW c \in Caller, MarkAbort(c) PROVE MarkInv'
  BY <1>4 DEF MarkAbort, Step
<1>5. CASE UNCHANGED markVars
  BY <1>5 DEF markVars
<1>6. QED
  BY <1>1, <1>2, <1>3, <1>4, <1>5 DEF MarkNext, MarkStep

(* No call is past its last attempt, and each is in a known state.         *)
THEOREM MarkTyped == MarkSpec => []MarkTypeOK
  BY MarkInitInv, MarkStepInv, PTL DEF MarkSpec, MarkInv

(* An event has one claimant at most, whatever races, locks and deaths     *)
(* there are: the Mandate and the trail see it once.                       *)
THEOREM MarkClaimsOnce == MarkSpec => []OneClaimant
  BY MarkInitInv, MarkStepInv, PTL DEF MarkSpec, MarkInv

(* A delivery answered as a duplicate is a duplicate.                      *)
THEOREM MarkFalseIsDuplicate == MarkSpec => []FalseMeansClaimed
<1>1. MarkInv => FalseMeansClaimed
  BY DEF MarkInv, AnsweredClaimed, FalseMeansClaimed
<1>2. QED
  BY <1>1, MarkInitInv, MarkStepInv, PTL DEF MarkSpec

-----------------------------------------------------------------------------
(***************************************************************************)
(* The deliveries that call it.                                            *)
(***************************************************************************)

(* Every claimed event has the delivery that claimed it.                   *)
Claimants == \A k \in claimed : \E c \in Caller : mstate[c] = "true" /\ mkey[c] = k

HookType == {"new", "mark", "load", "store", "commit", "log", "reply"} \cup Answered
HookDomains ==
  /\ hook \in [Caller -> HookType]
  /\ evt \in [Caller -> Event \cup {NoRow}] /\ seen \in [Caller -> Payload \cup {NoRow}]
  /\ applied \in [Caller -> HookEntry \cup {NoRow}]

(* What holds of every delivery by itself: before it claims it has nothing, *)
(* after it claimed it carries the event it claimed, and its session        *)
(* writes that event over the Mandate it read.                              *)
Target(d) == ResolveMandate(evt[d])
Idle(d) == hook[d] \in {"new", "refused"} =>
             mstate[d] = "idle" /\ evt[d] = NoRow /\ applied[d] = NoRow
Carries(d) == hook[d] \notin {"new", "refused"} => evt[d] \in Event /\ mkey[d] = EventKey(evt[d])
Answers2xx(d) == /\ hook[d] \in {"load", "store", "commit", "log", "reply", "applied"} => mstate[d] = "true"
                 /\ hook[d] = "already_processed" => mstate[d] = "false"
                 /\ hook[d] \in {"reply", "applied"} => applied[d] # NoRow
                 /\ applied[d] # NoRow => mstate[d] = "true" /\ applied[d].key = mkey[d]
Targets(d) == /\ hook[d] \in {"load", "store", "commit", "log"} =>
                   Target(d) \in MandateId /\ evt[d].type \in Applyable
              /\ hook[d] \in {"store", "commit", "log"} => seen[d] \in Payload
              /\ hook[d] \in {"store", "commit"} => mandates[Target(d)] # NoRow
Writes(d) == /\ hook[d] = "commit" <=> sess[d].state = "loaded"
             /\ hook[d] = "commit" => /\ sess[d].id = Target(d) /\ sess[d].loaded # NoRow
                                      /\ sess[d].new = Updated(seen[d], evt[d])
Sound(d) == Idle(d) /\ Carries(d) /\ Answers2xx(d) /\ Targets(d) /\ Writes(d)

HookInv == VaultInv /\ MarkInv /\ Claimants /\ HookDomains /\ \A d \in Caller : Sound(d)

LEMMA HookTypes == HookInv => HookTypeOK
  BY DEF HookInv, VaultInv, MarkInv, HookDomains, HookType, HookTypeOK, Sound, Answers2xx, Targets, Writes

-----------------------------------------------------------------------------
(* A delivery a step leaves alone stays sound: rows are never deleted.     *)
LEMMA DeliveryFrame ==
  ASSUME HookInv, NEW c \in Caller,
         hook'[c] = hook[c], evt'[c] = evt[c], seen'[c] = seen[c], applied'[c] = applied[c],
         mstate'[c] = mstate[c], mkey'[c] = mkey[c], sess'[c] = sess[c],
         \A m \in MandateId : mandates[m] # NoRow => mandates'[m] # NoRow
  PROVE  Sound(c)'
<1>1. Target(c)' = Target(c)
  BY DEF Target, ResolveMandate
<1>2. Idle(c)' /\ Carries(c)' /\ Answers2xx(c)'
  BY DEF HookInv, Sound, Idle, Carries, Answers2xx, EventKey, BaseId
<1>3. Targets(c)'
  BY <1>1 DEF HookInv, Sound, Targets
<1>4. Updated(seen[c], evt[c])' = Updated(seen[c], evt[c])
  BY Zenon DEF Updated, StatusFor
<1>5. Writes(c)'
  BY <1>1, <1>4 DEF HookInv, Sound, Writes
<1>6. QED
  BY <1>2, <1>3, <1>5 DEF Sound

(* The others, when delivery d takes a step through its own session.       *)
LEMMA OtherDeliveries ==
  ASSUME HookInv, NEW d \in Caller, [Next]_vaultVars, MarkInv', Claimants', HookDomains',
         \A c \in Caller \ {d} :
           /\ hook'[c] = hook[c] /\ evt'[c] = evt[c] /\ seen'[c] = seen[c]
           /\ applied'[c] = applied[c] /\ mstate'[c] = mstate[c] /\ mkey'[c] = mkey[c]
           /\ sess'[c] = sess[c],
         Sound(d)'
  PROVE  HookInv'
<1>1. VaultInv' /\ \A m \in MandateId : mandates[m] # NoRow => mandates'[m] # NoRow
  BY VaultStep, RowsPersist DEF HookInv
<1>2. ASSUME NEW c \in Caller \ {d} PROVE Sound(c)'
  BY <1>1, DeliveryFrame
<1>3. QED
  BY <1>1, <1>2 DEF HookInv

(* A step of a delivery that leaves the Vault and the claims alone.        *)
LEMMA QuietDelivery ==
  ASSUME HookInv, NEW d \in Caller, NEW where \in HookType,
         hook' = [hook EXCEPT ![d] = where], UNCHANGED vaultVars, UNCHANGED markVars, UNCHANGED evt,
         seen' \in [Caller -> Payload \cup {NoRow}], applied' \in [Caller -> HookEntry \cup {NoRow}],
         \A c \in Caller \ {d} : seen'[c] = seen[c] /\ applied'[c] = applied[c],
         Sound(d)'
  PROVE  HookInv'
<1>1. HookDomains' /\ MarkInv'
  BY MarkStepInv DEF HookInv, HookDomains
<1>2. Claimants'
  BY DEF HookInv, Claimants, markVars
<1>3. \A c \in Caller \ {d} :
           /\ hook'[c] = hook[c] /\ evt'[c] = evt[c] /\ seen'[c] = seen[c]
           /\ applied'[c] = applied[c] /\ mstate'[c] = mstate[c] /\ mkey'[c] = mkey[c]
           /\ sess'[c] = sess[c]
  BY DEF HookInv, HookDomains, markVars, vaultVars
<1>4. QED
  BY <1>1, <1>2, <1>3, OtherDeliveries

(* What mark does to the claims.                                           *)
LEMMA ClaimEffect ==
  ASSUME MarkInv, Claimants, NEW d \in Caller, MarkStep(d) \/ \E k \in Key : MarkBegin(d, k)
  PROVE  /\ MarkInv' /\ Claimants'
         /\ \A c \in Caller \ {d} : mstate'[c] = mstate[c] /\ mkey'[c] = mkey[c]
<1>1. MarkInv'
  BY MarkStepInv DEF MarkNext
<1>2. \A c \in Caller \ {d} : mstate'[c] = mstate[c] /\ mkey'[c] = mkey[c]
  BY DEF MarkStep, MarkInsert, MarkSeen, MarkBegin, Step, MarkInv, MarkTypeOK
<1>3. mstate[d] # "true"
  BY DEF MarkStep, MarkInsert, MarkSeen, MarkBegin
<1>4. \/ UNCHANGED claimed
      \/ claimed' = claimed \cup {mkey[d]} /\ mstate'[d] = "true" /\ mkey'[d] = mkey[d]
  BY DEF MarkStep, MarkInsert, MarkSeen, MarkBegin, Step, MarkInv, MarkTypeOK
<1>5. Claimants'
  BY <1>2, <1>3, <1>4 DEF Claimants
<1>6. QED
  BY <1>1, <1>2, <1>5

LEMMA HookInitInv == HookInit => HookInv
<1> SUFFICES ASSUME HookInit PROVE HookInv
  OBVIOUS
<1>1. Unpaid \subseteq Row
  BY NewRowTyped DEF Unpaid
<1>2. VaultInv
  <2>1. 0 \in 0..MaxNow
    BY VaultConstants
  <2>2. QED
    BY <1>1, <2>1, EndedTyped DEF HookInit, VaultInv, RowsStay, TypeOK, SessionType
<1>3. MarkInv /\ Claimants
  BY MarkInitInv DEF HookInit, MarkInit, Claimants
<1>4. HookDomains
  BY DEF HookInit, HookDomains, HookType
<1>5. ASSUME NEW d \in Caller PROVE Sound(d)
  <2>1. /\ hook[d] = "new" /\ evt[d] = NoRow /\ applied[d] = NoRow /\ mstate[d] = "idle"
        /\ sess[d].state = "idle"
    BY HookConstants, EndedTyped DEF HookInit, MarkInit
  <2>2. QED
    BY <2>1 DEF Sound, Idle, Carries, Answers2xx, Targets, Writes
<1>6. QED
  BY <1>2, <1>3, <1>4, <1>5 DEF HookInv

LEMMA TurnAwayStep == ASSUME HookInv, NEW d \in Caller, TurnAway(d) PROVE HookInv'
<1>1. /\ hook[d] = "new" /\ hook' = [hook EXCEPT ![d] = "refused"]
      /\ UNCHANGED vaultVars /\ UNCHANGED markVars /\ UNCHANGED evt /\ UNCHANGED seen /\ UNCHANGED applied
  BY DEF TurnAway, Goto
<1>2. hook'[d] = "refused" /\ UNCHANGED mstate /\ UNCHANGED sess
  BY <1>1 DEF HookInv, HookDomains, markVars, vaultVars
<1>3. Sound(d)'
  BY <1>1, <1>2 DEF HookInv, Sound, Idle, Carries, Answers2xx, Targets, Writes
<1>4. QED
  BY <1>1, <1>3, QuietDelivery DEF HookInv, HookDomains, HookType, Answered

LEMMA DeliverStep == ASSUME HookInv, NEW d \in Caller, Deliver(d) PROVE HookInv'
<1>1. PICK e \in Event : evt' = [evt EXCEPT ![d] = e] /\ MarkBegin(d, EventKey(e))
  BY DEF Deliver
<1>2. /\ hook[d] = "new" /\ hook' = [hook EXCEPT ![d] = "mark"]
      /\ UNCHANGED vaultVars /\ UNCHANGED seen /\ UNCHANGED applied
  BY DEF Deliver, Goto
<1>3. EventKey(e) \in Key
  BY HookConstants
<1>4. /\ MarkInv' /\ Claimants'
      /\ \A c \in Caller \ {d} : mstate'[c] = mstate[c] /\ mkey'[c] = mkey[c]
  BY <1>1, <1>3, ClaimEffect DEF HookInv
<1>5. /\ hook'[d] = "mark" /\ evt'[d] = e /\ mstate'[d] = "insert" /\ mkey'[d] = EventKey(e)
      /\ applied'[d] = NoRow /\ sess' = sess /\ sess[d].state # "loaded"
  BY <1>1, <1>2 DEF HookInv, HookDomains, MarkInv, MarkTypeOK, MarkBegin, Sound, Idle, Writes, vaultVars
<1>6. HookDomains'
  BY <1>1, <1>2 DEF HookInv, HookDomains, HookType
<1>7. Sound(d)'
  BY <1>5 DEF Sound, Idle, Carries, Answers2xx, Targets, Writes, EventKey, BaseId
<1>8. \A c \in Caller \ {d} :
           /\ hook'[c] = hook[c] /\ evt'[c] = evt[c] /\ seen'[c] = seen[c]
           /\ applied'[c] = applied[c] /\ mstate'[c] = mstate[c] /\ mkey'[c] = mkey[c]
           /\ sess'[c] = sess[c]
  BY <1>1, <1>2, <1>4, <1>5 DEF HookInv, HookDomains
<1>9. QED
  BY <1>2, <1>4, <1>6, <1>7, <1>8, OtherDeliveries

LEMMA ClaimStep == ASSUME HookInv, NEW d \in Caller, Claim(d) PROVE HookInv'
<1>1. hook[d] = "mark" /\ MarkStep(d) /\ UNCHANGED vaultVars /\ UNCHANGED <<hook, evt, seen, applied>>
  BY DEF Claim, hookVars
<1>2. /\ MarkInv' /\ Claimants'
      /\ \A c \in Caller \ {d} : mstate'[c] = mstate[c] /\ mkey'[c] = mkey[c]
  BY <1>1, ClaimEffect DEF HookInv
<1>3. mstate[d] # "true" /\ mkey'[d] = mkey[d]
  BY <1>1 DEF MarkStep, MarkInsert, MarkSeen
<1>4. sess' = sess /\ applied[d] = NoRow
  BY <1>1, <1>3 DEF HookInv, Sound, Answers2xx, vaultVars
<1>5. Sound(d)'
  BY <1>1, <1>3, <1>4 DEF HookInv, Sound, Idle, Carries, Answers2xx, Targets, Writes, EventKey, BaseId
<1>6. HookDomains'
  BY <1>1 DEF HookInv, HookDomains
<1>7. QED
  BY <1>1, <1>2, <1>4, <1>5, <1>6, OtherDeliveries

LEMMA AfterMarkStep == ASSUME HookInv, NEW d \in Caller, AfterMark(d) PROVE HookInv'
<1>1. /\ hook[d] = "mark"
      /\ UNCHANGED vaultVars /\ UNCHANGED markVars /\ UNCHANGED evt /\ UNCHANGED seen /\ UNCHANGED applied
  BY DEF AfterMark
<1>2. PICK where \in {"load", "not_applied", "already_processed", "raised"} :
        /\ hook' = [hook EXCEPT ![d] = where]
        /\ where = "load" => mstate[d] = "true" /\ evt[d].type \in Applyable /\ Target(d) # NoRow
        /\ where = "already_processed" => mstate[d] = "false"
  BY DEF AfterMark, Goto, Target
<1>3. hook'[d] = where /\ where \in HookType /\ mstate' = mstate /\ mkey' = mkey /\ sess' = sess
  BY <1>1, <1>2 DEF HookInv, HookDomains, HookType, Answered, markVars, vaultVars
<1>4. evt[d] \in Event /\ mkey[d] = EventKey(evt[d])
  BY <1>1 DEF HookInv, Sound, Carries
<1>5. where = "load" => Target(d) \in MandateId
  BY <1>2, <1>4, HookConstants DEF Target
<1>6. Sound(d)'
  BY <1>1, <1>2, <1>3, <1>4, <1>5
     DEF HookInv, Sound, Idle, Carries, Answers2xx, Targets, Target, ResolveMandate, Writes, EventKey, BaseId
<1>7. QED
  BY <1>1, <1>2, <1>3, <1>6, QuietDelivery DEF HookInv, HookDomains

LEMMA LoadStep == ASSUME HookInv, NEW d \in Caller, LoadMandate(d) PROVE HookInv'
<1> DEFINE row == mandates[Target(d)]
<1>1. /\ hook[d] = "load"
      /\ UNCHANGED vaultVars /\ UNCHANGED markVars /\ UNCHANGED evt /\ UNCHANGED applied
      /\ \/ row = NoRow /\ Goto(d, "not_applied") /\ UNCHANGED seen
         \/ row # NoRow /\ Goto(d, "store") /\ seen' = [seen EXCEPT ![d] = row.payload]
  BY DEF LoadMandate, Target
<1>2. row \in Row \cup {NoRow}
  BY <1>1 DEF HookInv, Sound, Targets, VaultInv, TypeOK
<1>3. row # NoRow => row.payload \in Payload
  BY <1>2 DEF Row
<1>4. mstate' = mstate /\ mkey' = mkey /\ sess' = sess /\ mandates' = mandates
  BY <1>1 DEF markVars, vaultVars
<1>5. CASE row = NoRow /\ Goto(d, "not_applied") /\ UNCHANGED seen
  <2>1. hook' = [hook EXCEPT ![d] = "not_applied"] /\ hook'[d] = "not_applied"
    BY <1>5 DEF Goto, HookInv, HookDomains
  <2>2. Sound(d)'
    BY <1>1, <1>4, <1>5, <2>1
       DEF HookInv, Sound, Idle, Carries, Answers2xx, Targets, Writes, EventKey, BaseId
  <2>3. QED
    BY <1>1, <1>5, <2>1, <2>2, QuietDelivery DEF HookInv, HookDomains, HookType, Answered
<1>6. CASE row # NoRow /\ Goto(d, "store") /\ seen' = [seen EXCEPT ![d] = row.payload]
  <2>1. hook' = [hook EXCEPT ![d] = "store"] /\ hook'[d] = "store"
    BY <1>6 DEF Goto, HookInv, HookDomains
  <2>2. /\ seen' \in [Caller -> Payload \cup {NoRow}] /\ seen'[d] \in Payload
        /\ \A c \in Caller \ {d} : seen'[c] = seen[c]
    BY <1>3, <1>6 DEF HookInv, HookDomains
  <2>3. Target(d)' = Target(d) /\ mandates'[Target(d)] # NoRow
    BY <1>1, <1>4, <1>6 DEF Target, ResolveMandate
  <2>4. Sound(d)'
    BY <1>1, <1>4, <2>1, <2>2, <2>3
       DEF HookInv, Sound, Idle, Carries, Answers2xx, Targets, Writes, EventKey, BaseId
  <2>5. QED
    BY <1>1, <2>1, <2>2, <2>4, QuietDelivery DEF HookInv, HookDomains, HookType
<1>7. QED
  BY <1>1, <1>5, <1>6

(* A step of the delivery's own session, on which the others are built.    *)
LEMMA SessionStep ==
  ASSUME HookInv, NEW d \in Caller, NEW where \in HookType,
         StoreStep(d), hook' = [hook EXCEPT ![d] = where],
         UNCHANGED markVars, UNCHANGED evt, UNCHANGED seen, UNCHANGED applied,
         \A c \in Caller \ {d} : sess'[c] = sess[c],
         Sound(d)'
  PROVE  HookInv'
<1>1. [Next]_vaultVars
  BY HookConstants DEF Next, OperatorStep
<1>2. MarkInv' /\ Claimants' /\ HookDomains'
  BY MarkStepInv DEF HookInv, Claimants, HookDomains, markVars
<1>3. \A c \in Caller \ {d} :
           /\ hook'[c] = hook[c] /\ evt'[c] = evt[c] /\ seen'[c] = seen[c]
           /\ applied'[c] = applied[c] /\ mstate'[c] = mstate[c] /\ mkey'[c] = mkey[c]
           /\ sess'[c] = sess[c]
  BY DEF HookInv, HookDomains, markVars
<1>4. QED
  BY <1>1, <1>2, <1>3, OtherDeliveries

(* A session that was opened on a Mandate revoked meanwhile is refused;    *)
(* else it has loaded the row, and will write the event over it.           *)
LEMMA BeginApplyStep == ASSUME HookInv, NEW d \in Caller, BeginApply(d) PROVE HookInv'
<1> DEFINE m == Target(d)
           p == Updated(seen[d], evt[d])
<1>1. /\ hook[d] = "store" /\ StoreRead(d, m, p)
      /\ Goto(d, IF Revoked(m) THEN "raised" ELSE "commit")
      /\ UNCHANGED markVars /\ UNCHANGED evt /\ UNCHANGED seen /\ UNCHANGED applied
  BY DEF BeginApply, Target
<1>2. /\ evt[d] \in Event /\ m \in MandateId /\ seen[d] \in Payload /\ mandates[m] # NoRow
      /\ evt[d].type \in Applyable /\ mstate[d] = "true" /\ mkey[d] = EventKey(evt[d])
  BY <1>1 DEF HookInv, Sound, Carries, Targets, Answers2xx
<1>3. p \in Payload /\ d \in Session
  BY <1>2, HookConstants
<1>4. StoreStep(d)
  BY <1>1, <1>2, <1>3 DEF StoreStep
<1>5. mstate' = mstate /\ mkey' = mkey /\ mandates' = mandates
  BY <1>1 DEF markVars, StoreRead
<1>6. Target(d)' = m /\ Updated(seen[d], evt[d])' = p
  <2>1. seen'[d] = seen[d] /\ evt'[d] = evt[d]
    BY <1>1
  <2>2. Target(d)' = m
    BY <2>1 DEF Target, ResolveMandate
  <2>3. Updated(seen[d], evt[d])' = p
    BY <2>1, Zenon DEF Updated, StatusFor
  <2>4. QED
    BY <2>2, <2>3
<1>7. CASE Revoked(m)
  <2>1. hook' = [hook EXCEPT ![d] = "raised"] /\ sess' = [sess EXCEPT ![d] = Ended("refused")]
    BY <1>1, <1>7 DEF Goto, StoreRead
  <2>2. hook'[d] = "raised" /\ sess'[d].state # "loaded" /\ \A c \in Caller \ {d} : sess'[c] = sess[c]
    BY <1>3, <2>1, EndedTyped DEF HookInv, HookDomains, VaultInv, TypeOK
  <2>3. Sound(d)'
    BY <1>1, <1>2, <1>5, <2>2
       DEF HookInv, Sound, Idle, Carries, Answers2xx, Targets, Writes, EventKey, BaseId
  <2>4. QED
    BY <1>1, <1>4, <2>1, <2>2, <2>3, SessionStep DEF HookType, Answered
<1>8. CASE ~Revoked(m)
  <2>1. hook' = [hook EXCEPT ![d] = "commit"] /\ sess' = [sess EXCEPT ![d] = Loading(m, p)]
    BY <1>1, <1>8 DEF Goto, StoreRead
  <2>2. /\ hook'[d] = "commit" /\ sess'[d] = Loading(m, p)
        /\ \A c \in Caller \ {d} : sess'[c] = sess[c]
    BY <1>3, <2>1 DEF HookInv, HookDomains, VaultInv, TypeOK
  <2>3. /\ sess'[d].state = "loaded" /\ sess'[d].id = m /\ sess'[d].new = p
        /\ sess'[d].loaded = mandates[m]
    BY <2>2 DEF Loading
  <2> HIDE DEF m, p
  <2>4. Idle(d)' /\ Carries(d)' /\ Answers2xx(d)'
    BY <1>1, <1>2, <1>5, <2>2 DEF HookInv, Sound, Idle, Carries, Answers2xx, EventKey, BaseId
  <2>5. Targets(d)'
    BY <1>1, <1>2, <1>5, <1>6, <2>2 DEF Targets
  <2>6. Writes(d)'
    BY <1>2, <1>6, <2>2, <2>3 DEF Writes
  <2>7. QED
    BY <1>1, <1>4, <2>1, <2>2, <2>4, <2>5, <2>6, SessionStep DEF HookType, Sound
<1>9. QED
  BY <1>7, <1>8

LEMMA CommitApplyStep == ASSUME HookInv, NEW d \in Caller, CommitApply(d) PROVE HookInv'
<1>1. /\ hook[d] = "commit" /\ StoreCommit(d) /\ hook' = [hook EXCEPT ![d] = "log"]
      /\ UNCHANGED markVars /\ UNCHANGED evt /\ UNCHANGED seen /\ UNCHANGED applied
  BY DEF CommitApply, Goto
<1>2. /\ evt[d] \in Event /\ Target(d) \in MandateId /\ seen[d] \in Payload
      /\ evt[d].type \in Applyable /\ mstate[d] = "true" /\ mkey[d] = EventKey(evt[d])
  BY <1>1 DEF HookInv, Sound, Carries, Targets, Answers2xx
<1>3. sess' = [sess EXCEPT ![d] = Ended("conflict")] \/ sess' = [sess EXCEPT ![d] = Ended("stored")]
  BY <1>1 DEF StoreCommit
<1>4. sess'[d].state # "loaded" /\ \A c \in Caller \ {d} : sess'[c] = sess[c]
  BY <1>3, EndedTyped, HookConstants DEF HookInv, VaultInv, TypeOK
<1>5. hook'[d] = "log" /\ mstate' = mstate /\ mkey' = mkey /\ StoreStep(d)
  BY <1>1 DEF HookInv, HookDomains, markVars, StoreStep
<1>6. Target(d)' = Target(d)
  BY <1>1 DEF Target, ResolveMandate
<1>7. Sound(d)'
  BY <1>1, <1>2, <1>4, <1>5, <1>6
     DEF HookInv, Sound, Idle, Carries, Answers2xx, Targets, Writes, EventKey, BaseId
<1>8. QED
  BY <1>1, <1>4, <1>5, <1>7, SessionStep DEF HookType

LEMMA LogApplyStep == ASSUME HookInv, NEW d \in Caller, LogApply(d) PROVE HookInv'
<1> DEFINE row == [key |-> EventKey(evt[d]), status |-> StatusFor(evt[d]), mandate |-> Target(d)]
<1>1. /\ hook[d] = "log" /\ hook' = [hook EXCEPT ![d] = "reply"]
      /\ applied' = [applied EXCEPT ![d] = row]
      /\ UNCHANGED vaultVars /\ UNCHANGED markVars /\ UNCHANGED evt /\ UNCHANGED seen
  BY DEF LogApply, Goto, Target
<1>2. /\ evt[d] \in Event /\ Target(d) \in MandateId /\ mstate[d] = "true"
      /\ mkey[d] = EventKey(evt[d])
  BY <1>1 DEF HookInv, Sound, Carries, Targets, Answers2xx
<1>3. row \in HookEntry /\ row # NoRow /\ row.key = mkey[d]
  <2>1. EventKey(evt[d]) \in Key /\ StatusFor(evt[d]) \in {"captured", "failed"}
    BY <1>2, HookConstants DEF StatusFor
  <2>2. row \in HookEntry /\ row.key = EventKey(evt[d])
    BY <1>2, <2>1 DEF HookEntry
  <2>3. QED
    BY <1>2, <2>2, HookConstants
<1> HIDE DEF row
<1>4. /\ hook'[d] = "reply" /\ applied'[d] = row /\ mstate' = mstate /\ mkey' = mkey /\ sess' = sess
      /\ applied' \in [Caller -> HookEntry \cup {NoRow}]
      /\ \A c \in Caller \ {d} : applied'[c] = applied[c]
  BY <1>1, <1>3 DEF HookInv, HookDomains, markVars, vaultVars
<1>5. Sound(d)'
  BY <1>1, <1>2, <1>3, <1>4
     DEF HookInv, Sound, Idle, Carries, Answers2xx, Targets, Writes, EventKey, BaseId
<1>6. QED
  BY <1>1, <1>4, <1>5, QuietDelivery DEF HookInv, HookDomains, HookType

LEMMA AcknowledgeStep == ASSUME HookInv, NEW d \in Caller, Acknowledge(d) PROVE HookInv'
<1>1. /\ hook[d] = "reply" /\ hook' = [hook EXCEPT ![d] = "applied"]
      /\ UNCHANGED vaultVars /\ UNCHANGED markVars /\ UNCHANGED evt /\ UNCHANGED seen /\ UNCHANGED applied
  BY DEF Acknowledge, Goto
<1>2. hook'[d] = "applied" /\ mstate' = mstate /\ mkey' = mkey /\ sess' = sess
  BY <1>1 DEF HookInv, HookDomains, markVars, vaultVars
<1>3. Sound(d)'
  BY <1>1, <1>2 DEF HookInv, Sound, Idle, Carries, Answers2xx, Targets, Writes, EventKey, BaseId
<1>4. QED
  BY <1>1, <1>3, QuietDelivery DEF HookInv, HookDomains, HookType, Answered

LEMMA CallFailsStep == ASSUME HookInv, NEW d \in Caller, CallFails(d) PROVE HookInv'
<1>1. /\ hook[d] \in {"load", "store", "commit", "log"} /\ hook' = [hook EXCEPT ![d] = "raised"]
      /\ hook[d] = "commit" => StoreAbort(d)
      /\ hook[d] # "commit" => UNCHANGED vaultVars
      /\ UNCHANGED markVars /\ UNCHANGED evt /\ UNCHANGED seen /\ UNCHANGED applied
  BY DEF CallFails, Goto
<1>2. hook'[d] = "raised" /\ mstate' = mstate /\ mkey' = mkey
  BY <1>1 DEF HookInv, HookDomains, markVars
<1>3. evt[d] \in Event /\ mkey[d] = EventKey(evt[d])
  BY <1>1 DEF HookInv, Sound, Carries
<1>4. CASE hook[d] = "commit"
  <2>1. sess' = [sess EXCEPT ![d] = Ended("idle")]
    BY <1>1, <1>4 DEF StoreAbort
  <2>2. sess'[d].state # "loaded" /\ \A c \in Caller \ {d} : sess'[c] = sess[c]
    BY <2>1, EndedTyped, HookConstants DEF HookInv, VaultInv, TypeOK
  <2>3. Sound(d)'
    BY <1>1, <1>2, <1>3, <2>2
       DEF HookInv, Sound, Idle, Carries, Answers2xx, Targets, Writes, EventKey, BaseId
  <2>4. QED
    BY <1>1, <1>4, <2>2, <2>3, SessionStep DEF HookType, Answered, StoreStep
<1>5. CASE hook[d] # "commit"
  <2>1. sess' = sess
    BY <1>1, <1>5 DEF vaultVars
  <2>2. Sound(d)'
    BY <1>1, <1>2, <1>3, <1>5, <2>1
       DEF HookInv, Sound, Idle, Carries, Answers2xx, Targets, Writes, EventKey, BaseId
  <2>3. QED
    BY <1>1, <1>5, <2>2, QuietDelivery DEF HookInv, HookDomains, HookType, Answered
<1>6. QED
  BY <1>4, <1>5

(* A restart: what was under way is lost, claims and rows stay.            *)
LEMMA HookCrashStep == ASSUME HookInv, HookCrash PROVE HookInv'
<1>1. /\ hook' = [d \in Caller |-> IF InFlight(d) THEN "lost" ELSE hook[d]]
      /\ mstate' = [d \in Caller |-> IF mstate[d] \in {"insert", "check"} THEN "aborted" ELSE mstate[d]]
      /\ sess' = [s \in Session |-> Ended("idle")]
      /\ UNCHANGED <<mandates, denylist, now, claimed, mkey, tries, evt, seen, applied>>
  BY DEF HookCrash
<1>2. VaultInv'
  BY <1>1, SessionsEnd DEF HookInv
<1>3. MarkInv' /\ Claimants'
  <2>1. /\ MarkTypeOK /\ AnsweredClaimed /\ OneClaimant /\ Claimants
        /\ claimed' = claimed /\ mkey' = mkey /\ tries' = tries
    BY <1>1 DEF HookInv, MarkInv
  <2>2. \A c \in Caller : /\ mstate'[c] \in {"true", "false"} <=> mstate[c] \in {"true", "false"}
                          /\ mstate'[c] = "true" <=> mstate[c] = "true"
    BY <1>1
  <2>3. MarkTypeOK'
    BY <1>1, <2>1 DEF MarkTypeOK
  <2>4. AnsweredClaimed' /\ OneClaimant' /\ Claimants'
    BY <2>1, <2>2 DEF AnsweredClaimed, OneClaimant, Claimants
  <2>5. QED
    BY <2>3, <2>4 DEF MarkInv
<1>4. HookDomains'
  BY <1>1 DEF HookInv, HookDomains, HookType, Answered
<1>5. ASSUME NEW d \in Caller PROVE Sound(d)'
  <2>a. sess'[d].state # "loaded"
    BY <1>1, EndedTyped, HookConstants
  <2>b. mstate[d] \in {"true", "false", "idle"} => mstate'[d] = mstate[d]
    BY <1>1
  <2>1. /\ sess'[d].state # "loaded" /\ mkey' = mkey /\ evt' = evt /\ applied' = applied
        /\ mstate[d] \in {"true", "false", "idle"} => mstate'[d] = mstate[d]
    BY <1>1, <2>a, <2>b
  <2>2. CASE ~InFlight(d)
    BY <1>1, <2>1, <2>2 DEF HookInv, Sound, Idle, Carries, Answers2xx, Targets, Writes,
       EventKey, BaseId, InFlight, Answered
  <2>3. CASE InFlight(d)
    <3>1. hook'[d] = "lost"
      BY <1>1, <2>3
    <3>2. QED
      BY <2>1, <2>3, <3>1 DEF HookInv, Sound, Idle, Carries, Answers2xx, Targets, Writes,
         EventKey, BaseId, InFlight, Answered
  <2>4. QED
    BY <1>1, <2>2, <2>3
<1>6. QED
  BY <1>2, <1>3, <1>4, <1>5 DEF HookInv

(* Operators and the clock work through other sessions.                    *)
LEMMA OperatorSide ==
  ASSUME HookInv, OperatorStep(Session \ Caller), UNCHANGED markVars, UNCHANGED hookVars
  PROVE  HookInv' /\ [Next]_vaultVars
<1>1. [Next]_vaultVars
  BY DEF Next, OperatorStep
<1>2. \A c \in Caller : sess'[c] = sess[c]
  BY HookConstants DEF OperatorStep, StoreStep, StoreRead, StoreCommit, StoreAbort, RevokeMandate,
     AddToDenylist, Tick, HookInv, VaultInv, TypeOK
<1>3. /\ VaultInv' /\ \A m \in MandateId : mandates[m] # NoRow => mandates'[m] # NoRow
  BY <1>1, VaultStep, RowsPersist DEF HookInv
<1>4. UNCHANGED <<hook, evt, seen, applied>> /\ UNCHANGED <<claimed, mstate, mkey, tries>>
  BY DEF hookVars, markVars
<1>5. MarkInv' /\ Claimants' /\ HookDomains'
  BY <1>4, MarkStepInv DEF HookInv, Claimants, HookDomains, markVars
<1>6. ASSUME NEW c \in Caller PROVE Sound(c)'
  BY <1>2, <1>3, <1>4, DeliveryFrame
<1>7. QED
  BY <1>1, <1>3, <1>5, <1>6 DEF HookInv

LEMMA DeliveryKeeps == ASSUME HookInv, NEW d \in Caller, DeliveryStep(d) PROVE HookInv'
  BY TurnAwayStep, DeliverStep, ClaimStep, AfterMarkStep, LoadStep, BeginApplyStep, CommitApplyStep,
     LogApplyStep, AcknowledgeStep, CallFailsStep DEF DeliveryStep, HandlerStep

LEMMA HookStill == ASSUME HookInv, UNCHANGED webhookVars PROVE HookInv'
<1>1. UNCHANGED vaultVars /\ UNCHANGED markVars /\ UNCHANGED <<hook, evt, seen, applied>>
  BY DEF webhookVars, hookVars
<1>2. VaultInv' /\ MarkInv'
  BY <1>1, VaultStep, MarkStepInv DEF HookInv
<1>3. Claimants' /\ HookDomains'
  BY <1>1 DEF HookInv, Claimants, HookDomains, markVars
<1>4. ASSUME NEW c \in Caller PROVE Sound(c)'
  BY <1>1, DeliveryFrame DEF vaultVars, markVars
<1>5. QED
  BY <1>2, <1>3, <1>4 DEF HookInv

LEMMA HookStep == ASSUME HookInv, [HookNext]_webhookVars PROVE HookInv'
<1>1. CASE OperatorStep(Session \ Caller) /\ UNCHANGED <<markVars, hookVars>>
  BY <1>1, OperatorSide
<1>2. QED
  BY <1>1, DeliveryKeeps, HookCrashStep, HookStill DEF HookNext

LEMMA HookAlways == HookSpec => []HookInv
  BY HookInitInv, HookStep, PTL DEF HookSpec

-----------------------------------------------------------------------------
(* Deliveries, claims and the Vault stay in their domains, and each await  *)
(* finds what it rests on.                                                 *)
THEOREM HookTyped == HookSpec => []HookTypeOK
  BY HookTypes, HookAlways, PTL

(* One webhook.apply row per event, for any number of redeliveries,        *)
(* restarts and failing calls.                                             *)
THEOREM EventsApplyOnce == HookSpec => []AppliedAtMostOnce
<1>1. HookInv => AppliedAtMostOnce
  BY DEF HookInv, MarkInv, OneClaimant, Sound, Answers2xx, AppliedAtMostOnce
<1>2. QED
  BY <1>1, HookAlways, PTL

(* A delivery turned away as a duplicate has a claimant, and what became   *)
(* of that one is known.                                                   *)
THEOREM DuplicatesHaveAClaimant == HookSpec => []DuplicatesAreHandled
<1>1. ASSUME HookInv, NEW d \in Caller, hook[d] = "already_processed"
      PROVE  \E c \in Caller \ {d} :
               /\ evt[c] # NoRow /\ EventKey(evt[c]) = EventKey(evt[d]) /\ mstate[c] = "true"
               /\ \/ InFlight(c) \/ hook[c] \in {"not_applied", "raised", "lost"}
                  \/ hook[c] = "applied" /\ applied[c] # NoRow
  <2>1. mstate[d] = "false" /\ mkey[d] = EventKey(evt[d])
    BY <1>1 DEF HookInv, Sound, Carries, Answers2xx
  <2>2. mkey[d] \in claimed
    BY <1>1, <2>1 DEF HookInv, MarkInv, AnsweredClaimed
  <2>3. PICK c \in Caller : mstate[c] = "true" /\ mkey[c] = mkey[d]
    BY <1>1, <2>2 DEF HookInv, Claimants
  <2>4. hook[c] \in HookType \ {"new", "refused", "already_processed"}
    BY <1>1, <2>3 DEF HookInv, HookDomains, Sound, Idle, Answers2xx
  <2>5. evt[c] \in Event /\ mkey[c] = EventKey(evt[c]) /\ (hook[c] = "applied" => applied[c] # NoRow)
    BY <1>1, <2>4 DEF HookInv, Sound, Carries, Answers2xx
  <2>6. c # d /\ evt[c] # NoRow /\ EventKey(evt[c]) = EventKey(evt[d])
    BY <2>1, <2>3, <2>5, HookConstants
  <2>7. InFlight(c) \/ hook[c] \in {"not_applied", "raised", "lost", "applied"}
    BY <2>4 DEF InFlight, HookType, Answered
  <2>8. QED
    BY <2>3, <2>5, <2>6, <2>7
<1>2. HookInv => DuplicatesAreHandled
  BY <1>1 DEF DuplicatesAreHandled
<1>3. QED
  BY <1>2, HookAlways, PTL

-----------------------------------------------------------------------------
(* What an event changes in the Mandate it read.                           *)
LEMMA UpdateKeeps ==
  ASSUME NEW p \in Payload, NEW e
  PROVE  /\ Updated(p, e).agent = p.agent /\ Updated(p, e).exp = p.exp
         /\ Bounds(Updated(p, e)) = Bounds(p)
  BY HookConstants DEF Updated, Bounds

(* What the flush of an event leaves of the row.                           *)
LEMMA EventFlush ==
  ASSUME HookInv, NEW d \in Caller, CommitApply(d)
  PROVE  LET m == Target(d) IN
           /\ mandates'[m].revoked = mandates[m].revoked
           /\ mandates'[m].agent \in {mandates[m].agent, seen[d].agent}
           /\ mandates'[m].exp \in {mandates[m].exp, seen[d].exp}
           /\ Bounds(mandates'[m].payload) \in {Bounds(mandates[m].payload), Bounds(seen[d])}
<1> DEFINE m == Target(d)
           p == Updated(seen[d], evt[d])
           old == sess[d].loaded
           row == Flush(NewRow(p), old, mandates[m])
<1>1. hook[d] = "commit" /\ StoreCommit(d)
  BY DEF CommitApply
<1>2. /\ m \in MandateId /\ mandates[m] # NoRow /\ seen[d] \in Payload
      /\ sess[d].id = m /\ sess[d].new = p /\ old # NoRow /\ sess[d].state = "loaded"
  BY <1>1 DEF HookInv, Sound, Targets, Writes
<1>3. mandates[m] \in Row /\ old \in Row /\ ~old.revoked /\ p \in Payload
  BY <1>2, HookConstants DEF HookInv, VaultInv, TypeOK
<1>4. mandates' = [mandates EXCEPT ![m] = row]
  BY <1>1, <1>2 DEF StoreCommit
<1>5. mandates'[m] = row
  BY <1>2, <1>4 DEF HookInv, VaultInv, TypeOK
<1>6. /\ p.agent = seen[d].agent /\ p.exp = seen[d].exp /\ Bounds(p) = Bounds(seen[d])
  BY <1>2, UpdateKeeps
<1> HIDE DEF m, p, old
<1>7. /\ row.revoked = Dirty(FALSE, old.revoked, mandates[m].revoked)
      /\ row.agent \in {p.agent, mandates[m].agent} /\ row.exp \in {p.exp, mandates[m].exp}
      /\ row.payload \in {p, mandates[m].payload}
  BY DEF Flush, Dirty, NewRow
<1>8. row.revoked = mandates[m].revoked
  BY <1>3, <1>7 DEF Dirty, Row
<1> HIDE DEF row
<1>9. Bounds(row.payload) \in {Bounds(seen[d]), Bounds(mandates[m].payload)}
  BY <1>6, <1>7
<1>10. QED
  BY <1>5, <1>6, <1>7, <1>8, <1>9 DEF m

(* An event rewrites no bound but to what it read, and revives nothing.    *)
THEOREM EventsWriteThePayment == HookSpec => EventKeepsBounds
<1>1. ASSUME HookInv, HookNext, NEW d \in Caller, hook[d] = "commit", hook'[d] = "log"
      PROVE  CommitApply(d)
  <2>1. hook' # hook /\ ~HookCrash
    BY <1>1 DEF HookCrash, InFlight, Answered
  <2>2. PICK c \in Caller : DeliveryStep(c)
    BY <1>1, <2>1 DEF HookNext, hookVars
  <2>3. \E where : hook' = [hook EXCEPT ![c] = where]
    BY <2>1, <2>2 DEF DeliveryStep, HandlerStep, TurnAway, Deliver, Claim, AfterMark, LoadMandate,
       BeginApply, CommitApply, LogApply, Acknowledge, CallFails, Goto, hookVars
  <2>4. c = d
    BY <1>1, <2>3 DEF HookInv, HookDomains
  <2>5. ~CallFails(d)
    BY <1>1 DEF CallFails, Goto, HookInv, HookDomains
  <2>6. QED
    BY <1>1, <2>2, <2>4, <2>5 DEF DeliveryStep, HandlerStep, TurnAway, Deliver, Claim, AfterMark,
       LoadMandate, BeginApply, LogApply, Acknowledge
<1>2. HookInv /\ [HookNext]_webhookVars =>
        [\A d \in Caller : hook[d] = "commit" /\ hook'[d] = "log" =>
           LET m == ResolveMandate(evt[d]) IN
             /\ mandates'[m].revoked = mandates[m].revoked
             /\ mandates'[m].agent \in {mandates[m].agent, seen[d].agent}
             /\ mandates'[m].exp \in {mandates[m].exp, seen[d].exp}
             /\ Bounds(mandates'[m].payload) \in {Bounds(mandates[m].payload), Bounds(seen[d])}
        ]_webhookVars
  BY <1>1, EventFlush DEF Target
<1>3. QED
  BY <1>2, HookAlways, PTL DEF HookSpec, EventKeepsBounds

-----------------------------------------------------------------------------
(* Mandate and Audit.  What stands on a Mandate was written by a delivery  *)
(* that has its row, is about to write it, or failed; and a delivery that  *)
(* wrote, or that loaded a Mandate already paid for, leaves it paid for.   *)
Wrote(d) == hook[d] \in {"log", "raised", "lost"} \/ applied[d] # NoRow
Shows(d, m) == /\ evt[d] # NoRow /\ ResolveMandate(evt[d]) = m
               /\ StatusFor(evt[d]) = PaymentStatus(m) /\ evt[d].payment = mandates[m].payload.last
               /\ Wrote(d)
HasItsRow == \A m \in MandateId : PaymentStatus(m) # "none" => \E d \in Caller : Shows(d, m)
Backed(d) ==
  /\ hook[d] = "log" => PaymentStatus(Target(d)) # "none"
  /\ applied[d] # NoRow => applied[d].mandate = Target(d) /\ PaymentStatus(Target(d)) # "none"
  /\ hook[d] = "commit" /\ sess[d].loaded.payload.status # "none" => PaymentStatus(Target(d)) # "none"
PaidInv == HasItsRow /\ \A d \in Caller : Backed(d)

LEMMA PaidIsMatched == HookInv /\ PaidInv => TrailMatchesStatus
<1> SUFFICES ASSUME PaidInv, NEW m \in MandateId
             PROVE  /\ PaymentStatus(m) # "none" =>
                         \E d \in Caller : /\ evt[d] # NoRow /\ ResolveMandate(evt[d]) = m
                                           /\ StatusFor(evt[d]) = PaymentStatus(m)
                                           /\ evt[d].payment = mandates[m].payload.last
                                           /\ hook[d] \in {"log", "raised", "lost"} \/ applied[d] # NoRow
                    /\ (\E d \in Caller : applied[d] # NoRow /\ applied[d].mandate = m) =>
                         PaymentStatus(m) # "none"
  BY Zenon DEF TrailMatchesStatus
<1>1. ASSUME PaymentStatus(m) # "none" PROVE \E d \in Caller : Shows(d, m)
  BY <1>1 DEF PaidInv, HasItsRow
<1>2. ASSUME NEW d \in Caller, applied[d] # NoRow, applied[d].mandate = m
      PROVE  PaymentStatus(m) # "none"
  BY <1>2 DEF PaidInv, Backed
<1>3. QED
  BY <1>1, <1>2, Zenon DEF Shows, Wrote

(* A delivery that carries an event goes on carrying it.                   *)
LEMMA BackedFrame ==
  ASSUME HookInv, NEW c \in Caller, Backed(c),
         \A m \in MandateId : PaymentStatus(m) # "none" => PaymentStatus(m)' # "none",
         evt[c] # NoRow => evt'[c] = evt[c],
         hook'[c] = "log" => hook[c] = "log",
         applied'[c] # NoRow => \/ applied'[c] = applied[c]
                                \/ hook[c] = "log" /\ applied'[c].mandate = Target(c),
         hook'[c] = "commit" => \/ hook[c] = "commit" /\ sess'[c] = sess[c]
                                \/ /\ hook[c] = "store" /\ sess'[c].loaded = mandates[Target(c)]
                                   /\ mandates[Target(c)] # NoRow
  PROVE  Backed(c)'
<1>1. \/ hook[c] \in {"log", "commit", "store"} \/ applied[c] # NoRow => Target(c)' = Target(c)
  BY HookConstants DEF HookInv, Sound, Carries, Idle, Target, ResolveMandate
<1>2. applied'[c] # NoRow => hook[c] = "log" \/ applied[c] # NoRow
  OBVIOUS
<1>3. hook[c] \in {"log", "commit", "store"} \/ applied[c] # NoRow => Target(c) \in MandateId
  <2>1. hook[c] \in {"log", "commit", "store"} => Target(c) \in MandateId
    BY DEF HookInv, Sound, Targets
  <2>2. applied[c] # NoRow => applied[c].mandate \in MandateId
    BY DEF HookInv, HookDomains, HookEntry
  <2>3. QED
    BY <2>1, <2>2 DEF Backed
<1>4. hook'[c] = "log" => PaymentStatus(Target(c))' # "none"
  BY <1>1, <1>3 DEF Backed
<1>5. applied'[c] # NoRow => applied'[c].mandate = Target(c)' /\ PaymentStatus(Target(c))' # "none"
  BY <1>1, <1>2, <1>3 DEF Backed
<1>6. hook'[c] = "commit" /\ sess'[c].loaded.payload.status # "none" => PaymentStatus(Target(c))' # "none"
  BY <1>1, <1>3 DEF Backed, PaymentStatus
<1>7. QED
  BY <1>4, <1>5, <1>6 DEF Backed

(* A step that writes no payload.                                          *)
LEMMA PaidFrame ==
  ASSUME HookInv, PaidInv,
         \A m \in MandateId : /\ mandates'[m] = NoRow <=> mandates[m] = NoRow
                              /\ mandates'[m].payload = mandates[m].payload,
         \A m \in MandateId : PaymentStatus(m) # "none" => PaymentStatus(m)' # "none",
         \A c \in Caller :
           /\ evt[c] # NoRow => evt'[c] = evt[c]
           /\ applied[c] # NoRow => applied'[c] # NoRow
           /\ hook[c] \in {"log", "raised", "lost"} =>
                hook'[c] \in {"log", "raised", "lost"} \/ applied'[c] # NoRow
           /\ hook'[c] = "log" => hook[c] = "log"
           /\ applied'[c] # NoRow => \/ applied'[c] = applied[c]
                                     \/ hook[c] = "log" /\ applied'[c].mandate = Target(c)
           /\ hook'[c] = "commit" => \/ hook[c] = "commit" /\ sess'[c] = sess[c]
                                     \/ /\ hook[c] = "store" /\ sess'[c].loaded = mandates[Target(c)]
                                        /\ mandates[Target(c)] # NoRow
  PROVE  PaidInv'
<1>1. ASSUME NEW m \in MandateId, PaymentStatus(m)' # "none" PROVE \E d \in Caller : Shows(d, m)'
  <2>1. PaymentStatus(m)' = PaymentStatus(m)
    BY DEF PaymentStatus
  <2>2. PICK d \in Caller : Shows(d, m)
    BY <1>1, <2>1 DEF PaidInv, HasItsRow
  <2>3. evt'[d] = evt[d] /\ Wrote(d)'
    BY <2>2 DEF Shows, Wrote
  <2>4. ResolveMandate(evt[d])' = ResolveMandate(evt[d]) /\ StatusFor(evt[d])' = StatusFor(evt[d])
    BY <2>3 DEF ResolveMandate, StatusFor
  <2>5. Shows(d, m)'
    BY <2>1, <2>2, <2>3, <2>4 DEF Shows
  <2>6. QED
    BY <2>5
<1>2. ASSUME NEW c \in Caller PROVE Backed(c)'
  BY BackedFrame DEF PaidInv
<1>3. QED
  BY <1>1, <1>2 DEF PaidInv, HasItsRow

LEMMA PaidInit == HookInit => PaidInv
<1> SUFFICES ASSUME HookInit PROVE PaidInv
  OBVIOUS
<1>1. ASSUME NEW m \in MandateId PROVE PaymentStatus(m) = "none"
  <2>1. mandates[m] \in Unpaid \cup {NoRow}
    BY DEF HookInit
  <2>2. \A row \in Unpaid : row.payload.status = "none"
    BY DEF Unpaid, NewRow
  <2>3. QED
    BY <2>1, <2>2 DEF PaymentStatus
<1>2. QED
  BY <1>1 DEF HookInit, PaidInv, HasItsRow, Backed

(* The delivery's own write.                                               *)
LEMMA PaidCommit ==
  ASSUME HookInv, PaidInv, NEW d \in Caller, CommitApply(d)
  PROVE  PaidInv'
<1>0. PICK m \in MandateId : m = Target(d)
  <2>1. Target(d) \in MandateId
    BY DEF CommitApply, HookInv, Sound, Targets
  <2>2. QED
    BY <2>1
<1> DEFINE p == Updated(seen[d], evt[d])
           old == sess[d].loaded
           row == Flush(NewRow(p), old, mandates[m])
<1>1. /\ hook[d] = "commit" /\ StoreCommit(d) /\ hook' = [hook EXCEPT ![d] = "log"]
      /\ UNCHANGED evt /\ UNCHANGED seen /\ UNCHANGED applied
  BY DEF CommitApply, Goto
<1>2. /\ m \in MandateId /\ mandates[m] # NoRow /\ seen[d] \in Payload /\ evt[d] \in Event
      /\ sess[d].id = m /\ sess[d].new = p /\ old # NoRow /\ sess[d].state = "loaded"
  BY <1>0, <1>1 DEF HookInv, Sound, Targets, Writes, Carries
<1>3. /\ mandates' = [mandates EXCEPT ![m] = row] /\ sess' = [sess EXCEPT ![d] = Ended("stored")]
  BY <1>1, <1>2 DEF StoreCommit
<1>4. mandates'[m] = row /\ (\A x \in MandateId : x # m => mandates'[x] = mandates[x])
      /\ \A c \in Caller \ {d} : sess'[c] = sess[c]
  BY <1>2, <1>3, HookConstants DEF HookInv, VaultInv, TypeOK
<1>5. p.status = StatusFor(evt[d]) /\ p.status # "none" /\ p.last = evt[d].payment
  <2>1. {"status", "last"} \subseteq DOMAIN seen[d]
    BY <1>2, HookConstants
  <2>2. p = [[seen[d] EXCEPT !.status = StatusFor(evt[d])] EXCEPT !.last = evt[d].payment]
    BY DEF Updated
  <2>3. p.status = StatusFor(evt[d]) /\ p.last = evt[d].payment
    BY <2>1, <2>2
  <2>4. StatusFor(evt[d]) # "none"
    BY DEF StatusFor
  <2>5. QED
    BY <2>3, <2>4
<1>6. row # NoRow
  <2>1. p \in Payload
    <3>1. evt[d].type \in Applyable
      BY <1>1 DEF HookInv, Sound, Targets
    <3>2. QED
      BY <1>2, <3>1, HookConstants
  <2>2. NewRow(p) \in Row
    BY <2>1, NewRowTyped
  <2>3. d \in Session
    BY HookConstants
  <2>4. mandates[m] \in Row /\ old \in Row
    BY <1>2, <2>3 DEF HookInv, VaultInv, TypeOK
  <2>5. QED
    BY <2>2, <2>4, FlushTyped, VaultConstants
<1>7. \/ row.payload = p
      \/ row.payload = mandates[m].payload /\ old.payload = p
  BY DEF Flush, Dirty, NewRow
<1> HIDE DEF p, old, row
<1>8. /\ hook'[d] = "log" /\ \A c \in Caller \ {d} : hook'[c] = hook[c]
      /\ evt' = evt /\ applied' = applied
  BY <1>1 DEF HookInv, HookDomains
<1>9. ResolveMandate(evt[d])' = m /\ StatusFor(evt[d])' = StatusFor(evt[d])
  BY <1>0, <1>8 DEF ResolveMandate, StatusFor, Target
<1>10. mandates'[m] # NoRow /\ PaymentStatus(m)' = row.payload.status
  BY <1>4, <1>6 DEF PaymentStatus
<1>11. \A x \in MandateId : x # m => PaymentStatus(x)' = PaymentStatus(x) /\ mandates'[x].payload = mandates[x].payload
  BY <1>4 DEF PaymentStatus
<1>12. PaymentStatus(m)' # "none" /\ \E c \in Caller : Shows(c, m)'
  <2>1. CASE row.payload = p
    <3>1. Shows(d, m)'
      BY <1>2, <1>4, <1>5, <1>8, <1>9, <1>10, <2>1, HookConstants DEF Shows, Wrote
    <3>2. QED
      BY <1>5, <1>10, <2>1, <3>1
  <2>2. CASE row.payload = mandates[m].payload /\ old.payload = p
    <3>1. PaymentStatus(m) # "none"
      BY <1>0, <1>1, <1>5, <2>2 DEF PaidInv, Backed, old
    <3>2. PaymentStatus(m)' = PaymentStatus(m)
      BY <1>2, <1>10, <2>2 DEF PaymentStatus
    <3>3. PICK c \in Caller : Shows(c, m)
      BY <1>2, <3>1 DEF PaidInv, HasItsRow
    <3>4. ResolveMandate(evt[c])' = ResolveMandate(evt[c]) /\ StatusFor(evt[c])' = StatusFor(evt[c])
      BY <1>8 DEF ResolveMandate, StatusFor
    <3>5. Wrote(c)'
      BY <1>8, <3>3 DEF Shows, Wrote
    <3>6. Shows(c, m)'
      BY <1>4, <1>8, <2>2, <3>2, <3>3, <3>4, <3>5 DEF Shows
    <3>7. QED
      BY <3>1, <3>2, <3>6
  <2>3. QED
    BY <1>7, <2>1, <2>2
<1>13. ASSUME NEW x \in MandateId, x # m, PaymentStatus(x)' # "none" PROVE \E c \in Caller : Shows(c, x)'
  <2>1. PICK c \in Caller : Shows(c, x)
    BY <1>11, <1>13 DEF PaidInv, HasItsRow
  <2>2. ResolveMandate(evt[c])' = ResolveMandate(evt[c]) /\ StatusFor(evt[c])' = StatusFor(evt[c])
    BY <1>8 DEF ResolveMandate, StatusFor
  <2>3. Wrote(c)'
    BY <1>8, <2>1 DEF Shows, Wrote
  <2>4. Shows(c, x)'
    BY <1>8, <1>11, <1>13, <2>1, <2>2, <2>3 DEF Shows
  <2>5. QED
    BY <2>4
<1>14. \A x \in MandateId : PaymentStatus(x) # "none" => PaymentStatus(x)' # "none"
  BY <1>11, <1>12
<1>15. ASSUME NEW c \in Caller \ {d} PROVE Backed(c)'
  <2>1. hook'[c] = hook[c] /\ evt'[c] = evt[c] /\ applied'[c] = applied[c] /\ sess'[c] = sess[c]
    BY <1>4, <1>8
  <2>2. QED
    BY <1>14, <2>1, BackedFrame DEF PaidInv
<1>16. Backed(d)'
  <2>1. Target(d)' = m
    BY <1>9 DEF Target
  <2>2. applied[d] # NoRow => applied[d].mandate = m
    BY <1>0 DEF PaidInv, Backed
  <2>3. QED
    BY <1>8, <1>12, <2>1, <2>2 DEF Backed
<1>17. QED
  BY <1>12, <1>13, <1>15, <1>16 DEF PaidInv, HasItsRow

(* A step of delivery d that leaves the table alone.                       *)
LEMMA PaidQuiet ==
  ASSUME HookInv, PaidInv, NEW d \in Caller, UNCHANGED mandates,
         \A c \in Caller \ {d} : /\ hook'[c] = hook[c] /\ evt'[c] = evt[c]
                                /\ applied'[c] = applied[c] /\ sess'[c] = sess[c],
         evt[d] # NoRow => evt'[d] = evt[d],
         \/ applied'[d] = applied[d]
         \/ hook[d] = "log" /\ applied'[d] # NoRow /\ applied'[d].mandate = Target(d),
         hook'[d] # "log",
         hook[d] \in {"log", "raised", "lost"} => hook'[d] \in {"raised", "lost"} \/ applied'[d] # NoRow,
         hook'[d] = "commit" => /\ hook[d] = "store" /\ sess'[d].loaded = mandates[Target(d)]
                                /\ mandates[Target(d)] # NoRow
  PROVE  PaidInv'
<1>1. \A m \in MandateId : PaymentStatus(m) # "none" => PaymentStatus(m)' # "none"
  BY DEF PaymentStatus
<1>2. QED
  BY <1>1, PaidFrame

LEMMA PaidDelivery ==
  ASSUME HookInv, PaidInv, NEW d \in Caller, DeliveryStep(d)
  PROVE  PaidInv'
<1>1. CASE TurnAway(d) \/ AfterMark(d) \/ LoadMandate(d) \/ Acknowledge(d)
  <2>1. PICK where \in {"refused", "load", "not_applied", "already_processed", "raised", "store", "applied"} :
          hook' = [hook EXCEPT ![d] = where]
    BY <1>1 DEF TurnAway, AfterMark, LoadMandate, Acknowledge, Goto
  <2>2. /\ UNCHANGED <<mandates, sess, evt, applied>>
        /\ hook[d] \in {"new", "mark", "load", "reply"}
    BY <1>1 DEF TurnAway, AfterMark, LoadMandate, Acknowledge, vaultVars
  <2>3. /\ hook'[d] = where /\ where \notin {"log", "commit"}
        /\ \A c \in Caller \ {d} : hook'[c] = hook[c]
    BY <2>1 DEF HookInv, HookDomains
  <2>4. QED
    BY <2>2, <2>3, PaidQuiet
<1>2. CASE Deliver(d)
  <2>1. PICK e \in Event : evt' = [evt EXCEPT ![d] = e]
    BY <1>2 DEF Deliver
  <2>2. /\ UNCHANGED <<mandates, sess, applied>> /\ hook[d] = "new" /\ evt[d] = NoRow
        /\ hook' = [hook EXCEPT ![d] = "mark"]
    BY <1>2 DEF Deliver, Goto, vaultVars, HookInv, Sound, Idle
  <2>3. /\ hook'[d] = "mark"
        /\ \A c \in Caller \ {d} : hook'[c] = hook[c] /\ evt'[c] = evt[c]
    BY <2>1, <2>2 DEF HookInv, HookDomains
  <2>4. QED
    BY <2>2, <2>3, PaidQuiet
<1>3. CASE Claim(d)
  <2>1. UNCHANGED <<mandates, sess, hook, evt, applied>> /\ hook[d] = "mark"
    BY <1>3 DEF Claim, vaultVars, hookVars
  <2>2. QED
    BY <2>1, PaidQuiet
<1>4. CASE BeginApply(d)
  <2>1. /\ UNCHANGED <<mandates, evt, applied>> /\ hook[d] = "store"
        /\ StoreRead(d, Target(d), Updated(seen[d], evt[d]))
        /\ hook' = [hook EXCEPT ![d] = IF Revoked(Target(d)) THEN "raised" ELSE "commit"]
    BY <1>4 DEF BeginApply, StoreRead, Goto, Target
  <2>2. mandates[Target(d)] # NoRow /\ d \in Session /\ Caller \subseteq Session
    BY <2>1, HookConstants DEF HookInv, Sound, Targets
  <2>3. /\ \A c \in Caller \ {d} : sess'[c] = sess[c]
        /\ ~Revoked(Target(d)) => sess'[d].loaded = mandates[Target(d)]
    BY <2>1, <2>2 DEF StoreRead, Loading, HookInv, VaultInv, TypeOK
  <2>4. hook'[d] = (IF Revoked(Target(d)) THEN "raised" ELSE "commit")
        /\ \A c \in Caller \ {d} : hook'[c] = hook[c]
    BY <2>1 DEF HookInv, HookDomains
  <2>5. QED
    BY <2>1, <2>2, <2>3, <2>4, PaidQuiet
<1>5. CASE CommitApply(d)
  BY <1>5, PaidCommit
<1>6. CASE LogApply(d)
  <2> DEFINE entry == [key |-> EventKey(evt[d]), status |-> StatusFor(evt[d]), mandate |-> Target(d)]
  <2>1. /\ UNCHANGED <<mandates, sess, evt>> /\ hook[d] = "log"
        /\ applied' = [applied EXCEPT ![d] = entry] /\ hook' = [hook EXCEPT ![d] = "reply"]
    BY <1>6 DEF LogApply, Goto, Target, vaultVars
  <2>2. evt[d] \in Event /\ Target(d) \in MandateId
    BY <2>1 DEF HookInv, Sound, Carries, Targets
  <2>3. entry \in HookEntry
    BY <2>2, HookConstants DEF HookEntry, StatusFor
  <2>4. entry # NoRow
    BY <2>3, HookConstants
  <2>5. /\ applied'[d] = entry /\ hook'[d] = "reply"
        /\ \A c \in Caller \ {d} : applied'[c] = applied[c] /\ hook'[c] = hook[c]
    BY <2>1 DEF HookInv, HookDomains
  <2>6. entry.mandate = Target(d)
    OBVIOUS
  <2> HIDE DEF entry
  <2>7. QED
    BY <2>1, <2>4, <2>5, <2>6, PaidQuiet
<1>7. CASE CallFails(d)
  <2>1. /\ UNCHANGED <<mandates, evt, applied>> /\ hook' = [hook EXCEPT ![d] = "raised"]
        /\ UNCHANGED sess \/ sess' = [sess EXCEPT ![d] = Ended("idle")]
    BY <1>7 DEF CallFails, Goto, StoreAbort, vaultVars
  <2>2. \A c \in Caller \ {d} : sess'[c] = sess[c]
    BY <2>1, HookConstants DEF HookInv, VaultInv, TypeOK
  <2>3. hook'[d] = "raised" /\ \A c \in Caller \ {d} : hook'[c] = hook[c]
    BY <2>1 DEF HookInv, HookDomains
  <2>4. QED
    BY <2>1, <2>2, <2>3, PaidQuiet
<1>8. QED
  BY <1>1, <1>2, <1>3, <1>4, <1>5, <1>6, <1>7 DEF DeliveryStep, HandlerStep

LEMMA PaidStep ==
  ASSUME Session = Caller, HookInv, PaidInv, [HookNext]_webhookVars
  PROVE  PaidInv'
<1>1. CASE OperatorStep(Session \ Caller) /\ UNCHANGED hookVars
  <2>1. UNCHANGED <<sess, hook, evt, applied>>
    BY <1>1 DEF OperatorStep, RevokeMandate, AddToDenylist, Tick, hookVars
  <2>2. UNCHANGED mandates \/ \E m \in MandateId : mandates[m] # NoRow /\ mandates' = [mandates EXCEPT ![m].revoked = TRUE]
    BY <1>1 DEF OperatorStep, RevokeMandate, AddToDenylist, Tick
  <2>3. \A m \in MandateId : /\ mandates'[m] = NoRow <=> mandates[m] = NoRow
                             /\ mandates'[m].payload = mandates[m].payload
    <3>1. CASE UNCHANGED mandates
      BY <3>1
    <3>2. ASSUME NEW m \in MandateId, mandates[m] # NoRow, mandates' = [mandates EXCEPT ![m].revoked = TRUE]
          PROVE  \A x \in MandateId : /\ mandates'[x] = NoRow <=> mandates[x] = NoRow
                                      /\ mandates'[x].payload = mandates[x].payload
      <4>1. mandates[m] \in Row /\ mandates'[m] = [mandates[m] EXCEPT !.revoked = TRUE]
            /\ \A x \in MandateId \ {m} : mandates'[x] = mandates[x]
        BY <3>2 DEF HookInv, VaultInv, TypeOK
      <4>2. mandates'[m] \in Row /\ mandates'[m].payload = mandates[m].payload
        BY <4>1 DEF Row
      <4>3. QED
        BY <3>2, <4>1, <4>2, VaultConstants
    <3>3. QED
      BY <2>2, <3>1, <3>2
  <2>4. \A m \in MandateId : PaymentStatus(m) # "none" => PaymentStatus(m)' # "none"
    BY <2>3 DEF PaymentStatus
  <2>5. QED
    BY <2>1, <2>3, <2>4, PaidFrame
<1>2. ASSUME NEW d \in Caller, DeliveryStep(d) PROVE PaidInv'
  BY <1>2, PaidDelivery
<1>3. CASE HookCrash
  <2>1. /\ UNCHANGED <<mandates, evt, applied>>
        /\ \A c \in Caller : hook'[c] = IF InFlight(c) THEN "lost" ELSE hook[c]
    BY <1>3 DEF HookCrash
  <2>2. \A c \in Caller : /\ hook'[c] \notin {"log", "commit"}
                          /\ hook[c] \in {"log", "raised", "lost"} => hook'[c] \in {"raised", "lost"}
    BY <2>1 DEF InFlight, Answered
  <2>3. \A m \in MandateId : PaymentStatus(m) # "none" => PaymentStatus(m)' # "none"
    BY <2>1 DEF PaymentStatus
  <2>4. QED
    BY <2>1, <2>2, <2>3, PaidFrame
<1>4. CASE UNCHANGED webhookVars
  <2>1. UNCHANGED <<mandates, sess, hook, evt, applied>>
    BY <1>4 DEF webhookVars, vaultVars, hookVars
  <2>2. \A m \in MandateId : PaymentStatus(m) # "none" => PaymentStatus(m)' # "none"
    BY <2>1 DEF PaymentStatus
  <2>3. QED
    BY <2>1, <2>2, PaidFrame
<1>5. QED
  BY <1>1, <1>2, <1>3, <1>4 DEF HookNext

(* The status on a Mandate and the rows of the trail agree, for any number *)
(* of deliveries and events, where nobody but the webhook stores.          *)
THEOREM StatusHasItsRow == ASSUME Session = Caller PROVE HookSpec => []TrailMatchesStatus
<1>1. HookInv /\ PaidInv /\ [HookNext]_webhookVars => PaidInv'
  BY PaidStep
<1>2. QED
  BY <1>1, PaidInit, PaidIsMatched, HookAlways, PTL DEF HookSpec
-----------------------------------------------------------------------------
(***************************************************************************)
(* That deliveries only advance.  A call of mark is under way in its       *)
(* delivery only, so that a crash ends both; with that every await of a    *)
(* handler, each attempt of mark included, comes once.                     *)
(***************************************************************************)
AwaitedMark ==
  /\ tries \in [Caller -> Nat]
  /\ \A d \in Caller : mstate[d] \in {"insert", "check"} => hook[d] = "mark"

(* What of a delivery a step may change.                                   *)
Untouched(c) ==
  /\ hook'[c] = hook[c] /\ evt'[c] = evt[c] /\ seen'[c] = seen[c] /\ applied'[c] = applied[c]
  /\ mstate'[c] = mstate[c] /\ mkey'[c] = mkey[c] /\ tries'[c] = tries[c]

(* A step of a delivery is its own, and brings it nearer to its answer.    *)
LEMMA DeliveryAdvances ==
  ASSUME HookInv, AwaitedMark, NEW d \in Caller, DeliveryStep(d)
  PROVE  /\ \A c \in Caller \ {d} : Untouched(c)
         /\ AwaitedMark' /\ StepsLeft(d)' < StepsLeft(d)
<1>0. MarkTries \in Nat \ {0} /\ tries[d] \in Nat /\ HookDomains /\ MarkTypeOK
  BY MarkConstants DEF HookInv, MarkInv, AwaitedMark
<1> DEFINE MT == MarkTries
<1>1. CASE TurnAway(d) \/ LoadMandate(d) \/ BeginApply(d) \/ CommitApply(d) \/ LogApply(d)
           \/ Acknowledge(d) \/ CallFails(d)
  <2>1. /\ UNCHANGED markVars /\ UNCHANGED evt
        /\ \A c \in Caller \ {d} : seen'[c] = seen[c] /\ applied'[c] = applied[c]
    BY <1>0, <1>1 DEF HookDomains, TurnAway, LoadMandate, BeginApply, CommitApply, LogApply, Acknowledge, CallFails
  <2>2. PICK where : hook' = [hook EXCEPT ![d] = where] /\
          \/ hook[d] = "new" /\ where = "refused"
          \/ hook[d] = "load" /\ where \in {"store", "not_applied", "raised"}
          \/ hook[d] = "store" /\ where \in {"commit", "raised"}
          \/ hook[d] = "commit" /\ where \in {"log", "raised"}
          \/ hook[d] = "log" /\ where \in {"reply", "raised"}
          \/ hook[d] = "reply" /\ where = "applied"
    BY <1>1 DEF TurnAway, LoadMandate, BeginApply, CommitApply, LogApply, Acknowledge, CallFails, Goto
  <2>3. hook'[d] = where /\ \A c \in Caller \ {d} : hook'[c] = hook[c]
    BY <1>0, <2>2 DEF HookDomains
  <2>4. mstate[d] \notin {"insert", "check"}
    BY <2>2 DEF AwaitedMark
  <2>5. AwaitedMark' /\ \A c \in Caller \ {d} : Untouched(c)
    BY <2>1, <2>3, <2>4 DEF AwaitedMark, Untouched, markVars
  <2>6. StepsLeft(d)' < StepsLeft(d)
    BY <1>0, <2>2, <2>3 DEF StepsLeft
  <2>7. QED
    BY <2>5, <2>6
<1>2. CASE Deliver(d)
  <2>1. PICK e \in Event : evt' = [evt EXCEPT ![d] = e] /\ MarkBegin(d, EventKey(e))
    BY <1>2 DEF Deliver
  <2>2. hook[d] = "new" /\ hook' = [hook EXCEPT ![d] = "mark"] /\ UNCHANGED <<seen, applied, tries>>
    BY <1>2, <2>1 DEF Deliver, Goto, MarkBegin
  <2>3. /\ hook'[d] = "mark" /\ mstate'[d] = "insert" /\ tries'[d] = tries[d]
        /\ \A c \in Caller \ {d} : hook'[c] = hook[c] /\ evt'[c] = evt[c] /\ mstate'[c] = mstate[c]
                                   /\ mkey'[c] = mkey[c]
    BY <1>0, <2>1, <2>2 DEF HookDomains, MarkTypeOK, MarkBegin
  <2>4. AwaitedMark' /\ \A c \in Caller \ {d} : Untouched(c)
    BY <2>2, <2>3 DEF AwaitedMark, Untouched
  <2>5. StepsLeft(d) = 7 + 2 * MT
    BY <2>2 DEF StepsLeft
  <2>6. StepsLeft(d)' = 6 + 2 * (MT - tries[d])
    BY <2>3 DEF StepsLeft
  <2>7. StepsLeft(d)' < StepsLeft(d)
    BY <1>0, <2>5, <2>6
  <2>8. QED
    BY <2>4, <2>7
<1>3. CASE Claim(d)
  <2>1. hook[d] = "mark" /\ MarkStep(d) /\ UNCHANGED <<hook, evt, seen, applied>>
    BY <1>3 DEF Claim, hookVars
  <2>2. /\ UNCHANGED mkey
        /\ \A c \in Caller \ {d} : mstate'[c] = mstate[c] /\ tries'[c] = tries[c]
        /\ tries' \in [Caller -> Nat]
    BY <1>0, <2>1 DEF MarkStep, MarkInsert, MarkSeen, Step, MarkTypeOK, AwaitedMark
  <2>3. AwaitedMark' /\ \A c \in Caller \ {d} : Untouched(c)
    BY <2>1, <2>2 DEF AwaitedMark, Untouched
  <2>4. tries[d] < MT /\ mstate[d] \in {"insert", "check"}
    BY <1>0, <2>1 DEF MarkTypeOK, MarkStep, MarkInsert, MarkSeen
  <2>5. \/ mstate[d] = "insert" /\ mstate'[d] \in {"true", "false", "check", "error"} /\ tries'[d] = tries[d]
        \/ mstate[d] = "check" /\ mstate'[d] \in {"false", "error"}
        \/ mstate[d] = "check" /\ mstate'[d] = "insert" /\ tries'[d] = tries[d] + 1
    BY <1>0, <2>1 DEF MarkTypeOK, MarkStep, MarkInsert, MarkSeen, Step, AwaitedMark
  <2>6. StepsLeft(d)' < StepsLeft(d)
    <3>1. StepsLeft(d) = IF mstate[d] = "insert" THEN 6 + 2 * (MT - tries[d]) ELSE 5 + 2 * (MT - tries[d])
      BY <2>1, <2>4 DEF StepsLeft
    <3>2. StepsLeft(d)' = IF mstate'[d] = "insert" THEN 6 + 2 * (MT - tries'[d])
                          ELSE IF mstate'[d] = "check" THEN 5 + 2 * (MT - tries'[d]) ELSE 6
      BY <2>1 DEF StepsLeft
    <3>3. QED
      BY <1>0, <2>4, <2>5, <3>1, <3>2
  <2>7. QED
    BY <2>3, <2>6
<1>4. CASE AfterMark(d)
  <2>1. /\ hook[d] = "mark" /\ mstate[d] \notin {"insert", "check"}
        /\ UNCHANGED markVars /\ UNCHANGED <<evt, seen, applied>>
    BY <1>4 DEF AfterMark
  <2>2. PICK where \in {"load", "not_applied", "already_processed", "raised"} :
          hook' = [hook EXCEPT ![d] = where]
    BY <1>4 DEF AfterMark, Goto
  <2>3. hook'[d] = where /\ \A c \in Caller \ {d} : hook'[c] = hook[c]
    BY <1>0, <2>2 DEF HookDomains
  <2>4. AwaitedMark' /\ \A c \in Caller \ {d} : Untouched(c)
    BY <2>1, <2>3 DEF AwaitedMark, Untouched, markVars
  <2>5. StepsLeft(d)' < StepsLeft(d)
    BY <2>1, <2>2, <2>3 DEF StepsLeft
  <2>6. QED
    BY <2>4, <2>5
<1>5. QED
  BY <1>1, <1>2, <1>3, <1>4 DEF DeliveryStep, HandlerStep

(* The death of the process ends every delivery under way, an attempt of   *)
(* mark with its handler.                                                  *)
LEMMA CrashEnds ==
  ASSUME HookInv, AwaitedMark, HookCrash
  PROVE  /\ AwaitedMark'
         /\ \A d \in Caller : DeliveryState(d)' # DeliveryState(d) => StepsLeft(d)' < StepsLeft(d)
<1>1. /\ UNCHANGED <<mkey, tries, evt, seen, applied>>
      /\ \A d \in Caller : /\ hook'[d] = IF InFlight(d) THEN "lost" ELSE hook[d]
                           /\ mstate'[d] = IF mstate[d] \in {"insert", "check"} THEN "aborted" ELSE mstate[d]
  BY DEF HookCrash
<1>2. AwaitedMark'
  BY <1>1 DEF AwaitedMark
<1>3. ASSUME NEW d \in Caller, DeliveryState(d)' # DeliveryState(d) PROVE StepsLeft(d)' < StepsLeft(d)
  <2>1. InFlight(d) /\ hook'[d] = "lost"
    BY <1>1, <1>3 DEF DeliveryState, AwaitedMark, InFlight, Answered
  <2>2. StepsLeft(d)' = 0
    BY <2>1 DEF StepsLeft
  <2>3. hook[d] \in {"mark", "load", "store", "commit", "log", "reply"}
    BY <2>1 DEF HookInv, HookDomains, HookType, InFlight
  <2>4. /\ MarkTries \in Nat /\ tries[d] \in Nat
        /\ mstate[d] \in {"insert", "check"} => tries[d] < MarkTries
    BY MarkConstants DEF HookInv, MarkInv, MarkTypeOK, AwaitedMark
  <2>5. StepsLeft(d) > 0
    BY <2>3, <2>4 DEF StepsLeft
  <2>6. QED
    BY <2>2, <2>5
<1>4. QED
  BY <1>2, <1>3

LEMMA AdvanceStep ==
  ASSUME HookInv, AwaitedMark, [HookNext]_webhookVars
  PROVE  /\ AwaitedMark'
         /\ \A d \in Caller : DeliveryState(d)' # DeliveryState(d) => StepsLeft(d)' < StepsLeft(d)
<1>1. CASE UNCHANGED <<markVars, hookVars>>
  BY <1>1 DEF AwaitedMark, DeliveryState, markVars, hookVars
<1>2. ASSUME NEW c \in Caller, DeliveryStep(c)
      PROVE  /\ AwaitedMark'
             /\ \A d \in Caller : DeliveryState(d)' # DeliveryState(d) => StepsLeft(d)' < StepsLeft(d)
  <2>1. ASSUME NEW d \in Caller \ {c} PROVE DeliveryState(d)' = DeliveryState(d)
    BY <1>2, <2>1, DeliveryAdvances DEF DeliveryState, Untouched
  <2>2. QED
    BY <1>2, <2>1, DeliveryAdvances
<1>3. CASE HookCrash
  BY <1>3, CrashEnds
<1>4. QED
  BY <1>1, <1>2, <1>3 DEF HookNext, webhookVars

(* No lock, fault, crash or other delivery takes a delivery back, however  *)
(* many attempts mark is allowed: 7 + 2 * MarkTries steps at most.         *)
THEOREM DeliveriesOnlyAdvance == HookSpec => DeliveriesAdvance
<1>1. HookInit => AwaitedMark
  BY DEF HookInit, MarkInit, AwaitedMark
<1>2. HookInv /\ AwaitedMark /\ [HookNext]_webhookVars => AwaitedMark'
  BY AdvanceStep
<1>3. HookInv /\ AwaitedMark /\ [HookNext]_webhookVars =>
        [\A d \in Caller : DeliveryState(d)' # DeliveryState(d) => StepsLeft(d)' < StepsLeft(d)]_webhookVars
  BY AdvanceStep
<1>4. QED
  BY <1>1, <1>2, <1>3, HookAlways, PTL DEF HookSpec, DeliveriesAdvance
=============================================================================
