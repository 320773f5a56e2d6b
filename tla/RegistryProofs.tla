--------------------------- MODULE RegistryProofs ----------------------------
(***************************************************************************)
(* Registrations, for any number of calls, Agents and keys.                *)
(***************************************************************************)
EXTENDS Registry, TLAPS

CallType == [state : {"idle", "loaded", "registered", "conflict"}, agent : Registrant \cup {NoRow},
             key : PublicKey \cup {NoRow}, loaded : PublicKey \cup {NoRow}]
RegTypeOK ==
  /\ agents \in [Registrant -> PublicKey \cup {NoRow}]
  /\ reg \in [Registration -> CallType]
  /\ held \in [Registration -> SUBSET PublicKey]
  /\ \A c \in Registration : reg[c].state = "loaded" =>
       reg[c].agent \in Registrant /\ reg[c].key \in PublicKey

(* A call under way has seen in force the key it read and the present one. *)
Watched(c) == reg[c].state = "loaded" =>
                {reg[c].loaded, agents[reg[c].agent]} \ {NoRow} \subseteq held[c]
RegInv == RegTypeOK /\ \A c \in Registration : Watched(c)

LEMMA OnlyTheRegistered ==
  ASSUME NEW a, NEW k \in PublicKey \cup {NoRow}
  PROVE  Verifies(a, k) = {k} \ {NoRow}
  BY RegistryConstants DEF Verifies, VerifySignature

LEMMA RegInitInv == RegistryInit => RegInv
  BY DEF RegistryInit, RegInv, RegTypeOK, CallType, Closed, Watched

LEMMA ReadKeeps ==
  ASSUME RegInv, NEW c \in Registration, NEW a \in Registrant, NEW k \in PublicKey, RegisterRead(c, a, k)
  PROVE  RegInv'
<1> DEFINE call == [state |-> "loaded", agent |-> a, key |-> k, loaded |-> agents[a]]
<1>1. /\ reg' = [reg EXCEPT ![c] = call] /\ agents' = agents
      /\ held' = [held EXCEPT ![c] = {agents[a]} \ {NoRow}]
  BY OnlyTheRegistered DEF RegisterRead, RegInv, RegTypeOK
<1>2. call \in CallType /\ {agents[a]} \ {NoRow} \in SUBSET PublicKey
  BY DEF CallType, RegInv, RegTypeOK
<1>3. RegTypeOK'
  BY <1>1, <1>2 DEF RegInv, RegTypeOK
<1>4. ASSUME NEW b \in Registration PROVE Watched(b)'
  BY <1>1 DEF RegInv, RegTypeOK, Watched
<1>5. QED
  BY <1>3, <1>4 DEF RegInv

LEMMA CloseKeeps ==
  ASSUME RegInv, NEW c \in Registration, NEW answer \in {"idle", "registered", "conflict"},
         Close(c, answer), agents' \in [Registrant -> PublicKey \cup {NoRow}]
  PROVE  RegInv'
<1>1. Closed(answer) \in CallType /\ Closed(answer).state = answer
  BY DEF Closed, CallType
<1>2. reg' = [reg EXCEPT ![c] = Closed(answer)]
  BY DEF Close
<1>3. reg'[c].state = answer /\ \A b \in Registration \ {c} : reg'[b] = reg[b]
  BY <1>1, <1>2 DEF RegInv, RegTypeOK
<1>4. ASSUME NEW b \in Registration
      PROVE  held'[b] = IF b = c \/ reg[b].state # "loaded" THEN {}
                        ELSE held[b] \cup ({agents'[reg[b].agent]} \ {NoRow})
  <2>1. reg[b].state = "loaded" => agents'[reg[b].agent] \in PublicKey \cup {NoRow}
    BY DEF RegInv, RegTypeOK
  <2>2. QED
    BY <2>1, OnlyTheRegistered DEF Close
<1>5. held' \in [Registration -> SUBSET PublicKey]
  <2>1. DOMAIN held' = Registration /\ held' = [b \in Registration |-> held'[b]]
    BY DEF Close
  <2>2. ASSUME NEW b \in Registration PROVE held'[b] \in SUBSET PublicKey
    <3>1. held[b] \in SUBSET PublicKey
      BY DEF RegInv, RegTypeOK
    <3>2. reg[b].state = "loaded" => {agents'[reg[b].agent]} \ {NoRow} \in SUBSET PublicKey
      BY DEF RegInv, RegTypeOK
    <3>3. QED
      BY <1>4, <3>1, <3>2
  <2>3. QED
    BY <2>1, <2>2
<1>6. RegTypeOK'
  BY <1>1, <1>2, <1>3, <1>5 DEF RegInv, RegTypeOK
<1>7. ASSUME NEW b \in Registration PROVE Watched(b)'
  <2>1. CASE b = c
    BY <1>3, <2>1 DEF Watched
  <2>2. CASE b # c /\ reg[b].state # "loaded"
    BY <1>3, <2>2 DEF Watched
  <2>3. CASE b # c /\ reg[b].state = "loaded"
    <3>1. reg'[b] = reg[b] /\ held'[b] = held[b] \cup ({agents'[reg[b].agent]} \ {NoRow})
      BY <1>3, <1>4, <2>3
    <3>2. {reg[b].loaded} \ {NoRow} \subseteq held[b]
      BY <2>3 DEF RegInv, Watched
    <3>3. QED
      BY <3>1, <3>2 DEF Watched
  <2>4. QED
    BY <2>1, <2>2, <2>3
<1>8. QED
  BY <1>6, <1>7 DEF RegInv

(* The key a committed call wrote is in force now, or, where it wrote none *)
(* because it had read the same key, was in force then.                    *)
LEMMA CommitEffect ==
  ASSUME RegInv, NEW c \in Registration, RegisterCommit(c)
  PROVE  /\ RegInv'
         /\ reg'[c].state = "registered" =>
              reg[c].key \in held[c] \cup Verifies(reg[c].agent, agents'[reg[c].agent])
<1> DEFINE a == reg[c].agent
           k == reg[c].key
           old == reg[c].loaded
<1>1. /\ reg[c].state = "loaded" /\ a \in Registrant /\ k \in PublicKey
      /\ old \in PublicKey \cup {NoRow} /\ agents[a] \in PublicKey \cup {NoRow}
  BY DEF RegisterCommit, RegInv, RegTypeOK, CallType
<1>2. CASE old = NoRow /\ agents[a] # NoRow
  <2>1. UNCHANGED agents /\ Close(c, "conflict")
    BY <1>2 DEF RegisterCommit
  <2>2. reg'[c].state = "conflict"
    BY <2>1 DEF Close, Closed, RegInv, RegTypeOK
  <2>3. RegInv'
    BY <2>1, CloseKeeps DEF RegInv, RegTypeOK
  <2>4. QED
    BY <2>2, <2>3
<1>3. CASE old # NoRow \/ agents[a] = NoRow
  <2>1. agents' = [agents EXCEPT ![a] = Dirty(k, old, agents[a])] /\ Close(c, "registered")
    BY <1>3 DEF RegisterCommit
  <2>2. Dirty(k, old, agents[a]) \in PublicKey \cup {NoRow}
    BY <1>1 DEF Dirty
  <2>3. agents' \in [Registrant -> PublicKey \cup {NoRow}]
    BY <2>1, <2>2 DEF RegInv, RegTypeOK
  <2>4. RegInv'
    BY <2>1, <2>3, CloseKeeps
  <2>5. agents'[a] = k \/ k = old
    BY <1>1, <2>1 DEF Dirty, RegInv, RegTypeOK
  <2>6. k # NoRow
    BY <1>1, RegistryConstants
  <2>7. k = old => k \in held[c]
    BY <1>1, <2>6 DEF RegInv, Watched
  <2>8. agents'[a] = k => k \in Verifies(a, agents'[a])
    BY <1>1, <2>6, OnlyTheRegistered
  <2>9. QED
    BY <2>4, <2>5, <2>7, <2>8
<1>4. QED
  BY <1>2, <1>3

LEMMA RegStep ==
  ASSUME RegInv, [RegistryNext]_regVars
  PROVE  /\ RegInv'
         /\ \A c \in Registration : reg[c].state = "loaded" /\ reg'[c].state = "registered" =>
              reg[c].key \in held[c] \cup Verifies(reg[c].agent, agents'[reg[c].agent])
<1>1. CASE UNCHANGED regVars
  <2>1. UNCHANGED agents /\ UNCHANGED reg /\ UNCHANGED held
    BY <1>1 DEF regVars
  <2>2. RegInv'
    BY <2>1 DEF RegInv, RegTypeOK, Watched
  <2>3. QED
    BY <2>1, <2>2
<1>2. ASSUME NEW b \in Registration, NEW a \in Registrant, NEW k \in PublicKey, RegisterRead(b, a, k)
      PROVE  /\ RegInv'
             /\ \A c \in Registration : reg[c].state = "loaded" => reg'[c].state # "registered"
  BY <1>2, ReadKeeps DEF RegisterRead, RegInv, RegTypeOK
<1>3. ASSUME NEW b \in Registration, RegisterAbort(b)
      PROVE  /\ RegInv'
             /\ \A c \in Registration : reg[c].state = "loaded" => reg'[c].state # "registered"
  <2>1. Close(b, "idle") /\ UNCHANGED agents
    BY <1>3 DEF RegisterAbort
  <2>2. RegInv'
    BY <2>1, CloseKeeps DEF RegInv, RegTypeOK
  <2>3. reg' = [reg EXCEPT ![b] = Closed("idle")]
    BY <2>1 DEF Close
  <2>4. QED
    BY <2>2, <2>3 DEF Closed, RegInv, RegTypeOK
<1>4. ASSUME NEW b \in Registration, RegisterCommit(b)
      PROVE  /\ RegInv'
             /\ \A c \in Registration \ {b} : reg'[c].state = reg[c].state
  <2>1. \E answer : reg' = [reg EXCEPT ![b] = Closed(answer)]
    BY <1>4 DEF RegisterCommit, Close
  <2>2. QED
    BY <1>4, <2>1, CommitEffect DEF RegInv, RegTypeOK
<1>5. QED
  BY <1>1, <1>2, <1>3, <1>4, CommitEffect DEF RegistryNext

(* However registrations of one Agent race, each that returns has had its  *)
(* key in force while it ran, whatever stores of Mandates go on beside it. *)
THEOREM RegistrationsCount == VaultServiceSpec => RegistrationTakesEffect
<1>1. [(Next /\ UNCHANGED regVars) \/ (RegistryNext /\ UNCHANGED vaultVars)]_<<vaultVars, regVars>>
      => [RegistryNext]_regVars
  BY DEF regVars
<1>2. RegInv /\ [RegistryNext]_regVars => RegInv'
  BY RegStep
<1>3. RegInv /\ [RegistryNext]_regVars =>
        [\A c \in Registration : reg[c].state = "loaded" /\ reg'[c].state = "registered" =>
           reg[c].key \in held[c] \cup Verifies(reg[c].agent, agents'[reg[c].agent])]_regVars
  BY RegStep
<1>4. VaultServiceInit => RegInv
  BY RegInitInv DEF VaultServiceInit
<1>5. QED
  BY <1>1, <1>2, <1>3, <1>4, PTL DEF VaultServiceSpec, RegistrationTakesEffect
==============================================================================
