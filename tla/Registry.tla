------------------------------ MODULE Registry -------------------------------
(***************************************************************************)
(* The table agents of the Vault, beside its Mandates: register_agent and  *)
(* verify_signature.  Like store_mandate, register_agent reads outside any *)
(* transaction and then writes the columns that differ from what it read;  *)
(* created_at always differs, and nobody reads it.                         *)
(***************************************************************************)
EXTENDS Vault

CONSTANTS PublicKey,
          Registrant,   \* the Agents that register; a Mandate may name another
          Registration  \* concurrent calls of register_agent

ASSUME RegistryConstants == NoRow \notin PublicKey

VARIABLES agents,  \* agents[a]: the public key of Agent a, or NoRow
          reg,     \* reg[c]: call c of register_agent
          held     \* history: held[c]: keys a's tokens verified with since c read a's row

regVars == <<agents, reg, held>>

Closed(answer) == [state |-> answer, agent |-> NoRow, key |-> NoRow, loaded |-> NoRow]

(* verify_signature for Agent a whose row holds key registered, of a token *)
(* signed with the private half of token.key                               *)
VerifySignature(token, a, registered) ==
  IF registered = NoRow THEN "unknown_agent"
  ELSE IF token.key # registered \/ token.sub # a THEN "invalid_signature"
  ELSE "claims"
Verifies(a, registered) ==
  {k \in PublicKey : VerifySignature([key |-> k, sub |-> a], a, registered) = "claims"}

RegistryInit == /\ agents = [a \in Registrant |-> NoRow]
                /\ reg = [c \in Registration |-> Closed("idle")]
                /\ held = [c \in Registration |-> {}]

RegisterRead(c, a, k) ==
  /\ reg[c].state # "loaded"
  /\ reg' = [reg EXCEPT ![c] = [state |-> "loaded", agent |-> a, key |-> k, loaded |-> agents[a]]]
  /\ held' = [held EXCEPT ![c] = Verifies(a, agents[a])]
  /\ UNCHANGED agents

(* Calls under way see what the step made of their Agent's key. *)
Close(c, answer) ==
  /\ reg' = [reg EXCEPT ![c] = Closed(answer)]
  /\ held' = [b \in Registration |->
               IF b = c \/ reg[b].state # "loaded" THEN {}
               ELSE held[b] \cup Verifies(reg[b].agent, agents'[reg[b].agent])]

(* Mutant: the insert that lost the race passed over *)
RegisterCommitQuiet(c) ==
  LET a == reg[c].agent IN
  /\ reg[c].state = "loaded"
  /\ \/ reg[c].loaded = NoRow /\ agents[a] # NoRow /\ UNCHANGED agents
     \/ /\ reg[c].loaded # NoRow \/ agents[a] = NoRow
        /\ agents' = [agents EXCEPT ![a] = Dirty(reg[c].key, reg[c].loaded, agents[a])]
  /\ Close(c, "registered")

(* The flush: an INSERT, which fails if the Agent is there by now, or an   *)
(* UPDATE of the key if it is not the one that was read.                   *)
RegisterCommit(c) ==
  LET a == reg[c].agent IN
  /\ reg[c].state = "loaded"
  /\ \/ reg[c].loaded = NoRow /\ agents[a] # NoRow /\ UNCHANGED agents /\ Close(c, "conflict")
     \/ /\ reg[c].loaded # NoRow \/ agents[a] = NoRow
        /\ agents' = [agents EXCEPT ![a] = Dirty(reg[c].key, reg[c].loaded, agents[a])]
        /\ Close(c, "registered")

(* The call dies before its commit. *)
RegisterAbort(c) == reg[c].state = "loaded" /\ UNCHANGED agents /\ Close(c, "idle")

RegistryNext == \E c \in Registration :
  \/ \E a \in Registrant, k \in PublicKey : RegisterRead(c, a, k)
  \/ RegisterCommit(c) \/ RegisterAbort(c)

(* The Vault with both: no call touches the tables of the other.           *)
VaultServiceInit == Init /\ RegistryInit
VaultServiceSpec ==
  /\ VaultServiceInit
  /\ [][\/ Next /\ UNCHANGED regVars
        \/ RegistryNext /\ UNCHANGED vaultVars]_<<vaultVars, regVars>>

-----------------------------------------------------------------------------
(* A registration that returned has taken effect: at some moment between   *)
(* its read and its return the Agent's tokens verified with its key and no *)
(* other, even where a racing registration makes its UPDATE write no key.  *)
RegistrationTakesEffect ==
  [][\A c \in Registration : reg[c].state = "loaded" /\ reg'[c].state = "registered" =>
       reg[c].key \in held[c] \cup Verifies(reg[c].agent, agents'[reg[c].agent])]_regVars
=============================================================================
