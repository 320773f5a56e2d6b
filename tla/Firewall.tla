------------------------------ MODULE Firewall -------------------------------
(***************************************************************************)
(* The Prompt Firewall (C4) over JSON values: which envelopes sanitize     *)
(* refuses, and what it makes of the others.  Its two walks are recursive  *)
(* functions of the values there are, along their parts.                   *)
(***************************************************************************)
EXTENDS Json

CONSTANTS JsonValue,  \* the JSON values there are: with a value its parts, and it sanitized
          Depth(_)    \* how deep one is nested

(* What the walks go on with. *)
Parts(v) == CASE v.is = "object" -> {v.fields[k] : k \in DOMAIN v.fields}
              [] v.is = "list"   -> {v.values[i] : i \in DOMAIN v.values}
              [] OTHER           -> {}

(* A value from json.loads is a finite tree. *)
ASSUME JsonConstants ==
  \A v \in JsonValue :
    /\ Depth(v) \in Nat /\ \A w \in Parts(v) : w \in JsonValue /\ Depth(w) < Depth(v)
    /\ v.is = "text" => v.atoms \in Seq(STRING)

BadKeys == {"instructions", "system", "tool_description", "developer_message"}
IdpiPhrases == {<<"by", "pass">>, <<"<!--">>}
Invisible == {"shy", "zw"}
RefusedChars == Invisible \ {"shy"}

(* _strip_zw, one character after the other *)
StripZw(atoms) ==
  FoldLeft(LAMBDA kept, c : IF c \in Invisible THEN kept ELSE Append(kept, c), <<>>, atoms)
HasInvisible(atoms) == \E c \in RefusedChars : Contains(atoms, c)
ContainsIdpi(atoms) == IdpiPhrases \cap SubSeqs(atoms) # {}

(* Mutant: the phrases looked for in the text as it came *)
PoisonedRaw(atoms) == HasInvisible(atoms) \/ ContainsIdpi(atoms)
Poisoned(atoms) == HasInvisible(atoms) \/ ContainsIdpi(StripZw(atoms))

(* Something is refused anywhere in the value. *)
Walk[v \in JsonValue] ==
  CASE v.is = "object" -> \E k \in DOMAIN v.fields : k \in BadKeys \/ Walk[v.fields[k]]
    [] v.is = "list"   -> \E i \in DOMAIN v.values : Walk[v.values[i]]
    [] v.is = "text"   -> Poisoned(v.atoms)
    [] OTHER           -> FALSE

(* The value, cleaned. *)
Sanitized[v \in JsonValue] ==
  CASE v.is = "object" -> Object([k \in DOMAIN v.fields \ BadKeys |-> Sanitized[v.fields[k]]])
    [] v.is = "list"   -> List([i \in DOMAIN v.values |-> Sanitized[v.values[i]]])
    [] v.is = "text"   -> Text(StripZw(v.atoms))
    [] OTHER           -> v

(* Sanitized, it is JSON still. *)
ASSUME SanitizedConstants == \A v \in JsonValue : Sanitized[v] \in JsonValue
=============================================================================
