-------------------------------- MODULE Gate --------------------------------
(***************************************************************************)
(* What stands before the policy in run_execute: the Prompt Firewall (C4)  *)
(* and the protocol parser (C1), as functions of an envelope.  An envelope *)
(* is a record of what these two can tell about it: whether a poisoned key *)
(* or phrase occurs in it, the protocol of the request, and for each field *)
(* the parser reads, whether it is there and well formed.                  *)
(***************************************************************************)
CONSTANTS NoEnvelope,  \* the request carried no envelope
          Missing      \* the field is absent or null (an id, a protocol or a list: or empty)

(* PromptFirewall.sanitize; a clean envelope loses only its soft hyphens. *)
FirewallRefuses(env) == env.tainted

(* parse_envelope.  "raise" is an exception other than ProtocolParseError: *)
(* the lookup in a nested mandate or agent that is no object, and          *)
(* fromisoformat, int() and the pydantic models raise their own, so does   *)
(* an empty SKU list (min_length=1).                                       *)
ParseOutcome(env) ==
  IF env.protocol = "unknown" THEN "unknown_protocol"
  ELSE IF "malformed" \in {env.mandate, env.agent} THEN "raise"
  ELSE IF env.mandate = Missing \/ env.agent = Missing THEN "missing_required_field"
  ELSE IF env.exp = Missing THEN "missing_expires_at"
  ELSE IF env.exp = "malformed" \/ env.skus = Missing \/ env.rest = "malformed" THEN "raise"
  ELSE "parsed"

(* The opening of run_execute, up to its first await. *)
GateVerdict(env, mandate) ==
  IF env = NoEnvelope THEN "open"
  ELSE IF FirewallRefuses(env) THEN "idpi_detected"
  ELSE IF env.protocol = Missing THEN "unknown_protocol"
  ELSE IF ParseOutcome(env) # "parsed" THEN ParseOutcome(env)
  ELSE IF env.mandate # mandate THEN "mandate_invalid"
  ELSE "open"
=============================================================================
