------------------------------- MODULE Parser --------------------------------
(***************************************************************************)
(* The protocol parser (C1): a JSON object read as a Mandate, in the       *)
(* spellings the protocols use.  What Python and pydantic raise where      *)
(* ProtocolParseError is not raised is the outcome "raise".                *)
(***************************************************************************)
EXTENDS Json

Protocols == {"ap2", "tap", "p3p", "uap"}
Lower(name) == IF name = "AP2" THEN "ap2" ELSE name

Raise == [is |-> "raise"]
Falsy(v) == \/ v.is = "null"
            \/ v.is = "num" /\ v.num = 0
            \/ v.is = "text" /\ v.atoms = <<>>
            \/ v.is = "list" /\ v.values = <<>>
            \/ v.is = "object" /\ DOMAIN v.fields = {}
Or(a, b) == IF Falsy(a) THEN b ELSE a
Get(o, key) == IF key \in DOMAIN o.fields THEN o.fields[key] ELSE Null

(* envelope.get(key, {}).get("id"), of which the last alternative is made *)
NestedId(o, key) == IF key \notin DOMAIN o.fields THEN Null
                    ELSE IF o.fields[key].is = "object" THEN Get(o.fields[key], "id")
                    ELSE Raise

MandateField(o) == Or(Or(Get(o, "mandate_id"), Get(o, "id")), NestedId(o, "mandate"))
AgentField(o) == Or(Get(o, "agent_id"), NestedId(o, "agent"))
MaxField(o) == Or(Get(o, "max_amount_paise"), Or(Get(o, "maxAmount"), Num(0)))
SkuField(o) == Or(Get(o, "sku_allowlist"), Or(Get(o, "skus"), List(<<>>)))
ExpiryField(o) == Or(Get(o, "expires_at"), Get(o, "expiresAt"))
ItemsField(o) == Or(Get(o, "items"), List(<<>>))

(* str(): the text itself, or what no Mandate is called *)
Str(v) == IF v.is = "text" THEN v.atoms ELSE <<"repr">>

(* Amounts: int(), and the bounds of the models.  A text of digits counts. *)
Digits == <<"7">>
IntOf(v) == IF v.is = "num" THEN v.num ELSE 7
IsInt(v) == v.is = "num" \/ v = Text(Digits)

(* A list of texts; a text is a list of its characters, an object of its keys. *)
AsTexts(v) ==
  CASE v.is = "list"   -> v.values
    [] v.is = "text"   -> [i \in DOMAIN v.atoms |-> Text(<<v.atoms[i]>>)]
    [] v.is = "object" -> [i \in 1..Cardinality(DOMAIN v.fields) |-> Text(<<"key">>)]
    [] OTHER           -> <<Raise>>
AreSkus(v) == AsTexts(v) # <<>> /\ \A i \in DOMAIN AsTexts(v) : AsTexts(v)[i].is = "text"

(* Dates.  fromisoformat takes a date with or without an offset; every     *)
(* trailing Z is cut and one offset put in their place.                    *)
IsoForms == {<<"date">>, <<"date", "offset">>}
Rstripped(atoms) == SubSeq(atoms, 1, SelectLastInSeq(atoms, LAMBDA c : c # "Z"))
IsoOf(atoms) == IF Rstripped(atoms) # atoms THEN Append(Rstripped(atoms), "offset") ELSE atoms

(* Mutant: a date without an offset left as it is *)
WithZoneGiven(iso) == iso
(* exp.replace(tzinfo=UTC) *)
WithZone(iso) == IF iso = <<"date">> THEN <<"date", "offset">> ELSE iso

(* Numbers are instants, and a falsy value that is not null becomes now:   *)
(* pydantic and datetime.now(UTC) make both of them aware.                 *)
IsExpiry(v) == \/ v.is = "text" /\ IsoOf(v.atoms) \in IsoForms
               \/ v.is = "num"
               \/ v.is # "text" /\ Falsy(v)
Aware(v) == v.is = "text" => Contains(WithZone(IsoOf(v.atoms)), "offset")

(* OrderItem(sku, quantity, unit_amount_paise), with get's defaults. *)
Default(o, key, v) == IF key \in DOMAIN o.fields THEN o.fields[key] ELSE v
Quantity(raw) == Default(raw, "quantity", Num(1))
UnitAmount(raw) == Default(raw, "unit_amount_paise", Num(0))
IsItem(raw) ==
  /\ raw.is = "object"
  /\ Default(raw, "sku", Text(<<>>)).is = "text"
  /\ IsInt(Quantity(raw)) /\ IntOf(Quantity(raw)) > 0
  /\ IsInt(UnitAmount(raw)) /\ IntOf(UnitAmount(raw)) >= 0
  /\ Default(raw, "name", Null).is \in {"null", "text"}
AreItems(v) == v.is = "list" /\ (\A i \in DOMAIN v.values : IsItem(v.values[i]))

Failed(reason) == [outcome |-> reason]
WellFormed(o) == /\ IsExpiry(ExpiryField(o)) /\ AreItems(ItemsField(o))
                 /\ IsInt(MaxField(o)) /\ IntOf(MaxField(o)) >= 0 /\ AreSkus(SkuField(o))
MandateOfEnvelope(o) ==
  [outcome |-> "parsed", mandate |-> Str(MandateField(o)), agent |-> Str(AgentField(o)),
   max |-> IntOf(MaxField(o)), skus |-> AsTexts(SkuField(o)), aware |-> Aware(ExpiryField(o)),
   quantities |-> {IntOf(Quantity(ItemsField(o).values[i])) : i \in DOMAIN ItemsField(o).values}]

(* Mutant: the expiry demanded before the ids *)
ParseExpiryFirst(protocol, o) ==
  IF Lower(protocol) \notin Protocols THEN Failed("unknown_protocol")
  ELSE IF Raise \in {MandateField(o), AgentField(o)} THEN Failed("raise")
  ELSE IF ExpiryField(o) = Null THEN Failed("missing_expires_at")
  ELSE IF Falsy(MandateField(o)) \/ Falsy(AgentField(o)) THEN Failed("missing_required_field")
  ELSE IF ~WellFormed(o) THEN Failed("raise")
  ELSE MandateOfEnvelope(o)
(* parse_envelope and _normalize_to_mandate *)
ParseEnvelope(protocol, o) ==
  IF Lower(protocol) \notin Protocols THEN Failed("unknown_protocol")
  ELSE IF Raise \in {MandateField(o), AgentField(o)} THEN Failed("raise")
  ELSE IF Falsy(MandateField(o)) \/ Falsy(AgentField(o)) THEN Failed("missing_required_field")
  ELSE IF ExpiryField(o) = Null THEN Failed("missing_expires_at")
  ELSE IF ~WellFormed(o) THEN Failed("raise")
  ELSE MandateOfEnvelope(o)
=============================================================================
