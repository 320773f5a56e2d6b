------------------------------ MODULE Decision -------------------------------
(***************************************************************************)
(* How one checkout request is decided, on values: firewall, parser, match *)
(* with the Mandate, then the policy, step by step as the code computes    *)
(* it.  Checkout takes these stages as the functions of Gate and Policy;   *)
(* here they are compared with the computation.                            *)
(***************************************************************************)
EXTENDS Parser, Firewall, Storefront, Gate

CONSTANT Submission  \* requests: envelope, protocol, proposal, and the Mandate's terms

(* What the models of Proposal, OrderItem and Mandate demand of a request. *)
IsProposal(p) ==
  /\ p.total \in Nat /\ p.discount \in Int
  /\ p.items \in Seq([sku : STRING, qty : Nat \ {0}, unit : Nat])

ASSUME SubmissionConstants ==
  \A s \in Submission :
    /\ IsProposal(s.proposal) /\ s.terms.max \in Nat
    /\ s.envelope # NoEnvelope => s.envelope \in JsonValue

VARIABLES req,       \* the request
          at,        \* the stage it is at, or how it ended
          cleaned,   \* the envelope, sanitized
          parsed,    \* what the parser made of it
          line,      \* the line of the proposal the policy is at
          allowance, \* max_discount so far
          verdict    \* the reason_code, "allowed", "raise", or "none" yet

decisionVars == <<req, at, cleaned, parsed, line, allowance, verdict>>

Cart == req.proposal

DecisionInit ==
  /\ req \in Submission /\ at = "firewall"
  /\ cleaned = Null /\ parsed = Failed("none")
  /\ line = 1 /\ allowance = 0 /\ verdict = "none"

End(stage, reason) == at' = stage /\ verdict' = reason
Go(stage) == at' = stage /\ UNCHANGED verdict

(* firewall.sanitize, unless there is no envelope *)
Sanitize ==
  /\ at = "firewall"
  /\ \/ req.envelope = NoEnvelope /\ Go("bounds") /\ UNCHANGED cleaned
     \/ /\ req.envelope # NoEnvelope
        /\ IF Walk[req.envelope] THEN End("gated", "idpi_detected") /\ UNCHANGED cleaned
           ELSE Go("parser") /\ cleaned' = Sanitized[req.envelope]
  /\ UNCHANGED <<req, parsed, line, allowance>>

(* Mutant: the return after the refusal of another Mandate forgotten *)
ParseNoReturn ==
  LET result == ParseEnvelope(req.protocol, cleaned) IN
  /\ at = "parser"
  /\ IF req.protocol = "" THEN End("gated", "unknown_protocol") /\ UNCHANGED parsed
     ELSE /\ parsed' = result
          /\ IF result.outcome # "parsed" THEN End("gated", result.outcome)
             ELSE IF result.mandate # Cart.mandate THEN End("bounds", "mandate_invalid")
             ELSE Go("bounds")
  /\ UNCHANGED <<req, cleaned, line, allowance>>

(* parse_envelope of what the firewall left, and the match with the proposal *)
Parse ==
  LET result == ParseEnvelope(req.protocol, cleaned) IN
  /\ at = "parser"
  /\ IF req.protocol = "" THEN End("gated", "unknown_protocol") /\ UNCHANGED parsed
     ELSE /\ parsed' = result
          /\ IF result.outcome # "parsed" THEN End("gated", result.outcome)
             ELSE IF result.mandate # Cart.mandate THEN End("gated", "mandate_invalid")
             ELSE Go("bounds")
  /\ UNCHANGED <<req, cleaned, line, allowance>>

(* evaluate_proposal: the amount, then every SKU *)
CheckBounds ==
  /\ at = "bounds"
  /\ IF Cart.total > req.terms.max THEN End("decided", "over_limit")
     ELSE IF \E i \in DOMAIN Cart.items : Cart.items[i].sku \notin req.terms.skus
     THEN End("decided", "sku_not_allowed")
     ELSE Go("lines")
  /\ UNCHANGED <<req, cleaned, parsed, line, allowance>>

(* Mutant: the discount rounded per piece *)
DiscountPerPiece(offer, qty) == ((offer.unit * offer.maxPercent) \div 100) * qty
Discount(offer, qty) == (offer.unit * qty * offer.maxPercent) \div 100

(* Mutant: whatever get_item raises taken for a missing offer *)
CheckLineCatchAll ==
  LET quoted == Cart.items[line]
      found == GetItem(Cart.merchant, quoted.sku)
  IN /\ at = "lines" /\ line <= Len(Cart.items)
     /\ IF found.error # "none" THEN End("decided", "invented_price") /\ UNCHANGED <<line, allowance>>
        ELSE IF found.items[1].unit # quoted.unit
        THEN End("decided", "invented_price") /\ UNCHANGED <<line, allowance>>
        ELSE /\ allowance' = allowance + Discount(found.items[1], quoted.qty)
             /\ line' = line + 1 /\ UNCHANGED <<at, verdict>>
     /\ UNCHANGED <<req, cleaned, parsed>>

(* ... then line by line the offer, its price and its discount *)
CheckLine ==
  LET quoted == Cart.items[line]
      found == GetItem(Cart.merchant, quoted.sku)
  IN /\ at = "lines" /\ line <= Len(Cart.items)
     /\ IF found.error = "ValidationError" THEN End("decided", "raise") /\ UNCHANGED <<line, allowance>>
        ELSE IF found.error = "KeyError" THEN End("decided", "invented_price") /\ UNCHANGED <<line, allowance>>
        ELSE IF found.items[1].unit # quoted.unit
        THEN End("decided", "invented_price") /\ UNCHANGED <<line, allowance>>
        ELSE /\ allowance' = allowance + Discount(found.items[1], quoted.qty)
             /\ line' = line + 1 /\ UNCHANGED <<at, verdict>>
     /\ UNCHANGED <<req, cleaned, parsed>>

(* ... then the discount, and the copy. *)
CheckOffer ==
  /\ at = "lines" /\ line > Len(Cart.items)
  /\ End("decided", IF Cart.discount < 0 \/ Cart.discount > allowance THEN "invented_discount"
                    ELSE IF Cart.copy = "pressing" THEN "dark_pattern" ELSE "allowed")
  /\ UNCHANGED <<req, cleaned, parsed, line, allowance>>

DecisionNext == Sanitize \/ Parse \/ CheckBounds \/ CheckLine \/ CheckOffer
DecisionSpec == DecisionInit /\ [][DecisionNext]_decisionVars

-----------------------------------------------------------------------------
(* Type: a verdict is there exactly when the request is decided.           *)
DecisionTypeOK ==
  /\ at \in {"firewall", "parser", "bounds", "lines", "gated", "decided"}
  /\ line \in 1..(Len(Cart.items) + 1) /\ allowance \in Nat
  /\ verdict # "none" <=> at \in {"gated", "decided"}

(* What the firewall lets pass it would let pass again, unchanged: nothing *)
(* it looks for appears, or stays, when the soft hyphens are taken out.    *)
PassedIsClean ==
  at # "firewall" /\ cleaned # Null => ~Walk[cleaned] /\ Sanitized[cleaned] = cleaned

(* A parsed Mandate is one the rest may rely on, whatever spelling or kind *)
(* of value the envelope had: an expiry that compares with the clock       *)
(* ("timezone-aware UTC", docs/SPEC.md), a SKU, quantities and an amount   *)
(* within bounds.                                                          *)
ParsedIsWhole ==
  parsed.outcome = "parsed" =>
    /\ parsed.mandate # <<>> /\ parsed.agent # <<>>
    /\ parsed.aware /\ parsed.max >= 0 /\ parsed.skus # <<>>
    /\ \A qty \in parsed.quantities : qty > 0

(* The record of Gate that stands for the request. *)
FieldState(v) == IF v = Raise THEN "malformed" ELSE IF Falsy(v) THEN Missing
                 ELSE IF Str(v) = Cart.mandate THEN "same" ELSE "other"
Abstracted(o) ==
  [tainted |-> Walk[req.envelope],
   protocol |-> IF req.protocol = "" THEN Missing
                ELSE IF Lower(req.protocol) \in Protocols THEN Lower(req.protocol) ELSE "unknown",
   mandate |-> FieldState(MandateField(o)), agent |-> FieldState(AgentField(o)),
   exp |-> IF ExpiryField(o) = Null THEN Missing
           ELSE IF IsExpiry(ExpiryField(o)) THEN "given" ELSE "malformed",
   skus |-> IF AsTexts(SkuField(o)) = <<>> THEN Missing ELSE "given",
   rest |-> IF WellFormed(o) THEN "given" ELSE "malformed"]

(* The words it is made of: what is missing is none of them, and no        *)
(* envelope is no such record.                                             *)
Words == Protocols \cup {"unknown", "malformed", "given", "same", "other"}
ASSUME WordConstants ==
  LET field == Words \cup {Missing} IN
  /\ Missing \notin Words
  /\ NoEnvelope \notin [tainted : BOOLEAN, protocol : field, mandate : field, agent : field,
                        exp : field, skus : field, rest : field]

(* The gate that Checkout takes in one step is the computation: it refuses *)
(* with the same reason, raises where it raises, and is open where the     *)
(* request reaches the policy.                                             *)
GateIsTheComputation ==
  LET gate == IF req.envelope = NoEnvelope THEN "open"
              ELSE GateVerdict(Abstracted(Sanitized[req.envelope]), "same")
  IN /\ at = "gated" => verdict = gate
     /\ at \in {"bounds", "lines", "decided"} => gate = "open"

(* The Catalog as Policy has it: the first entry of every SKU of a         *)
(* merchant whose entries are all whole.                                   *)
Readable == {m \in DOMAIN CatalogFile : GetCatalog(m).error = "none"}
Offers == [m \in Readable |->
            [sku \in {CatalogFile[m][i].sku : i \in DOMAIN CatalogFile[m]} |->
              GetItem(m, sku).items[1]]]
Unbuilt == {m \in DOMAIN CatalogFile : GetCatalog(m).error = "ValidationError"}
P == INSTANCE Policy WITH Catalog <- Offers, Malformed <- Unbuilt

(* The policy that Checkout takes in one step is the loop of the code, its *)
(* early returns included, and raises where an entry of the merchant that  *)
(* is no CatalogItem makes the loop raise.                                 *)
PolicyIsTheLoop == at = "decided" => verdict = P!EvaluateProposal(Cart, req.terms)

(* Rounding: the discount allowed is never more than the percentages grant *)
(* on the whole cart, and less by less than a paisa per line (the code     *)
(* adds the floors of the lines).                                          *)
Exact == FoldLeft(LAMBDA sum, l : sum + P!Offer(Cart, l).unit * l.qty * P!Offer(Cart, l).maxPercent,
                  0, Cart.items)
DiscountBound ==
  at = "lines" /\ line > Len(Cart.items) =>
    /\ 100 * allowance <= Exact
    /\ Exact - 100 * allowance <= 99 * Len(Cart.items)

(* What an Agent reads is what it is held to, by whichever door: an        *)
(* allowed cart has listed prices only, and a cart quoted from the first   *)
(* listing of each SKU, or from the offers read one by one, is not refused *)
(* for its prices.                                                         *)
Views == {McpToolsCall("list_catalog_items", Cart.merchant), ReadCatalog(Cart.merchant)}
First(shown, sku) == SelectInSeq(shown.items, LAMBDA i : i.sku = sku)
Quotes(l, i) == i.sku = l.sku /\ i.unit = l.unit
QuotesHold ==
  at = "decided" =>
    /\ \A shown \in Views :
         /\ verdict = "allowed" /\ Cart.items # <<>> => shown.error = "none"
         /\ verdict = "allowed" => \A l \in P!Lines(Cart) : \E i \in DOMAIN shown.items : Quotes(l, shown.items[i])
         /\ shown.error = "none" /\ (\A l \in P!Lines(Cart) :
                 LET n == First(shown, l.sku) IN n # 0 /\ Quotes(l, shown.items[n])) =>
              verdict # "invented_price"
    /\ (\A l \in P!Lines(Cart) : LET offer == ReadCatalogItem(Cart.merchant, l.sku)
                                 IN offer.error = "none" /\ Quotes(l, offer.items[1])) =>
         verdict # "invented_price"
=============================================================================
