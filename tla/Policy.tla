------------------------------- MODULE Policy -------------------------------
(***************************************************************************)
(* The PolicyEngine (C5): evaluate_proposal as a function of a Proposal    *)
(* and of the Mandate read from the Vault.  The first failure wins.  Of a  *)
(* merchant with a malformed entry get_item raises, whatever the SKU: an   *)
(* exception nobody catches.                                               *)
(* Amounts are Python integers (unbounded) in paise; copy is abstracted to *)
(* whether the joined, lowered text holds one of _DARK_PATTERNS.           *)
(***************************************************************************)
EXTENDS Integers, SequencesExt

CONSTANTS Catalog,   \* Catalog[merchant][sku]: the offer, fixed after loading
          Malformed  \* merchants with an entry that is no CatalogItem

Lines(p) == {p.items[i] : i \in DOMAIN p.items}

Listed(p, line) == p.merchant \in DOMAIN Catalog /\ line.sku \in DOMAIN Catalog[p.merchant]
Offer(p, line) == Catalog[p.merchant][line.sku]

OverLimit(p, m) == p.total > m.max
SkuNotAllowed(p, m) == \E line \in Lines(p) : line.sku \notin m.skus
InventedPrice(p) ==
  \E line \in Lines(p) : ~Listed(p, line) \/ line.unit # Offer(p, line).unit

(* The first get_item raises; a cart of no lines asks for no offer.        *)
Unreadable(p) == p.merchant \in Malformed /\ p.items # <<>>

(* Floor of the percentage, line by line, as // 100 does. *)
LineDiscount(p, line) == (Offer(p, line).unit * line.qty * Offer(p, line).maxPercent) \div 100
MaxDiscount(p) == FoldLeft(LAMBDA sum, line : sum + LineDiscount(p, line), 0, p.items)

InventedDiscount(p) == p.discount < 0 \/ p.discount > MaxDiscount(p)
DarkPattern(p) == p.copy = "pressing"

EvaluateProposal(p, m) ==
  IF OverLimit(p, m) THEN "over_limit"
  ELSE IF SkuNotAllowed(p, m) THEN "sku_not_allowed"
  ELSE IF Unreadable(p) THEN "raise"
  ELSE IF InventedPrice(p) THEN "invented_price"
  ELSE IF InventedDiscount(p) THEN "invented_discount"
  ELSE IF DarkPattern(p) THEN "dark_pattern"
  ELSE "allowed"
=============================================================================
