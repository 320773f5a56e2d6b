----------------------------- MODULE MCCheckout -----------------------------
(* A shop of one offer, two Mandates' terms and a handful of envelopes. *)
EXTENDS Checkout

Terms(agent, at, max) == [agent |-> agent, exp |-> [aware |-> TRUE, at |-> at],
                          max |-> max, skus |-> {"tea"}]
TwoTerms == {Terms("a1", 1, 10), Terms("a1", 3, 5)}   \* short and wide, long and narrow
NaiveTerms == [Terms("a1", 1, 10) EXCEPT !.exp.aware = FALSE]
AllTerms == TwoTerms \cup {NaiveTerms}
OneTerm == {Terms("a1", 1, 10)}

Shop == [m |-> [tea |-> [unit |-> 10, maxPercent |-> 10], pot |-> [unit |-> 5, maxPercent |-> 0]]]

Buy(total, discount, sku) ==
  [mandate |-> "m1", merchant |-> "m", total |-> total, discount |-> discount, copy |-> "plain",
   items |-> <<[sku |-> sku, qty |-> 1, unit |-> 10]>>]
Unreadables == {[Buy(9, 1, "tea") EXCEPT !.merchant = "w"]}
Proposals == {Buy(9, 1, "tea"), Buy(9, 2, "tea"), Buy(5, 0, "pot")} \cup Unreadables
FewProposals == {Buy(9, 1, "tea")} \cup Unreadables

GoodEnvelope == [tainted |-> FALSE, protocol |-> "ap2", mandate |-> "m1", agent |-> "a1",
                 exp |-> "given", skus |-> "given", rest |-> "given"]
Envelopes == {NoEnvelope, GoodEnvelope, [GoodEnvelope EXCEPT !.tainted = TRUE],
              [GoodEnvelope EXCEPT !.mandate = "m2"], [GoodEnvelope EXCEPT !.skus = Missing]}
CleanEnvelopes == {NoEnvelope}
=============================================================================
