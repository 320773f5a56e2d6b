------------------------------ MODULE MCGateway ------------------------------
(* One Mandate, whose payment is captured while an operator stores it anew. *)
EXTENDS Gateway

Terms(max, status, last) ==
  [agent |-> "a1", exp |-> [aware |-> TRUE, at |-> 1], max |-> max, skus |-> {"tea"},
   status |-> status, last |-> last]
(* An operator may narrow the bounds of a Mandate that was paid for. *)
StoredTerms == {Terms(10, "none", NoRow), Terms(10, "captured", "pay1"), Terms(5, "captured", "pay1")}

Shop == [m |-> [tea |-> [unit |-> 10, maxPercent |-> 10]]]
Cart == [mandate |-> "m1", merchant |-> "m", total |-> 9, discount |-> 1, copy |-> "plain",
         items |-> <<[sku |-> "tea", qty |-> 1, unit |-> 10]>>]

Captured == [type |-> "payment.captured", order |-> "order1", payment |-> "pay1",
             created |-> "t1", noted |-> "m1"]
Carts == {Cart}
NoEnvelopes == {NoEnvelope}
Events == {Captured}
Keys == {EventKey(e) : e \in Event}
==============================================================================
