------------------------------ MODULE MCWebhook ------------------------------
(***************************************************************************)
(* Payment events of two orders for one Mandate and for the Mandate that   *)
(* is found by the order id; two payments may fail on one order.           *)
(***************************************************************************)
EXTENDS Webhook

Terms == [agent : Agent, exp : {[aware |-> TRUE, at |-> 1]},
          status : {"none", "captured", "failed"}, last : {NoRow, "pay1", "pay2"}]

Pay(type, order, payment, noted) ==
  [type |-> type, order |-> order, payment |-> payment, created |-> "t1", noted |-> noted]

Captured == Pay("payment.captured", "order1", "pay1", "m1")
Failed == Pay("payment.failed", "order1", "pay1", "m1")
FailedAgain == Pay("payment.failed", "order1", "pay2", "m1")
ByOrder == Pay("payment.failed", "order2", "pay2", NoRow)
NoTarget == Pay("payment.captured", NoRow, "pay1", NoRow)
Unknown == Pay("order.paid", NoRow, NoRow, NoRow)

AllEvents == {Captured, Failed, FailedAgain, ByOrder, NoTarget, Unknown}
PaidEvents == {Captured, Failed, FailedAgain, ByOrder}
Keys == {EventKey(e) : e \in Event}
==============================================================================
