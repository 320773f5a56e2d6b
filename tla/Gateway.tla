------------------------------- MODULE Gateway -------------------------------
(***************************************************************************)
(* The gateway as one process: checkout requests, Razorpay's deliveries    *)
(* and the operators' stores run in one event loop over one Vault, and     *)
(* one death of the process takes all of them.                             *)
(***************************************************************************)
EXTENDS Checkout, Webhook

gatewayVars == <<vaultVars, reqVars, markVars, hookVars>>

GatewayInit ==
  /\ CheckoutInit
  /\ MarkInit
  /\ hook = [d \in Caller |-> "new"]
  /\ evt = [d \in Caller |-> NoRow] /\ seen = [d \in Caller |-> NoRow]
  /\ applied = [d \in Caller |-> NoRow]

Operate == /\ OperatorStep(Session \ Caller)
           /\ UNCHANGED reqVars /\ UNCHANGED markVars /\ UNCHANGED hookVars

Requested(r) == Serve(r) /\ UNCHANGED markVars /\ UNCHANGED hookVars

Delivered(d) == DeliveryStep(d) /\ UNCHANGED reqVars

(* The one process is killed. *)
Kill == Crash /\ HookCrash

GatewayNext == \/ Operate
               \/ \E r \in Request : Requested(r)
               \/ \E d \in Caller : Delivered(d)
               \/ Kill

GatewaySpec == GatewayInit /\ [][GatewayNext]_gatewayVars

-----------------------------------------------------------------------------
(* Seen from checkout, the deliveries are operators' stores: every promise *)
(* of Checkout holds while payment events rewrite the same Mandates.       *)
RequestsStandAlone == CheckoutSpec

(* Seen from the webhook, checkout is not there: every promise of Webhook  *)
(* holds while requests are served (run_execute writes no Mandate and no   *)
(* claim).                                                                 *)
DeliveriesStandAlone == HookSpec
=============================================================================
