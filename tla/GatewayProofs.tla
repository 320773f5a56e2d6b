---------------------------- MODULE GatewayProofs ----------------------------
(***************************************************************************)
(* The gateway as a whole: checkout and the webhook keep their promises in *)
(* one process over one Vault, each as if the other were not there.        *)
(***************************************************************************)
EXTENDS Gateway, CheckoutProofs, WebhookProofs

(* What a delivery does to the Vault is what an operator's store may do.   *)
LEMMA DeliveryVault ==
  ASSUME HookInv, NEW d \in Caller, DeliveryStep(d)
  PROVE  [Next]_vaultVars
<1>1. /\ d \in Session
      /\ BeginApply(d) => Target(d) \in MandateId /\ Updated(seen[d], evt[d]) \in Payload
  <2>1. hook[d] = "store" =>
          Target(d) \in MandateId /\ seen[d] \in Payload /\ evt[d] \in Event /\ evt[d].type \in Applyable
    BY DEF HookInv, Sound, Targets, Carries
  <2>2. QED
    BY <2>1, HookConstants DEF BeginApply
<1>2. StoreStep(d) => Next
  BY <1>1 DEF Next, OperatorStep
<1>3. CASE BeginApply(d)
  BY <1>1, <1>2, <1>3 DEF BeginApply, Target, StoreStep
<1>4. CASE CommitApply(d)
  BY <1>2, <1>4 DEF CommitApply, StoreStep
<1>5. CASE CallFails(d)
  BY <1>2, <1>5 DEF CallFails, StoreStep
<1>6. CASE TurnAway(d) \/ Deliver(d) \/ Claim(d) \/ AfterMark(d) \/ LoadMandate(d)
           \/ LogApply(d) \/ Acknowledge(d)
  BY <1>6 DEF TurnAway, Deliver, Claim, AfterMark, LoadMandate, LogApply, Acknowledge
<1>7. QED
  BY <1>3, <1>4, <1>5, <1>6 DEF DeliveryStep, HandlerStep

(* Serving a request changes nothing the webhook knows.                    *)
LEMMA RequestVault ==
  ASSUME NEW r \in Request, Serve(r)
  PROVE  UNCHANGED vaultVars
  BY DEF Serve, Receive, Validate, Evaluate, Fetch, Attempt, WriteAudit, AuditFails, Respond

(* The webhook inside the gateway is the webhook: deliveries interleave    *)
(* with operators' stores and restarts, whatever requests are served.      *)
THEOREM WebhookInGateway == GatewaySpec => DeliveriesStandAlone
<1>1. GatewayInit => HookInit
  BY DEF GatewayInit, CheckoutInit, Init, HookInit
<1>2. [GatewayNext]_gatewayVars => [HookNext]_webhookVars
  <2> SUFFICES ASSUME [GatewayNext]_gatewayVars PROVE [HookNext]_webhookVars
    OBVIOUS
  <2>1. CASE Operate
    BY <2>1 DEF Operate, HookNext
  <2>2. ASSUME NEW r \in Request, Requested(r) PROVE UNCHANGED webhookVars
    BY <2>2, RequestVault DEF Requested, webhookVars
  <2>3. ASSUME NEW d \in Caller, Delivered(d) PROVE HookNext
    BY <2>3 DEF Delivered, HookNext
  <2>4. CASE Kill
    BY <2>4 DEF Kill, HookNext
  <2>5. CASE UNCHANGED gatewayVars
    BY <2>5 DEF gatewayVars, webhookVars
  <2>6. QED
    BY <2>1, <2>2, <2>3, <2>4, <2>5 DEF GatewayNext
<1>3. QED
  BY <1>1, <1>2, PTL DEF GatewaySpec, DeliveriesStandAlone, HookSpec

LEMMA GatewayHookInv == GatewaySpec => []HookInv
  BY WebhookInGateway, HookAlways, PTL DEF DeliveriesStandAlone

(* Checkout inside the gateway is checkout: a payment event is a store of  *)
(* an operator, and no promise of Checkout depends on who stores.          *)
THEOREM CheckoutInGateway == GatewaySpec => RequestsStandAlone
<1>1. GatewayInit => CheckoutInit
  BY DEF GatewayInit
<1>2. HookInv /\ [GatewayNext]_gatewayVars => [CheckoutNext]_checkoutVars
  <2> SUFFICES ASSUME HookInv, [GatewayNext]_gatewayVars PROVE [CheckoutNext]_checkoutVars
    OBVIOUS
  <2>1. CASE Operate
    BY <2>1 DEF Operate, CheckoutNext, Next, OperatorStep
  <2>2. ASSUME NEW r \in Request, Requested(r) PROVE CheckoutNext
    BY <2>2 DEF Requested, CheckoutNext
  <2>3. ASSUME NEW d \in Caller, Delivered(d) PROVE [CheckoutNext]_checkoutVars
    BY <2>3, DeliveryVault DEF Delivered, CheckoutNext, checkoutVars
  <2>4. CASE Kill
    BY <2>4 DEF Kill, CheckoutNext
  <2>5. CASE UNCHANGED gatewayVars
    BY <2>5 DEF gatewayVars, checkoutVars
  <2>6. QED
    BY <2>1, <2>2, <2>3, <2>4, <2>5 DEF GatewayNext
<1>3. QED
  BY <1>1, <1>2, GatewayHookInv, PTL DEF GatewaySpec, RequestsStandAlone, CheckoutSpec

(* Payment events, redeliveries and restarts included, no order is created *)
(* for a request that arrived with its Mandate revoked.                    *)
THEOREM RevocationStopsMoneyInGateway == GatewaySpec => []NoOrderAfterRevocation
  BY CheckoutInGateway, RevocationStopsMoney, PTL DEF RequestsStandAlone

(* The Vault's rows and sessions stay in their domains under all of it.    *)
THEOREM GatewayVaultTyped == GatewaySpec => []TypeOK
<1>1. CheckoutTypeOK => TypeOK
  BY DEF CheckoutTypeOK
<1>2. QED
  BY <1>1, CheckoutInGateway, CheckoutTyped, PTL DEF RequestsStandAlone

(* No payment event and no death of the process revives a revoked Mandate. *)
THEOREM GatewayRevokedForever == GatewaySpec => RevokedForever
<1>1. CheckoutInv /\ [CheckoutNext]_checkoutVars =>
        [\A m \in MandateId : Revoked(m) => Revoked(m)' /\ ValidateMandate(m)' = "invalid"]_vaultVars
  <2> SUFFICES ASSUME CheckoutInv, [CheckoutNext]_checkoutVars
               PROVE  \A m \in MandateId : Revoked(m) => Revoked(m)' /\ ValidateMandate(m)' = "invalid"
    OBVIOUS
  <2>1. [Next]_vaultVars \/ UNCHANGED mandates
    BY RequestVault DEF CheckoutNext, Crash, checkoutVars, vaultVars
  <2>2. \A m \in MandateId : Revoked(m) => Revoked(m)'
    BY <2>1, VaultStep DEF CheckoutInv, TypeInv, Revoked
  <2>3. QED
    BY <2>2 DEF ValidateMandate
<1>2. CheckoutSpec => RevokedForever
  BY <1>1, CheckoutAlways, PTL DEF CheckoutSpec, RevokedForever
<1>3. QED
  BY <1>2, CheckoutInGateway, PTL DEF RequestsStandAlone

(* Requests in flight do not make an event rewrite a bound.                *)
THEOREM EventsWriteThePaymentInGateway == GatewaySpec => EventKeepsBounds
  BY WebhookInGateway, EventsWriteThePayment, PTL DEF DeliveriesStandAlone

(* Every checkout request stays a Money action, decided, recorded and      *)
(* answered in that order, while payment events rewrite its Mandate.       *)
THEOREM MoneyActionInGateway == GatewaySpec => ImplementsMoneyAction
  BY CheckoutInGateway, CheckoutIsAMoneyAction, PTL DEF RequestsStandAlone
(* Sharing the process with payment events takes no request back.          *)
THEOREM RequestsOnlyAdvanceInGateway == GatewaySpec => RequestsAdvance
  BY CheckoutInGateway, RequestsOnlyAdvance, PTL DEF RequestsStandAlone

(* Nor do requests or operators take a delivery back.                      *)
THEOREM DeliveriesOnlyAdvanceInGateway == GatewaySpec => DeliveriesAdvance
  BY WebhookInGateway, DeliveriesOnlyAdvance, PTL DEF DeliveriesStandAlone
==============================================================================
