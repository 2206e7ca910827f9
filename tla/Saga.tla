-------------------------------- MODULE Saga ---------------------------------
(***************************************************************************)
(* The order saga: Inventory, Payment and Shipment composed.  Each service *)
(* keeps its own variables; the assumptions the modules make about the     *)
(* events of the others are replaced by the events the others publish.     *)
(* What a service publishes is at once with the broker for each of its     *)
(* subscribers, who handle it in any order (the inboxes).                  *)
(*                                                                         *)
(* The discount service between the reservation and the payment is its     *)
(* answer: validation succeeds or fails.  The variables have the names     *)
(* they have in the services, with a prefix where two services use one.    *)
(***************************************************************************)
EXTENDS Integers, Sequences, FiniteSets

CONSTANTS
    Orders, None,
    Units, Variants, Stock,       \* units of the inventory (Inventory)
    Lines,                        \* order items with variant and count
    Infos, InfoOf, PayMethodOf,   \* payment informations (Payment)
    Outcomes,                     \* statuses the payment provider posts
    MethodOf, VersionOf, QuantityOf, OrderItems, AddressOf, Grams, Fee,
    KnownVersions,                \* order items and replicas (Shipment)
    InvWorkers, Procs, Workers,   \* handler calls of the three services
    MaxDeliveries,   \* bound: deliveries of validation-succeeded per order
    MaxCallbacks     \* bound: callbacks of the payment provider per order

VARIABLES
    status, variant, orderId, variants, invJob, invInbox, invSent, results,
    redeliveries,                                        \* of Inventory
    validated,       \* validated[o]: "-", "succeeded" or "failed"
    payment, openOrders, infos, overdue, payJob, cron, payDeliveries, erased,
    registered, payCallbacks, reported, events, lost,    \* of Payment
    methods, announced, versions, addresses, vendor, retries, inbox, sent,
    worker, shipment, sentWith, joined, accepted, created, failed, callback, updated,
    doubtful, deliveries, callbacks, faults              \* of Shipment

I == INSTANCE Inventory WITH
        Items <- Units, Workers <- InvWorkers,
        job <- invJob, inbox <- invInbox, sent <- invSent,
        Published <- {"order-created", "payment-enabled", "payment-failed",
                      "validation-failed", "shipment-created"},
        Resent <- {"shipment-created"},
        ShipmentStatuses <- {}, AdminStatuses <- {}, AdminNumbers <- {},
        MaxRedeliveries <- 0, Faults <- FALSE

P == INSTANCE Payment WITH
        MethodOf <- PayMethodOf, InitialInfos <- Infos, Faults <- FALSE,
        Deletes <- FALSE, job <- payJob, deliveries <- payDeliveries,
        callbacks <- payCallbacks

S == INSTANCE Shipment WITH
        Returns <- {}, ReturnItems <- <<>>, VendorAddresses <- {},
        KnownMethods <- DOMAIN Fee, KnownAddresses <- {AddressOf[o] : o \in Orders},
        Archivable <- {}, Retries <- {0}, Reported <- {}, Callbacks <- {},
        MaxCallbacks <- 0, MaxFaults <- 0

(* What the services assume of their constants.                             *)
ASSUME SagaAssumption ==
    /\ IsFiniteSet(Orders) /\ IsFiniteSet(Units)
    /\ None \notin Orders \cup Variants \cup S!Addresses
    /\ Lines \in [Orders -> Seq(I!Line)]
    /\ Stock \in [Units -> Variants \cup {None}]
    /\ InfoOf \in [Orders -> Infos]
    /\ PayMethodOf \in [Infos -> P!Methods]
    /\ OrderItems \in [Orders -> Seq(S!Items)]
    /\ MethodOf \in [S!Items -> S!Methods]
    /\ VersionOf \in [S!Items -> S!Versions]
    /\ QuantityOf \in [S!Items -> Int]
    /\ Grams \in [S!Versions -> Nat]
    /\ Fee \in [S!Methods -> [base : Int, perItem : Int, perKg : Int]]
    /\ KnownVersions \subseteq S!Versions
    /\ {MaxDeliveries, MaxCallbacks} \subseteq Nat

inventoryVars == <<status, variant, orderId, variants, invJob, invInbox,
                   invSent, results, redeliveries>>
paymentVars == <<payment, openOrders, infos, overdue, payJob, cron,
                 payDeliveries, erased, registered, payCallbacks, reported,
                 events, lost>>
shipmentVars == <<methods, announced, versions, addresses, vendor, retries,
                  inbox, sent, worker, shipment, sentWith, joined, accepted, created,
                  failed, callback, updated, doubtful, deliveries, callbacks,
                  faults>>
vars == <<inventoryVars, validated, paymentVars, shipmentVars>>

Init ==
    /\ I!Init /\ P!Init /\ S!Init
    /\ validated = [o \in Orders |-> "-"]

-----------------------------------------------------------------------------
(* Topics with a subscriber in another service.                             *)

(* Messages for the inventory.                                              *)
ToInventory(ms) ==
    /\ invInbox' = invInbox \cup ms
    /\ invSent' = invSent \cup ms
    /\ UNCHANGED <<status, variant, orderId, variants, invJob, results,
                   redeliveries>>

(* ForwardToInventory: the shipment service does not subscribe.             *)
ForwardToInventory ==
    /\ ToInventory({I!Msg(e.topic, e.order) : e \in events' \ events})
    /\ UNCHANGED shipmentVars

(* payment-enabled goes to inventory and shipment, payment-failed to        *)
(* inventory.                                                               *)
ForwardPayment ==
    LET new == events' \ events
        enabled == {e.order : e \in {e \in new : e.topic = "payment-enabled"}}
    IN  /\ ToInventory({I!Msg(e.topic, e.order) : e \in new})
        /\ inbox' = inbox \cup enabled
        /\ sent' = sent \cup enabled
        /\ UNCHANGED <<methods, announced, versions, addresses, vendor, retries, worker,
                       shipment, sentWith, joined, accepted, created, failed,
                       callback, updated, doubtful, deliveries, callbacks,
                       faults>>

(* shipment/created goes to inventory; creation-failed does not.            *)
ForwardShipment ==
    ToInventory({I!Msg("shipment-created", shipment[s].owner) :
                    s \in created' \ created})

-----------------------------------------------------------------------------
(* The order service announces an order that was placed.                    *)
PlaceOrder(o) ==
    /\ I!OrderPlaced(o)
    /\ UNCHANGED <<validated, paymentVars, shipmentVars>>

InventoryWorks(w) ==
    /\ I!Handle(w) \/ I!Work(w)
    /\ UNCHANGED <<validated, paymentVars, shipmentVars>>

(* The discount service answers reservation-succeeded.                      *)
Validate(o) ==
    /\ I!Answered(o, "succeeded")
    /\ validated[o] = "-"
    /\ \/ /\ validated' = [validated EXCEPT ![o] = "succeeded"]
          /\ UNCHANGED inventoryVars
       \/ /\ validated' = [validated EXCEPT ![o] = "failed"]
          /\ ToInventory({I!Msg("validation-failed", o)})
    /\ UNCHANGED <<paymentVars, shipmentVars>>

(* StartPaymentEarly: the payment subscribes to reservation-succeeded.      *)
StartPaymentEarly(p, o) ==
    /\ I!Answered(o, "succeeded")
    /\ P!HandleOrderValidationSucceeded(p, o)
    /\ UNCHANGED <<inventoryVars, validated, shipmentVars>>

StartPayment(p, o) ==
    /\ validated[o] = "succeeded"
    /\ P!HandleOrderValidationSucceeded(p, o)
    /\ UNCHANGED <<inventoryVars, validated, shipmentVars>>

PaymentWorks(p) ==
    /\ P!Start(p) \/ P!Update(p)
    /\ ForwardPayment
    /\ UNCHANGED validated

PaymentScheduled(m) ==
    /\ P!Schedule(m)
    /\ ForwardPayment
    /\ UNCHANGED validated

PaymentOverdue(o) ==
    /\ P!Overdue(o)
    /\ UNCHANGED <<inventoryVars, validated, shipmentVars>>

PaymentCallback(p, o, s) ==
    /\ P!Callback(p, o, s)
    /\ UNCHANGED <<inventoryVars, validated, shipmentVars>>

ShipmentWorks(w) ==
    /\ S!Handle(w) \/ S!Create(w)
    /\ ForwardShipment
    /\ UNCHANGED <<validated, paymentVars>>

(* What the services owe: to handle what was delivered, to run on with      *)
(* what was started, to tick, and time to pass.                             *)
Services ==
    \/ \E w \in InvWorkers : InventoryWorks(w)
    \/ \E o \in Orders : Validate(o) \/ PaymentOverdue(o)
    \/ \E p \in Procs, o \in Orders : StartPayment(p, o)
    \/ \E p \in Procs : PaymentWorks(p)
    \/ \E m \in {"PREPAYMENT", "INVOICE"} : PaymentScheduled(m)
    \/ \E w \in Workers : ShipmentWorks(w)

(* What customers and the payment provider may do.                          *)
Environment ==
    \/ \E o \in Orders : PlaceOrder(o)
    \/ \E p \in Procs, o \in Orders, s \in Outcomes : PaymentCallback(p, o, s)

Next == Services \/ Environment

Spec == Init /\ [][Next]_vars

(* Some service goes on as long as one of them has something to do: less    *)
(* than the fairness of every single handler that the services assume.      *)
FairSpec == Spec /\ WF_vars(Services)

-----------------------------------------------------------------------------
Enabled(o) == P!Enabled(o) \in events
Cancelled(o) == P!Failed(o) \in events
HandedOver(o) == \E s \in accepted : shipment[s].owner = o

(* Money was asked for or goods were released for an order, and it was not  *)
(* cancelled: then the inventory holds exactly what it ordered.  No unit is *)
(* charged to or shipped for an order that lost it to another one, however  *)
(* refusals, releases and handlers of four services interleave.  Excepted   *)
(* are cancelled orders: a payment that is overdue is failed whether its    *)
(* goods are on the way or not.                                             *)
SoldIsHeld ==
    \A o \in Orders : (registered[o] > 0 \/ Enabled(o)) /\ ~Cancelled(o) =>
        \A v \in Variants :
            Cardinality({i \in I!Held(o) : variant[i] = v})
                = Cardinality(I!Ordered(o, v))

(* Every order that was placed comes to an end: its shipment is created or  *)
(* refunded, or it is refused or cancelled and its units go back.  Excepted *)
(* is a prepayment reported as FAILED, OPEN or INKASSO, which is stored and *)
(* which nobody announces.                                                  *)
OrdersEnd ==
    \A o \in Orders :
        I!Msg("order-created", o) \in invSent ~>
            \/ S!Answered(o, {OrderItems[o][n] : n \in DOMAIN OrderItems[o]})
            \/ /\ \/ I!Answered(o, "failed") \/ validated[o] = "failed"
                  \/ Cancelled(o)
               /\ I!Held(o) = {}
            \/ /\ P!Method(o) = "PREPAYMENT"
               /\ reported[o] \cap P!StoredUnanswered # {}

(* The saga implements Sale.  The phase of an order is what the services    *)
(* have announced of it, the latest step first.                             *)
Phase(o) ==
    IF Cancelled(o) THEN "cancelled"
    ELSE IF HandedOver(o) THEN "handed over"
    ELSE IF Enabled(o) THEN "enabled"
    ELSE IF validated[o] = "succeeded" THEN "approved"
    ELSE IF validated[o] = "failed" \/ I!Answered(o, "failed") THEN "refused"
    ELSE IF I!Answered(o, "succeeded") THEN "reserved"
    ELSE IF I!Msg("order-created", o) \in invSent THEN "placed"
    ELSE "new"

Abstract == INSTANCE Sale WITH
    phase <- [o \in Orders |-> Phase(o)],
    Need <- [o \in Orders |-> [v \in Variants |-> Cardinality(I!Ordered(o, v))]],
    Units <- [v \in Variants |-> Cardinality({i \in Units : Stock[i] = v})]

(* Reservations, validations, payments and shipments of the orders come in  *)
(* the order of Sale, and no two orders are promised the same unit.         *)
SaleImplemented == Abstract!Spec
=============================================================================
