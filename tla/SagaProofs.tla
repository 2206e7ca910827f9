----------------------------- MODULE SagaProofs ------------------------------
(***************************************************************************)
(* Proofs about Saga, for any number of orders, units, payments, shipments *)
(* and handler calls.  What is proved of the three services alone is taken *)
(* over: in the saga each of them behaves as its own module says.          *)
(***************************************************************************)
EXTENDS Saga, Sums, TLAPS

(* The services with what is proved about them.                             *)
IP == INSTANCE InventoryProofs WITH
        Items <- Units, Workers <- InvWorkers,
        job <- invJob, inbox <- invInbox, sent <- invSent,
        Published <- {"order-created", "payment-enabled", "payment-failed",
                      "validation-failed", "shipment-created"},
        Resent <- {"shipment-created"},
        ShipmentStatuses <- {}, AdminStatuses <- {}, AdminNumbers <- {},
        MaxRedeliveries <- 0, Faults <- FALSE

PP == INSTANCE PaymentProofs WITH
        MethodOf <- PayMethodOf, InitialInfos <- Infos, Faults <- FALSE,
        Deletes <- FALSE, job <- payJob, deliveries <- payDeliveries,
        callbacks <- payCallbacks

SP == INSTANCE ShipmentProofs WITH
        Returns <- {}, ReturnItems <- <<>>, VendorAddresses <- {},
        KnownMethods <- DOMAIN Fee, KnownAddresses <- {AddressOf[o] : o \in Orders},
        Archivable <- {}, Retries <- {0}, Reported <- {}, Callbacks <- {},
        MaxCallbacks <- 0, MaxFaults <- 0

(* Each instance has FiniteSets of its own.                                 *)
LEMMA SameCardinality ==
    \A T : I!Cardinality(T) = Cardinality(T) /\ IP!Cardinality(T) = Cardinality(T)
<1> SUFFICES ASSUME NEW T
             PROVE  I!Cardinality(T) = Cardinality(T) /\ IP!Cardinality(T) = Cardinality(T)
  OBVIOUS
<1>1. I!Cardinality(T) = Cardinality(T)
  BY Zenon DEF I!Cardinality, Cardinality
<1>2. IP!Cardinality(T) = Cardinality(T)
  BY Zenon DEF IP!Cardinality, Cardinality
<1> QED
  BY <1>1, <1>2

LEMMA InventoryConstants == IP!InventoryAssumption
<1>1. IP!IsFiniteSet(Units)
  BY SagaAssumption DEF IsFiniteSet, IP!IsFiniteSet
<1>2. Lines \in [Orders -> Seq(IP!Line)]
  BY SagaAssumption DEF I!Line, IP!Line
<1> QED
  BY <1>1, <1>2, SagaAssumption DEF IP!InventoryAssumption

LEMMA PaymentConstants == PP!PaymentAssumption
BY SagaAssumption DEF PP!PaymentAssumption, PP!Methods, P!Methods

LEMMA ShipmentConstants == SP!ShipmentAssumption
BY SagaAssumption DEF SP!ShipmentAssumption, SP!Items, SP!Methods, SP!Versions,
   SP!Addresses, SP!Owners, SP!Statuses, S!Items, S!Methods, S!Versions, S!Addresses

LEMMA SameReservation ==
    ASSUME NEW w, I!ReserveLine(w)
    PROVE  IP!ReserveLine(w)
<1>1. \A v : I!Available(v) = IP!Available(v)
  BY DEF I!Available, IP!Available
<1>2. ASSUME NEW v, NEW n PROVE I!Found(v, n) = IP!Found(v, n)
  BY <1>1, SameCardinality, Zenon DEF I!Found, IP!Found
<1>3. ASSUME NEW v, NEW n, NEW o, I!ReserveBatch(v, n, o) PROVE IP!ReserveBatch(v, n, o)
  <2>1. I!Found(v, n) = IP!Found(v, n) /\ I!Available(v) = IP!Available(v)
    BY <1>1, <1>2
  <2>2. \A T : I!Reserve(T, o) = IP!Reserve(T, o)
    BY DEF I!Reserve, IP!Reserve
  <2> QED
    BY <1>3, <2>1, <2>2, SameCardinality DEF I!ReserveBatch, IP!ReserveBatch
<1> QED
  BY <1>2, <1>3 DEF I!ReserveLine, IP!ReserveLine, I!Goto, IP!Goto, I!itemVars, IP!itemVars

(* The modules with the proofs extend the services: their steps are the     *)
(* same.                                                                    *)
LEMMA SameInventory == I!Spec => IP!Spec
<1>1. I!Init => IP!Init
  BY DEF I!Init, IP!Init, I!Absent, IP!Absent, I!IdleJob, IP!IdleJob, I!NewJob,
     IP!NewJob, I!NoMsg, IP!NoMsg, I!Msg, IP!Msg
<1>2. ~I!Admin
  BY DEF I!Admin
<1>3. [I!Next]_(I!vars) => [IP!Next]_(IP!vars)
  BY <1>2, SameReservation
  DEF I!Absent, IP!Absent, I!Deleted, IP!Deleted, I!Gone, IP!Gone,
     I!Msg, IP!Msg, I!NoMsg, IP!NoMsg, I!vars, IP!vars,
     I!NewJob, IP!NewJob, I!IdleJob, IP!IdleJob, I!Send, IP!Send,
     I!SendAgain, IP!SendAgain, I!OrderPlaced, IP!OrderPlaced,
     I!SagaContinues, IP!SagaContinues,
     I!ShipmentContinues, IP!ShipmentContinues,
     I!ReturnShipped, IP!ReturnShipped, I!Accept, IP!Accept,
     I!Goto, IP!Goto, I!Done, IP!Done, I!OrderCreated, IP!OrderCreated,
     I!PaymentEnabled, IP!PaymentEnabled,
     I!PaymentFailed, IP!PaymentFailed,
     I!DiscountValidationFailed, IP!DiscountValidationFailed,
     I!ShipmentCreated, IP!ShipmentCreated,
     I!ShipmentStatusUpdated, IP!ShipmentStatusUpdated,
     I!HandlerFails, IP!HandlerFails, I!Publish, IP!Publish,
     I!PublishReservationSucceeded, IP!PublishReservationSucceeded,
     I!PublishReservationFailed, IP!PublishReservationFailed,
     I!ReleaseFind, IP!ReleaseFind, I!ReleaseOne, IP!ReleaseOne,
     I!ReleaseFails, IP!ReleaseFails, I!Target, IP!Target,
     I!UpdateOne, IP!UpdateOne, I!Handle, IP!Handle, I!Work, IP!Work,
     I!Environment, IP!Environment, I!Next, IP!Next
<1> QED
  BY <1>1, <1>3, PTL DEF I!Spec, IP!Spec

LEMMA SamePaymentSteps == [P!Next]_(P!vars) => [PP!Next]_(PP!vars)
BY DEF P!Methods, PP!Methods, P!Scheduled, PP!Scheduled, P!Status, PP!Status,
     P!docs, PP!docs, P!history, PP!history, P!provider, PP!provider,
     P!vars, PP!vars, P!NoPayment, PP!NoPayment, P!Exists, PP!Exists,
     P!Method, PP!Method, P!IdleJob, PP!IdleJob, P!IdleCron, PP!IdleCron,
     P!Enabled, PP!Enabled, P!Failed, PP!Failed, P!Goto, PP!Goto, P!Done,
     PP!Done, P!Publish, PP!Publish, P!PublishNothing, PP!PublishNothing,
     P!PublishWithOpenOrder, PP!PublishWithOpenOrder, P!SetStatus, PP!SetStatus,
     P!HandleOrderValidationSucceeded, PP!HandleOrderValidationSucceeded,
     P!LookupInfo, PP!LookupInfo, P!CreatePayment, PP!CreatePayment,
     P!CreateOpenOrder, PP!CreateOpenOrder, P!PublishEnabledAtStart,
     PP!PublishEnabledAtStart, P!Register, PP!Register, P!SetPending,
     PP!SetPending, P!DeleteOpenOrder, PP!DeleteOpenOrder,
     P!PublishFailedAtStart, PP!PublishFailedAtStart, P!Callback,
     PP!Callback, P!LoadPayment, PP!LoadPayment, P!WriteStatus,
     PP!WriteStatus, P!UpdateCreditCard, PP!UpdateCreditCard,
     P!UpdatePrepayment, PP!UpdatePrepayment, P!UpdateInvoice,
     PP!UpdateInvoice, P!UpdatePaymentStatus, PP!UpdatePaymentStatus,
     P!Overdue, PP!Overdue, P!OverduePayments, PP!OverduePayments,
     P!CheckOpenPayments, PP!CheckOpenPayments, P!FailOverdue,
     PP!FailOverdue, P!AnnounceOverdue, PP!AnnounceOverdue,
     P!CreatePaymentInformation, PP!CreatePaymentInformation,
     P!DeletePaymentInformation, PP!DeletePaymentInformation,
     P!DeletePayment, PP!DeletePayment, P!Start, PP!Start, P!Update,
     PP!Update, P!Schedule, PP!Schedule, P!Admin, PP!Admin, P!Next,
     PP!Next

LEMMA SamePayment == P!Spec => PP!Spec
<1>1. P!Init => PP!Init
  BY DEF P!Scheduled, PP!Scheduled, P!NoPayment, PP!NoPayment, P!IdleJob,
     PP!IdleJob, P!IdleCron, PP!IdleCron, P!Init, PP!Init
<1> QED
  BY <1>1, SamePaymentSteps, PTL DEF P!Spec, PP!Spec

LEMMA SameLoop == \A o, ms : S!LoopOver(o, ms) = SP!LoopOver(o, ms)
<1> SUFFICES ASSUME NEW o, NEW ms PROVE S!LoopOver(o, ms) = SP!LoopOver(o, ms)
  OBVIOUS
<1>1. \A m : S!Group(o, m) = SP!Group(o, m)
  BY DEF S!Group, SP!Group, S!Range, SP!Range
<1>2. \A m : S!FirstMet(o, m) = SP!FirstMet(o, m)
  BY Zenon DEF S!FirstMet, SP!FirstMet, S!Min, SP!Min
<1>3. S!NextMethods(o, ms) = SP!NextMethods(o, ms)
  BY <1>2 DEF S!NextMethods, SP!NextMethods
<1>4. \A m : S!BeginGroup(o, m, ms) = SP!BeginGroup(o, m, ms)
  BY <1>1 DEF S!BeginGroup, SP!BeginGroup, S!Idle, SP!Idle
<1> QED
  BY <1>3, <1>4 DEF S!LoopOver, SP!LoopOver, S!Idle, SP!Idle

LEMMA SameShipmentSteps == [S!Next]_(S!vars) => [SP!Next]_(SP!vars)
<1>1. ASSUME NEW w, S!Handle(w) PROVE SP!Handle(w)
  <2>1. \A o : S!MethodsOf(o) = SP!MethodsOf(o)
    BY DEF S!MethodsOf, SP!MethodsOf, S!Range, SP!Range
  <2>2. PICK o \in Orders : S!OnPaymentEnabled(w, o)
    BY <1>1 DEF S!Handle
  <2>3. SP!OnPaymentEnabled(w, o)
    BY <2>1, <2>2, SameLoop
    DEF S!OnPaymentEnabled, SP!OnPaymentEnabled, S!Accept, SP!Accept, S!Goto, SP!Goto,
        S!replicas, SP!replicas, S!tables, SP!tables, S!outside, SP!outside,
        S!callbackVars, SP!callbackVars
  <2> QED
    BY <2>3 DEF SP!Handle
<1>2. ASSUME NEW w, S!Create(w) PROVE SP!Create(w)
  BY <1>2, SameLoop
  DEF S!replicas, SP!replicas, S!tables, SP!tables, S!outside, SP!outside,
     S!callbackVars, SP!callbackVars, S!MethodKnown, SP!MethodKnown,
     S!Weighable, SP!Weighable, S!Goto, SP!Goto, S!At, SP!At, S!CheckInput,
     SP!CheckInput, S!SaveShipment, SP!SaveShipment, S!NextItem,
     SP!NextItem, S!UpsertOrderItem, SP!UpsertOrderItem, S!JoinOrderItem,
     SP!JoinOrderItem, S!Weigh, SP!Weigh, S!Post, SP!Post, S!NextGroup,
     SP!NextGroup, S!Answer, SP!Answer, S!PublishShipmentCreated,
     SP!PublishShipmentCreated, S!PublishShipmentCreationFailed,
     SP!PublishShipmentCreationFailed, S!Create, SP!Create
<1> QED
  BY <1>1, <1>2
  DEF S!Statuses, SP!Statuses, S!Items, SP!Items, S!Methods, SP!Methods,
     S!Versions, SP!Versions, S!Addresses, SP!Addresses, S!Owners,
     SP!Owners, S!replicas, SP!replicas, S!tables, SP!tables, S!outside,
     SP!outside, S!callbackVars, SP!callbackVars, S!vars, SP!vars, S!Idle,
     SP!Idle, S!IdleCallback, SP!IdleCallback, S!ReplicasFrame,
     SP!ReplicasFrame, S!AddressCreated, SP!AddressCreated,
     S!ProductVariantVersionCreated, SP!ProductVariantVersionCreated,
     S!Announce, SP!Announce, S!CreateShipmentMethod,
     SP!CreateShipmentMethod, S!ArchiveShipmentMethod,
     SP!ArchiveShipmentMethod, S!SetVariables, SP!SetVariables, S!Publish,
     SP!Publish, S!PaymentEnabled, SP!PaymentEnabled, S!Goto, SP!Goto,
     S!RepeatDelivery, SP!RepeatDelivery, S!At, SP!At, S!PostFails,
     SP!PostFails, S!CallFails, SP!CallFails, S!PublishCreatedFails,
     SP!PublishCreatedFails, S!DeliveryFails, SP!DeliveryFails,
     S!CallbackFrame, SP!CallbackFrame, S!UpdateShipmentStatus,
     SP!UpdateShipmentStatus, S!ReadOrderItems, SP!ReadOrderItems,
     S!PublishShipmentStatusUpdated, SP!PublishShipmentStatusUpdated,
     S!CallbackFails, SP!CallbackFails, S!Replicate, SP!Replicate, S!Admin,
     SP!Admin, S!Environment, SP!Environment, S!Fail, SP!Fail, S!Report,
     SP!Report, S!Next, SP!Next

LEMMA SameShipment == S!Spec => SP!Spec
<1>1. S!Init => SP!Init
  BY DEF S!Statuses, SP!Statuses, S!Items, SP!Items, S!Methods, SP!Methods,
     S!Versions, SP!Versions, S!Addresses, SP!Addresses, S!Owners,
     SP!Owners, S!Idle, SP!Idle, S!IdleCallback, SP!IdleCallback, S!Init,
     SP!Init
<1> QED
  BY <1>1, SameShipmentSteps, PTL DEF S!Spec, SP!Spec

-----------------------------------------------------------------------------
(* The payment and the shipment service do in the saga what they do alone.  *)
(* The shipment learns of an event when it is published.                    *)
BrokerTells ==
    /\ \A o \in Orders :
          /\ I!Msg("payment-enabled", o) \in invSent <=> Enabled(o)
          /\ I!Msg("payment-failed", o) \in invSent <=> Cancelled(o)
          /\ I!Msg("validation-failed", o) \in invSent <=> validated[o] = "failed"
    /\ sent = {o \in Orders : Enabled(o)}

LEMMA PaymentSteps == [Next]_vars => [P!Next]_(P!vars)
<1> SUFFICES ASSUME [Next]_vars, ~UNCHANGED paymentVars PROVE P!Next
  BY DEF vars, paymentVars, P!vars, P!docs, P!history, P!provider
<1>1. CASE \E p \in Procs, o \in Orders : StartPayment(p, o)
  BY <1>1 DEF StartPayment, P!Next
<1>2. CASE \E p \in Procs : PaymentWorks(p)
  BY <1>2 DEF PaymentWorks, P!Next
<1>3. CASE \E m \in {"PREPAYMENT", "INVOICE"} : PaymentScheduled(m)
  BY <1>3 DEF PaymentScheduled, P!Next, P!Scheduled
<1>4. CASE \E o \in Orders : PaymentOverdue(o)
  BY <1>4 DEF PaymentOverdue, P!Next
<1>5. CASE \E p \in Procs, o \in Orders, s \in Outcomes : PaymentCallback(p, o, s)
  BY <1>5 DEF PaymentCallback, P!Next
<1> QED
  BY <1>1, <1>2, <1>3, <1>4, <1>5
  DEF Next, Services, Environment, vars, InventoryWorks, Validate, PlaceOrder, ShipmentWorks

LEMMA PaymentAsSpecified == Spec => P!Spec
<1>1. Init => P!Init
  BY DEF Init
<1> QED
  BY <1>1, PaymentSteps, PTL DEF Spec, P!Spec

(* What is known of the payment service, and what its steps publish: one    *)
(* event, of an order it was started for.                                   *)
PaymentKnown ==
    /\ \A e \in events : \E o \in Orders : e \in {P!Enabled(o), P!Failed(o)}
    /\ \A o \in Orders : registered[o] > 0 \/ Enabled(o) \/ Cancelled(o)
                            => payDeliveries[o] > 0
PaymentMoves ==
    \/ events' = events
    \/ \E q \in Orders : /\ events' \in {events \cup {P!Enabled(q)}, events \cup {P!Failed(q)}}
                         /\ payDeliveries'[q] > 0

PaymentInv == PP!Inv /\ PP!OnlyDelivered

LEMMA PaymentIsKnown == PaymentInv => PaymentKnown
<1> SUFFICES ASSUME PaymentInv PROVE PaymentKnown
  OBVIOUS
<1>1. PP!TypeOK /\ PP!OnlyDelivered
  BY DEF PaymentInv, PP!Inv
<1>2. ASSUME NEW e \in events PROVE \E o \in Orders : e \in {P!Enabled(o), P!Failed(o)}
  BY <1>1 DEF PP!TypeOK, PP!Event, P!Enabled, P!Failed
<1>3. ASSUME NEW o \in Orders, registered[o] > 0 \/ Enabled(o) \/ Cancelled(o)
      PROVE  payDeliveries[o] > 0
  <2>1. registered[o] \in Nat /\ payDeliveries[o] \in Nat
    BY <1>1 DEF PP!TypeOK
  <2>2. ~PP!Untouched(o)
    BY <1>3, <2>1 DEF PP!Untouched, Enabled, Cancelled, P!Enabled, P!Failed, PP!Enabled, PP!Failed
  <2> QED
    BY <1>1, <2>1, <2>2 DEF PP!OnlyDelivered
<1> QED
  BY <1>2, <1>3 DEF PaymentKnown

LEMMA PaymentInvHolds == Spec => []PaymentInv
BY PaymentAsSpecified, SamePayment, PaymentConstants, PP!InvHolds, PP!NothingWithoutDelivery, PTL
   DEF PaymentInv

LEMMA PaymentPublishes == PaymentInv /\ PaymentInv' /\ [Next]_vars => PaymentMoves
<1> SUFFICES ASSUME PaymentInv, PaymentInv', [Next]_vars PROVE PaymentMoves
  OBVIOUS
<1>1. [PP!Next]_(PP!vars)
  BY PaymentSteps, SamePaymentSteps
<1>2. PICK q \in Orders \cup {None} : PP!WorksFor(q)
  BY <1>1, PaymentConstants, PP!OutsideWorks DEF PaymentInv
<1>3. CASE q \in Orders
  BY <1>2, <1>3 DEF PP!WorksFor, PaymentMoves, P!Enabled, P!Failed, PP!Enabled, PP!Failed
<1>4. CASE q \notin Orders
  <2>1. events' \subseteq PP!Event
    BY DEF PaymentInv, PP!Inv, PP!TypeOK
  <2>2. PP!Enabled(q) \notin events' /\ PP!Failed(q) \notin events'
    BY <1>4, <2>1 DEF PP!Event, PP!Enabled, PP!Failed
  <2> QED
    BY <1>2, <2>2 DEF PP!WorksFor, PaymentMoves
<1> QED
  BY <1>3, <1>4

-----------------------------------------------------------------------------
(* The shipment service.                                                    *)
LEMMA ShipmentSteps ==
    ASSUME BrokerTells, PaymentMoves, [Next]_vars
    PROVE  [S!Next]_(S!vars)
<1> SUFFICES ASSUME ~UNCHANGED shipmentVars PROVE S!Next
  BY DEF shipmentVars, S!vars
<1>1. CASE \E w \in Workers : ShipmentWorks(w)
  BY <1>1 DEF ShipmentWorks, S!Next
<1>2. CASE ForwardPayment
  <2> DEFINE new == events' \ events
             enabled == {e.order : e \in {x \in new : x.topic = "payment-enabled"}}
  <2>1. /\ inbox' = inbox \cup enabled /\ sent' = sent \cup enabled
        /\ UNCHANGED <<methods, announced, versions, addresses, vendor, retries, worker,
                       shipment, sentWith, joined, accepted, created, failed,
                       callback, updated, doubtful, deliveries, callbacks, faults>>
    BY <1>2 DEF ForwardPayment
  <2>2. enabled # {}
    BY <2>1 DEF shipmentVars
  <2>3. PICK q \in Orders : events' = events \cup {P!Enabled(q)} /\ q \notin sent
    BY <2>2 DEF PaymentMoves, P!Enabled, P!Failed, BrokerTells, Enabled
  <2>4. enabled = {q}
    BY <2>2, <2>3 DEF P!Enabled
  <2>5. S!Publish(q)
    BY <2>1, <2>3, <2>4 DEF S!Publish, S!replicas, S!tables, S!outside, S!callbackVars
  <2> QED
    BY <2>5 DEF S!PaymentEnabled, S!Environment, S!Next
<1> QED
  BY <1>1, <1>2
  DEF Next, Services, Environment, vars, InventoryWorks, Validate, PlaceOrder, StartPayment,
      PaymentWorks, PaymentScheduled, PaymentOverdue, PaymentCallback

-----------------------------------------------------------------------------
(* The order in which the services act on an order: it is validated when    *)
(* its units are reserved, and its payment is started when it is validated. *)
InOrder ==
    /\ validated \in [Orders -> {"-", "succeeded", "failed"}]
    /\ \A o \in Orders :
          /\ validated[o] # "-" => I!Answered(o, "succeeded")
          /\ payDeliveries[o] > 0 => validated[o] = "succeeded"

SagaInv == BrokerTells /\ InOrder

LEMMA DifferentMessages ==
    \A t, u, o, q : I!Msg(t, o) = I!Msg(u, q) <=> t = u /\ o = q
BY DEF I!Msg

LEMMA InventoryWorkKeeps ==
    ASSUME NEW w, I!Handle(w) \/ I!Work(w)
    PROVE  results \subseteq results' /\ invSent' = invSent
<1>1. CASE I!Handle(w)
  BY <1>1 DEF I!Handle, I!OrderCreated, I!PaymentEnabled, I!PaymentFailed, I!Accept,
     I!DiscountValidationFailed, I!ShipmentCreated, I!ShipmentStatusUpdated
<1>2. CASE I!Work(w)
  BY <1>2 DEF I!Work, I!ReserveLine, I!PublishReservationSucceeded,
     I!PublishReservationFailed, I!Publish, I!ReleaseFind, I!ReleaseFails, I!ReleaseOne,
     I!UpdateOne
<1> QED
  BY <1>1, <1>2

LEMMA InventoryMovesKeep ==
    ASSUME SagaInv, UNCHANGED <<validated, paymentVars, shipmentVars>>,
           results \subseteq results',
           \/ invSent' = invSent
           \/ \E o \in Orders : invSent' = invSent \cup {I!Msg("order-created", o)}
    PROVE  SagaInv'
<1>1. InOrder'
  BY DEF SagaInv, InOrder, I!Answered, paymentVars
<1>2. BrokerTells'
  BY DifferentMessages DEF SagaInv, BrokerTells, Enabled, Cancelled, P!Enabled, P!Failed,
     paymentVars, shipmentVars
<1> QED
  BY <1>1, <1>2 DEF SagaInv

(* A step that leaves the events and the inventory alone.                   *)
LEMMA QuietKeeps ==
    ASSUME SagaInv, UNCHANGED <<events, sent, validated, results>>,
           \A o \in Orders : I!Msg("payment-enabled", o) \in invSent'
                                <=> I!Msg("payment-enabled", o) \in invSent,
           \A o \in Orders : I!Msg("payment-failed", o) \in invSent'
                                <=> I!Msg("payment-failed", o) \in invSent,
           \A o \in Orders : I!Msg("validation-failed", o) \in invSent'
                                <=> I!Msg("validation-failed", o) \in invSent,
           \A o \in Orders : payDeliveries'[o] > 0 =>
                                payDeliveries[o] > 0 \/ validated[o] = "succeeded"
    PROVE  SagaInv'
BY DEF SagaInv, InOrder, BrokerTells, I!Answered, Enabled, Cancelled, P!Enabled, P!Failed

LEMMA ValidateKeeps == ASSUME SagaInv, PaymentInv, NEW o \in Orders, Validate(o) PROVE SagaInv'
<1>1. /\ I!Answered(o, "succeeded") /\ validated[o] = "-"
      /\ UNCHANGED <<results, payDeliveries, events, sent>>
  BY DEF Validate, ToInventory, paymentVars, inventoryVars, shipmentVars
<1>2. CASE validated' = [validated EXCEPT ![o] = "succeeded"] /\ UNCHANGED inventoryVars
  <2>1. InOrder'
    BY <1>1, <1>2 DEF SagaInv, InOrder, I!Answered
  <2>2. BrokerTells'
    BY <1>1, <1>2 DEF SagaInv, BrokerTells, InOrder, Enabled, Cancelled, P!Enabled, P!Failed,
       inventoryVars
  <2> QED
    BY <2>1, <2>2 DEF SagaInv
<1>3. CASE /\ validated' = [validated EXCEPT ![o] = "failed"]
           /\ ToInventory({I!Msg("validation-failed", o)})
  <2>1. InOrder'
    BY <1>1, <1>3 DEF SagaInv, InOrder, I!Answered
  <2>2. BrokerTells'
    BY <1>1, <1>3, DifferentMessages
    DEF SagaInv, BrokerTells, InOrder, Enabled, Cancelled, P!Enabled, P!Failed, ToInventory
  <2> QED
    BY <2>1, <2>2 DEF SagaInv
<1> QED
  BY <1>2, <1>3 DEF Validate

(* What the payment service publishes gets to its subscribers.              *)
LEMMA PaymentNews ==
    ASSUME ForwardPayment, PaymentMoves
    PROVE  \/ /\ events' = events
              /\ invSent' = invSent /\ invInbox' = invInbox /\ sent' = sent
           \/ \E q \in Orders, t \in {"payment-enabled", "payment-failed"} :
                 /\ [topic |-> t, order |-> q] \notin events
                 /\ events' = events \cup {[topic |-> t, order |-> q]}
                 /\ invSent' = invSent \cup {I!Msg(t, q)}
                 /\ invInbox' = invInbox \cup {I!Msg(t, q)}
                 /\ sent' = sent \cup IF t = "payment-enabled" THEN {q} ELSE {}
                 /\ payDeliveries'[q] > 0
<1> DEFINE new == events' \ events
           enabled == {e.order : e \in {x \in new : x.topic = "payment-enabled"}}
           messages == {I!Msg(e.topic, e.order) : e \in new}
<1>1. /\ invSent' = invSent \cup messages /\ invInbox' = invInbox \cup messages
      /\ sent' = sent \cup enabled
  BY DEF ForwardPayment, ToInventory
<1>2. CASE new = {}
  <2>1. events' = events
    BY <1>2 DEF PaymentMoves
  <2> QED
    BY <1>1, <1>2, <2>1
<1>3. CASE new # {}
  <2>1. PICK q \in Orders, t \in {"payment-enabled", "payment-failed"} :
           events' = events \cup {[topic |-> t, order |-> q]} /\ payDeliveries'[q] > 0
    BY <1>3 DEF PaymentMoves, P!Enabled, P!Failed
  <2>2. new = {[topic |-> t, order |-> q]} /\ [topic |-> t, order |-> q] \notin events
    BY <1>3, <2>1
  <2>3. messages = {I!Msg(t, q)}
    BY <2>2
  <2>4. enabled = IF t = "payment-enabled" THEN {q} ELSE {}
    BY <2>2
  <2> HIDE DEF new, enabled, messages
  <2> QED
    BY <1>1, <2>1, <2>2, <2>3, <2>4
<1> QED
  BY <1>2, <1>3

(* Its work is for events that were delivered before.                       *)
LEMMA StartedBefore ==
    ASSUME \/ \E p \in Procs : PaymentWorks(p)
           \/ \E m \in {"PREPAYMENT", "INVOICE"} : PaymentScheduled(m)
    PROVE  UNCHANGED <<validated, payDeliveries>>
<1>1. ASSUME NEW p \in Procs, PaymentWorks(p) PROVE UNCHANGED <<validated, payDeliveries>>
  BY <1>1 DEF PaymentWorks, P!Start, P!Update, P!LookupInfo, P!CreatePayment,
     P!CreateOpenOrder, P!PublishEnabledAtStart, P!Register, P!SetPending,
     P!DeleteOpenOrder, P!PublishFailedAtStart, P!LoadPayment, P!UpdatePaymentStatus,
     P!history
<1>2. ASSUME NEW m \in {"PREPAYMENT", "INVOICE"}, PaymentScheduled(m)
      PROVE  UNCHANGED <<validated, payDeliveries>>
  BY <1>2 DEF PaymentScheduled, P!Schedule, P!CheckOpenPayments, P!FailOverdue,
     P!AnnounceOverdue, P!history
<1> QED
  BY <1>1, <1>2

LEMMA PaymentNewsKeeps ==
    ASSUME SagaInv, ForwardPayment, PaymentMoves,
           UNCHANGED <<validated, payDeliveries, results>>
    PROVE  SagaInv'
<1>1. InOrder'
  BY DEF SagaInv, InOrder, I!Answered
<1>2. BrokerTells'
  <2>1. CASE events' = events /\ invSent' = invSent /\ sent' = sent
    BY <2>1 DEF SagaInv, BrokerTells, Enabled, Cancelled, P!Enabled, P!Failed
  <2>2. ASSUME NEW q \in Orders, NEW t \in {"payment-enabled", "payment-failed"},
               events' = events \cup {[topic |-> t, order |-> q]},
               invSent' = invSent \cup {I!Msg(t, q)},
               sent' = sent \cup IF t = "payment-enabled" THEN {q} ELSE {}
        PROVE  BrokerTells'
    <3>1. \A u \in {"payment-enabled", "payment-failed", "validation-failed"} :
             \A o \in Orders :
                I!Msg(u, o) \in invSent' <=> I!Msg(u, o) \in invSent \/ (u = t /\ o = q)
      BY <2>2, DifferentMessages
    <3>2. \A u \in {"payment-enabled", "payment-failed"} : \A o \in Orders :
             [topic |-> u, order |-> o] \in events'
                <=> [topic |-> u, order |-> o] \in events \/ (u = t /\ o = q)
      BY <2>2
    <3>3. sent' = {o \in Orders : P!Enabled(o) \in events'}
      BY <2>2, <3>2 DEF SagaInv, BrokerTells, Enabled, P!Enabled
    <3> QED
      BY <3>1, <3>2, <3>3 DEF SagaInv, BrokerTells, Enabled, Cancelled, P!Enabled, P!Failed
  <2> QED
    BY <2>1, <2>2, PaymentNews
<1> QED
  BY <1>1, <1>2 DEF SagaInv

LEMMA SagaInvStep ==
    ASSUME SagaInv, PaymentInv, PaymentInv', [Next]_vars
    PROVE  SagaInv'
<1>m. PaymentMoves
  BY PaymentPublishes
<1>d. payDeliveries \in [Orders -> Nat]
  BY DEF PaymentInv, PP!Inv, PP!TypeOK
<1>1. ASSUME NEW o \in Orders, PlaceOrder(o) PROVE SagaInv'
  BY <1>1, InventoryMovesKeep DEF PlaceOrder, I!OrderPlaced, I!Send
<1>2. ASSUME NEW w \in InvWorkers, InventoryWorks(w) PROVE SagaInv'
  BY <1>2, InventoryWorkKeeps, InventoryMovesKeep DEF InventoryWorks
<1>3. ASSUME NEW o \in Orders, Validate(o) PROVE SagaInv'
  BY <1>3, ValidateKeeps
<1>4. ASSUME NEW p \in Procs, NEW o \in Orders, StartPayment(p, o) PROVE SagaInv'
  <2>1. /\ validated[o] = "succeeded" /\ payDeliveries' = [payDeliveries EXCEPT ![o] = @ + 1]
        /\ UNCHANGED <<events, sent, validated, results, invSent>>
    BY <1>4 DEF StartPayment, P!HandleOrderValidationSucceeded, inventoryVars, shipmentVars
  <2>2. \A x \in Orders : payDeliveries'[x] > 0 =>
                             payDeliveries[x] > 0 \/ validated[x] = "succeeded"
    BY <1>d, <2>1
  <2> QED
    BY <2>1, <2>2, QuietKeeps
<1>5. ASSUME NEW p \in Procs, PaymentWorks(p) PROVE SagaInv'
  BY <1>5, <1>m, StartedBefore, PaymentNewsKeeps
  DEF PaymentWorks, ForwardPayment, ToInventory
<1>6. ASSUME NEW m \in {"PREPAYMENT", "INVOICE"}, PaymentScheduled(m) PROVE SagaInv'
  BY <1>6, <1>m, StartedBefore, PaymentNewsKeeps
  DEF PaymentScheduled, ForwardPayment, ToInventory
<1>7. ASSUME NEW o \in Orders, PaymentOverdue(o) PROVE SagaInv'
  BY <1>7, QuietKeeps DEF PaymentOverdue, P!Overdue, P!history, inventoryVars, shipmentVars
<1>8. ASSUME NEW p \in Procs, NEW o \in Orders, NEW s \in Outcomes, PaymentCallback(p, o, s)
      PROVE  SagaInv'
  BY <1>8, QuietKeeps DEF PaymentCallback, P!Callback, P!history, inventoryVars, shipmentVars
<1>9. ASSUME NEW w \in Workers, ShipmentWorks(w) PROVE SagaInv'
  <2>1. sent' = sent
    BY <1>9 DEF ShipmentWorks, S!Handle, S!OnPaymentEnabled, S!Accept, S!Create, S!CheckInput,
       S!SaveShipment, S!UpsertOrderItem, S!JoinOrderItem, S!Weigh, S!Post,
       S!PublishShipmentCreated, S!PublishShipmentCreationFailed
  <2>2. /\ invSent' = invSent \cup {I!Msg("shipment-created", shipment[s].owner) :
                                       s \in created' \ created}
        /\ UNCHANGED <<events, validated, results, payDeliveries>>
    BY <1>9 DEF ShipmentWorks, ForwardShipment, ToInventory, paymentVars
  <2>3. \A t \in {"payment-enabled", "payment-failed", "validation-failed"} : \A o \in Orders :
           I!Msg(t, o) \in invSent' <=> I!Msg(t, o) \in invSent
    BY <2>2, DifferentMessages
  <2> QED
    BY <2>1, <2>2, <2>3, QuietKeeps
<1>10. CASE UNCHANGED vars
  BY <1>10, QuietKeeps DEF vars, inventoryVars, paymentVars, shipmentVars
<1> QED
  BY <1>1, <1>2, <1>3, <1>4, <1>5, <1>6, <1>7, <1>8, <1>9, <1>10
  DEF Next, Services, Environment

LEMMA SagaInvHolds == Spec => []SagaInv
<1>1. Init => SagaInv
  BY DEF Init, I!Init, P!Init, S!Init, SagaInv, BrokerTells, InOrder, Enabled, Cancelled
<1>2. SagaInv /\ PaymentInv /\ PaymentInv' /\ [Next]_vars => SagaInv'
  BY SagaInvStep
<1> QED
  BY <1>1, <1>2, PaymentInvHolds, PTL DEF Spec

LEMMA ShipmentAsSpecified == Spec => S!Spec
<1>1. Init => S!Init
  BY DEF Init
<1>2. SagaInv /\ PaymentInv /\ PaymentInv' /\ [Next]_vars => [S!Next]_(S!vars)
  BY PaymentPublishes, ShipmentSteps DEF SagaInv
<1> QED
  BY <1>1, <1>2, PaymentInvHolds, SagaInvHolds, PTL DEF Spec, S!Spec

ShipmentInv == SP!Inv /\ SP!RowsFromEvents

LEMMA ShipmentInvHolds == Spec => []ShipmentInv
BY ShipmentAsSpecified, SameShipment, ShipmentConstants, SP!SpecInv, SP!ShipmentsFollowEvents,
   PTL DEF ShipmentInv

-----------------------------------------------------------------------------
(* The inventory service: the other services publish in the causal order    *)
(* that its module assumes.                                                 *)

(* A shipment is announced to the inventory for a paid order.               *)
LEMMA AnnouncedIsPaid ==
    ASSUME SagaInv, ShipmentInv', NEW w \in Workers, ShipmentWorks(w),
           NEW s \in created' \ created
    PROVE  /\ shipment[s].owner \in Orders
           /\ I!Msg("payment-enabled", shipment[s].owner) \in invSent
           /\ created' = created \cup {s}
<1>1. S!PublishShipmentCreated(w)
  BY DEF ShipmentWorks, S!Handle, S!OnPaymentEnabled, S!Accept, S!Create, S!CheckInput,
     S!SaveShipment, S!UpsertOrderItem, S!JoinOrderItem, S!Weigh, S!Post,
     S!PublishShipmentCreationFailed, S!outside
<1>2. shipment' = shipment /\ sent' = sent /\ created' = created \cup {s}
  BY <1>1 DEF S!PublishShipmentCreated, S!tables
<1>3. s \in SP!Ids'
  BY DEF ShipmentInv, SP!Inv, SP!TypeOK
<1>4. shipment[s].owner \in sent
  BY <1>2, <1>3 DEF ShipmentInv, SP!RowsFromEvents
<1> QED
  BY <1>2, <1>4 DEF SagaInv, BrokerTells

LEMMA Delivered ==
    ASSUME NEW ms, ToInventory(ms)
    PROVE  /\ ms = {} => UNCHANGED I!vars
           /\ \A m : /\ ms = {m} /\ m \notin invSent /\ m.topic \in
                           {"order-created", "payment-enabled", "payment-failed",
                            "validation-failed", "shipment-created"} => I!Send(m)
                     /\ ms = {m} /\ m \in invSent /\ m.topic = "shipment-created"
                           => I!SendAgain(m)
BY DEF ToInventory, I!vars, I!Send, I!SendAgain

LEMMA InventorySteps ==
    ASSUME SagaInv, PaymentInv, PaymentInv', ShipmentInv', [Next]_vars
    PROVE  [I!Next]_(I!vars)
<1>m. PaymentMoves
  BY PaymentPublishes
<1>k. PaymentKnown /\ payDeliveries \in [Orders -> Nat]
  BY PaymentIsKnown DEF PaymentInv, PP!Inv, PP!TypeOK
<1>t. \A t, o : I!Msg(t, o).topic = t /\ I!Msg(t, o).order = o
  BY DEF I!Msg
<1>e. \A o \in Orders : I!SagaContinues(o) \/ I!ShipmentContinues(o) => I!Next
  BY DEF I!Environment, I!Next
<1>1. ASSUME NEW o \in Orders, PlaceOrder(o) PROVE I!Next
  BY <1>1 DEF PlaceOrder, I!Environment, I!Next
<1>2. ASSUME NEW w \in InvWorkers, InventoryWorks(w) PROVE I!Next
  BY <1>2 DEF InventoryWorks, I!Next
<1>3. ASSUME NEW o \in Orders, Validate(o) PROVE [I!Next]_(I!vars)
  <2>1. CASE UNCHANGED inventoryVars
    BY <2>1 DEF inventoryVars, I!vars
  <2>2. CASE ToInventory({I!Msg("validation-failed", o)})
    <3>1. I!Answered(o, "succeeded") /\ validated[o] = "-"
      BY <1>3 DEF Validate
    <3>2. payDeliveries[o] = 0
      BY <1>k, <3>1 DEF SagaInv, InOrder
    <3>3. I!Msg("payment-failed", o) \notin invSent /\ I!Msg("validation-failed", o) \notin invSent
      BY <1>k, <3>1, <3>2 DEF PaymentKnown, SagaInv, BrokerTells
    <3>4. I!Send(I!Msg("validation-failed", o))
      BY <1>t, <2>2, <3>3, Delivered
    <3> QED
      BY <1>e, <3>1, <3>3, <3>4 DEF I!SagaContinues, I!Answered
  <2> QED
    BY <1>3, <2>1, <2>2 DEF Validate
<1>4. ASSUME ForwardPayment, UNCHANGED payDeliveries PROVE [I!Next]_(I!vars)
  <2>1. UNCHANGED <<status, variant, orderId, variants, invJob, results, redeliveries>>
    BY <1>4 DEF ForwardPayment, ToInventory
  <2>2. CASE invSent' = invSent /\ invInbox' = invInbox
    BY <2>1, <2>2 DEF I!vars
  <2>3. ASSUME NEW q \in Orders, NEW t \in {"payment-enabled", "payment-failed"},
               [topic |-> t, order |-> q] \notin events, payDeliveries'[q] > 0,
               invSent' = invSent \cup {I!Msg(t, q)}, invInbox' = invInbox \cup {I!Msg(t, q)}
        PROVE  I!Next
    <3>1. validated[q] = "succeeded" /\ I!Answered(q, "succeeded")
      BY <1>4, <2>3 DEF SagaInv, InOrder
    <3>2. I!Msg(t, q) \notin invSent /\ I!Msg("validation-failed", q) \notin invSent
      BY <2>3, <3>1 DEF SagaInv, BrokerTells, Enabled, Cancelled, P!Enabled, P!Failed
    <3>3. I!Send(I!Msg(t, q))
      BY <1>t, <2>1, <2>3, <3>2 DEF I!Send
    <3> QED
      BY <1>e, <3>1, <3>2, <3>3 DEF I!SagaContinues, I!Answered
  <2> QED
    BY <1>4, <1>m, <2>2, <2>3, PaymentNews
<1>5. ASSUME NEW p \in Procs, PaymentWorks(p) PROVE [I!Next]_(I!vars)
  BY <1>4, <1>5, StartedBefore DEF PaymentWorks
<1>6. ASSUME NEW m \in {"PREPAYMENT", "INVOICE"}, PaymentScheduled(m)
      PROVE  [I!Next]_(I!vars)
  BY <1>4, <1>6, StartedBefore DEF PaymentScheduled
<1>7. ASSUME NEW w \in Workers, ShipmentWorks(w) PROVE [I!Next]_(I!vars)
  <2> DEFINE ms == {I!Msg("shipment-created", shipment[s].owner) : s \in created' \ created}
  <2>1. ToInventory(ms)
    BY <1>7 DEF ShipmentWorks, ForwardShipment
  <2>2. CASE created' \ created = {}
    BY <2>1, <2>2, Delivered
  <2>3. ASSUME NEW s \in created' \ created PROVE I!Next
    <3>1. /\ shipment[s].owner \in Orders
          /\ I!Msg("payment-enabled", shipment[s].owner) \in invSent
          /\ created' = created \cup {s}
      BY <1>7, AnnouncedIsPaid
    <3>2. PICK o \in Orders : o = shipment[s].owner
      BY <3>1
    <3>3. ms = {I!Msg("shipment-created", o)}
      BY <3>1, <3>2
    <3> HIDE DEF ms
    <3>4. CASE I!Msg("shipment-created", o) \notin invSent
      <4>1. I!Send(I!Msg("shipment-created", o))
        BY <1>t, <2>1, <3>3, <3>4, Delivered
      <4> QED
        BY <1>e, <3>1, <3>2, <4>1 DEF I!ShipmentContinues
    <3>5. CASE I!Msg("shipment-created", o) \in invSent
      <4>1. I!SendAgain(I!Msg("shipment-created", o))
        BY <1>t, <2>1, <3>3, <3>5, Delivered
      <4> QED
        BY <1>e, <1>t, <3>5, <4>1 DEF I!ShipmentContinues
    <3> QED
      BY <3>4, <3>5
  <2> QED
    BY <2>2, <2>3
<1>8. CASE UNCHANGED inventoryVars
  BY <1>8 DEF inventoryVars, I!vars
<1>9. ASSUME NEW p \in Procs, NEW o \in Orders, StartPayment(p, o) PROVE UNCHANGED inventoryVars
  BY <1>9 DEF StartPayment
<1>10. ASSUME NEW o \in Orders, PaymentOverdue(o) PROVE UNCHANGED inventoryVars
  BY <1>10 DEF PaymentOverdue
<1>11. ASSUME NEW p \in Procs, NEW o \in Orders, NEW s \in Outcomes, PaymentCallback(p, o, s)
       PROVE  UNCHANGED inventoryVars
  BY <1>11 DEF PaymentCallback
<1>12. UNCHANGED vars => UNCHANGED inventoryVars
  BY DEF vars
<1> QED
  BY <1>1, <1>2, <1>3, <1>5, <1>6, <1>7, <1>8, <1>9, <1>10, <1>11, <1>12
  DEF Next, Services, Environment

LEMMA InventoryAsSpecified == Spec => I!Spec
<1>1. Init => I!Init
  BY DEF Init
<1>2. /\ SagaInv /\ PaymentInv /\ PaymentInv' /\ ShipmentInv' /\ [Next]_vars
      => [I!Next]_(I!vars)
  BY InventorySteps
<1> QED
  BY <1>1, <1>2, PaymentInvHolds, ShipmentInvHolds, SagaInvHolds, PTL DEF Spec, I!Spec

(* The saga composes the three services and changes none of them: what each *)
(* module assumes of the events of the others - that they come once and in  *)
(* causal order - is what the others publish.  Hence every safety property  *)
(* of a service alone holds in the saga.                                    *)
THEOREM ServicesAsSpecified == Spec => I!Spec /\ P!Spec /\ S!Spec
BY InventoryAsSpecified, PaymentAsSpecified, ShipmentAsSpecified

-----------------------------------------------------------------------------
(* What the inventory guarantees in the saga.  The order items that have    *)
(* been ordered ask for at least one unit each (PositiveCounts).            *)
InventoryInv == IP!LinesInv /\ variant = Stock

LEMMA InventoryInvHolds ==
    ASSUME IP!PositiveCounts
    PROVE  Spec => []InventoryInv
<1>1. IP!Once
  BY DEF IP!Once
<1>2. IP!Spec => []IP!LinesInv
  BY <1>1, InventoryConstants, IP!LinesInvHolds
<1>3. IP!Spec => [](variant = Stock)
  BY <1>1, InventoryConstants, IP!VariantsStay
<1> QED
  BY <1>2, <1>3, InventoryAsSpecified, SameInventory, PTL DEF InventoryInv

(* A promise is kept: an order with units reserved, and not released, holds *)
(* what it ordered.                                                         *)
Reserved(o) ==
    /\ I!Answered(o, "succeeded")
    /\ ~Cancelled(o) /\ validated[o] # "failed"
HeldOf(o, v) == {i \in I!Held(o) : variant[i] = v}

LEMMA ReservedIsHeld ==
    ASSUME SagaInv, InventoryInv, NEW o \in Orders, NEW v \in Variants, Reserved(o)
    PROVE  Cardinality(HeldOf(o, v)) = Cardinality(I!Ordered(o, v))
<1>1. IP!Answered(o, "succeeded")
  BY DEF Reserved, I!Answered, IP!Answered
<1>2. ~IP!ReleaseSent(o)
  BY DEF Reserved, SagaInv, BrokerTells, IP!ReleaseSent, IP!ReleaseTopics, I!Msg, IP!Msg
<1>3. IP!Cardinality(IP!HeldOf(o, v)) = IP!Cardinality(IP!Ordered(o, v))
  BY <1>1, <1>2 DEF InventoryInv, IP!LinesInv, IP!LinesReserved
<1>4. IP!HeldOf(o, v) = HeldOf(o, v)
  BY DEF IP!HeldOf, IP!Held, HeldOf, I!Held
<1>5. IP!Ordered(o, v) = I!Ordered(o, v)
  BY DEF IP!Ordered, I!Ordered
<1> QED
  BY <1>3, <1>4, <1>5, SameCardinality

(* For any number of orders, units and handler calls, when every order item *)
(* asks for at least one unit: an order that was charged or whose goods     *)
(* were released, and that was not cancelled, holds exactly what it ordered.*)
THEOREM SoldUnitsAreHeld ==
    ASSUME IP!PositiveCounts
    PROVE  Spec => []SoldIsHeld
<1>1. SagaInv /\ PaymentInv /\ InventoryInv => SoldIsHeld
  <2> SUFFICES ASSUME SagaInv, PaymentInv, InventoryInv, NEW o \in Orders,
                      registered[o] > 0 \/ Enabled(o), ~Cancelled(o), NEW v \in Variants
               PROVE  Cardinality(HeldOf(o, v)) = Cardinality(I!Ordered(o, v))
    BY DEF SoldIsHeld, HeldOf
  <2>1. validated[o] = "succeeded" /\ I!Answered(o, "succeeded")
    BY PaymentIsKnown DEF PaymentKnown, SagaInv, InOrder
  <2> QED
    BY <2>1, ReservedIsHeld DEF Reserved
<1> QED
  BY <1>1, SagaInvHolds, PaymentInvHolds, InventoryInvHolds, PTL

-----------------------------------------------------------------------------
(* The saga implements Sale.  The signs by which the phase of an order is   *)
(* known come in one order.                                                 *)
Placed(o) == I!Msg("order-created", o) \in invSent
SameSigns(o) ==
    /\ Cancelled(o)' <=> Cancelled(o)
    /\ HandedOver(o)' <=> HandedOver(o)
    /\ Enabled(o)' <=> Enabled(o)
    /\ validated'[o] = validated[o]
    /\ \A r \in {"succeeded", "failed"} : I!Answered(o, r)' <=> I!Answered(o, r)
    /\ Placed(o)' <=> Placed(o)

SignsInOrder ==
    \A o \in Orders :
        /\ I!Answered(o, "succeeded") \/ I!Answered(o, "failed") => Placed(o)
        /\ ~(I!Answered(o, "succeeded") /\ I!Answered(o, "failed"))
        /\ validated[o] \in {"-", "succeeded", "failed"}
        /\ validated[o] # "-" => I!Answered(o, "succeeded")
        /\ Enabled(o) \/ Cancelled(o) => validated[o] = "succeeded"
        /\ HandedOver(o) => Enabled(o)

LEMMA SignsComeInOrder ==
    SagaInv /\ PaymentInv /\ ShipmentInv /\ InventoryInv => SignsInOrder
<1> SUFFICES ASSUME SagaInv, PaymentInv, ShipmentInv, InventoryInv PROVE SignsInOrder
  OBVIOUS
<1> SUFFICES ASSUME NEW o \in Orders
             PROVE  /\ I!Answered(o, "succeeded") \/ I!Answered(o, "failed") => Placed(o)
                    /\ ~(I!Answered(o, "succeeded") /\ I!Answered(o, "failed"))
                    /\ validated[o] \in {"-", "succeeded", "failed"}
                    /\ validated[o] # "-" => I!Answered(o, "succeeded")
                    /\ Enabled(o) \/ Cancelled(o) => validated[o] = "succeeded"
                    /\ HandedOver(o) => Enabled(o)
  BY DEF SignsInOrder
<1>1. /\ I!Answered(o, "succeeded") \/ I!Answered(o, "failed") => Placed(o)
      /\ ~(I!Answered(o, "succeeded") /\ I!Answered(o, "failed"))
  BY DEF InventoryInv, IP!LinesInv, IP!OnceInv, IP!AnsweredOnce, IP!AnswerHandled,
     IP!SuccessIsFinal, IP!Created, IP!Msg, I!Msg, IP!Answered, I!Answered, Placed
<1>2. /\ validated[o] \in {"-", "succeeded", "failed"}
      /\ validated[o] # "-" => I!Answered(o, "succeeded")
      /\ Enabled(o) \/ Cancelled(o) => validated[o] = "succeeded"
  BY PaymentIsKnown DEF PaymentKnown, SagaInv, InOrder
<1>3. HandedOver(o) => Enabled(o)
  <2>1. \A s \in accepted : shipment[s].owner \in sent
    BY DEF ShipmentInv, SP!Inv, SP!TypeOK, SP!RowsFromEvents
  <2> QED
    BY <2>1 DEF HandedOver, SagaInv, BrokerTells
<1> QED
  BY <1>1, <1>2, <1>3

LEMMA SamePhase == ASSUME NEW o, SameSigns(o) PROVE Phase(o)' = Phase(o)
BY DEF SameSigns, Phase, Placed

(* Each step moves one order by one phase, or none.                         *)
Advances(o) ==
    /\ \A q \in Orders \ {o} : Phase(q)' = Phase(q)
    /\ <<Phase(o), Phase(o)'>> \in Abstract!Moves
Stays == \A q \in Orders : Phase(q)' = Phase(q)

LEMMA PlaceOrderAdvances ==
    ASSUME SignsInOrder, NEW o \in Orders, PlaceOrder(o)
    PROVE  Advances(o)
<1>1. /\ ~Placed(o) /\ invSent' = invSent \cup {I!Msg("order-created", o)}
      /\ UNCHANGED <<events, accepted, shipment, validated, results>>
  BY DEF PlaceOrder, I!OrderPlaced, I!Send, Placed, paymentVars, shipmentVars
<1>2. /\ \A q \in Orders \ {o} : Placed(q)' <=> Placed(q)
      /\ Placed(o)'
  BY <1>1, DifferentMessages DEF Placed
<1>3. \A q : /\ Cancelled(q)' = Cancelled(q) /\ HandedOver(q)' = HandedOver(q)
             /\ Enabled(q)' = Enabled(q)
             /\ \A r : I!Answered(q, r)' = I!Answered(q, r)
  BY <1>1 DEF Cancelled, HandedOver, Enabled, I!Answered, P!Enabled, P!Failed
<1>4. \A q \in Orders \ {o} : SameSigns(q)
  BY <1>1, <1>2, <1>3 DEF SameSigns
<1>5. Phase(o) = "new" /\ Phase(o)' = "placed"
  BY <1>1, <1>2, <1>3 DEF SignsInOrder, Phase, Placed
<1> QED
  BY <1>4, <1>5, SamePhase DEF Advances, Abstract!Moves

LEMMA InventoryWorkAnswers ==
    ASSUME NEW w, I!Handle(w) \/ I!Work(w)
    PROVE  \/ results' = results
           \/ \E r \in {"succeeded", "failed"} : \E o :
                 results' = results \cup {[result |-> r, order |-> o]}
<1>1. CASE I!Handle(w)
  BY <1>1 DEF I!Handle, I!OrderCreated, I!PaymentEnabled, I!PaymentFailed, I!Accept,
     I!DiscountValidationFailed, I!ShipmentCreated, I!ShipmentStatusUpdated
<1>2. CASE I!PublishReservationSucceeded(w) \/ I!PublishReservationFailed(w)
  BY <1>2 DEF I!PublishReservationSucceeded, I!PublishReservationFailed, I!Publish
<1>3. CASE I!Work(w) /\ ~(I!PublishReservationSucceeded(w) \/ I!PublishReservationFailed(w))
  BY <1>3 DEF I!Work, I!ReserveLine, I!ReleaseFind, I!ReleaseFails, I!ReleaseOne, I!UpdateOne
<1> QED
  BY <1>1, <1>2, <1>3

LEMMA InventoryAdvances ==
    ASSUME SignsInOrder, SignsInOrder', NEW w \in InvWorkers, InventoryWorks(w)
    PROVE  Stays \/ \E o \in Orders : Advances(o)
<1>1. invSent' = invSent /\ UNCHANGED <<events, accepted, shipment, validated>>
  BY InventoryWorkKeeps DEF InventoryWorks, paymentVars, shipmentVars
<1>2. \A q : /\ Cancelled(q)' = Cancelled(q) /\ HandedOver(q)' = HandedOver(q)
             /\ Enabled(q)' = Enabled(q) /\ Placed(q)' = Placed(q)
  BY <1>1 DEF Cancelled, HandedOver, Enabled, Placed, P!Enabled, P!Failed
<1>3. CASE results' = results
  BY <1>1, <1>2, <1>3, SamePhase DEF Stays, SameSigns, I!Answered
<1>4. ASSUME NEW r \in {"succeeded", "failed"}, NEW o,
             results' = results \cup {[result |-> r, order |-> o]}
      PROVE  Stays \/ \E q \in Orders : Advances(q)
  <2>1. \A q : \A x \in {"succeeded", "failed"} :
           I!Answered(q, x)' <=> I!Answered(q, x) \/ (q = o /\ x = r)
    BY <1>4 DEF I!Answered
  <2>2. \A q : q # o => SameSigns(q)
    BY <1>1, <1>2, <2>1 DEF SameSigns
  <2>3. CASE o \notin Orders \/ I!Answered(o, r)
    BY <1>1, <1>2, <2>1, <2>2, <2>3, SamePhase DEF Stays, SameSigns
  <2>4. CASE o \in Orders /\ ~I!Answered(o, r)
    <3>1. /\ Placed(o) /\ ~I!Answered(o, "succeeded") /\ ~I!Answered(o, "failed")
          /\ I!Answered(o, r)' /\ (r = "failed" => ~I!Answered(o, "succeeded")')
          /\ (r = "succeeded" => ~I!Answered(o, "failed")')
      BY <1>2, <2>1, <2>4 DEF SignsInOrder
    <3>2. Phase(o) = "placed"
      BY <2>4, <3>1 DEF SignsInOrder, Phase, Placed
    <3>3. Phase(o)' = IF r = "succeeded" THEN "reserved" ELSE "refused"
      BY <1>1, <1>2, <2>4, <3>1 DEF SignsInOrder, Phase
    <3> QED
      BY <2>2, <2>4, <3>2, <3>3, SamePhase DEF Advances, Abstract!Moves
  <2> QED
    BY <2>3, <2>4
<1> QED
  BY <1>3, <1>4, InventoryWorkAnswers DEF InventoryWorks

LEMMA ValidateAdvances ==
    ASSUME SagaInv, SignsInOrder, NEW o \in Orders, Validate(o)
    PROVE  Advances(o)
<1>1. /\ I!Answered(o, "succeeded") /\ validated[o] = "-"
      /\ UNCHANGED <<events, accepted, shipment, results>>
      /\ \/ validated' = [validated EXCEPT ![o] = "succeeded"] /\ invSent' = invSent
         \/ /\ validated' = [validated EXCEPT ![o] = "failed"]
            /\ invSent' = invSent \cup {I!Msg("validation-failed", o)}
  BY DEF Validate, ToInventory, inventoryVars, paymentVars, shipmentVars
<1>2. \A q : /\ Cancelled(q)' = Cancelled(q) /\ HandedOver(q)' = HandedOver(q)
             /\ Enabled(q)' = Enabled(q) /\ Placed(q)' = Placed(q)
             /\ \A r : I!Answered(q, r)' = I!Answered(q, r)
  <2>1. \A q : Placed(q)' = Placed(q)
    BY <1>1, DifferentMessages DEF Placed
  <2> QED
    BY <1>1, <2>1 DEF Cancelled, HandedOver, Enabled, P!Enabled, P!Failed, I!Answered
<1>3. /\ \A q \in Orders \ {o} : validated'[q] = validated[q]
      /\ validated'[o] \in {"succeeded", "failed"}
  BY <1>1 DEF SagaInv, InOrder
<1>4. \A q \in Orders \ {o} : SameSigns(q)
  BY <1>2, <1>3 DEF SameSigns
<1>5. Phase(o) = "reserved"
  BY <1>1 DEF SignsInOrder, Phase
<1>6. Phase(o)' \in {"approved", "refused"}
  BY <1>1, <1>2, <1>3 DEF SignsInOrder, Phase
<1> QED
  BY <1>4, <1>5, <1>6, SamePhase DEF Advances, Abstract!Moves

LEMMA PaymentAdvances ==
    ASSUME SagaInv, SignsInOrder, ForwardPayment, PaymentMoves,
           UNCHANGED <<validated, payDeliveries>>
    PROVE  Stays \/ \E o \in Orders : Advances(o)
<1>1. UNCHANGED <<accepted, shipment, results>>
  BY DEF ForwardPayment, ToInventory
<1>2. \A q : /\ HandedOver(q)' = HandedOver(q)
             /\ \A r : I!Answered(q, r)' = I!Answered(q, r)
  BY <1>1 DEF HandedOver, I!Answered
<1>3. CASE events' = events /\ invSent' = invSent
  BY <1>2, <1>3, SamePhase DEF Stays, SameSigns, Cancelled, Enabled, Placed, P!Enabled, P!Failed
<1>4. ASSUME NEW o \in Orders, NEW t \in {"payment-enabled", "payment-failed"},
             [topic |-> t, order |-> o] \notin events, payDeliveries'[o] > 0,
             events' = events \cup {[topic |-> t, order |-> o]},
             invSent' = invSent \cup {I!Msg(t, o)}
      PROVE  Stays \/ Advances(o)
  <2>1. /\ \A q : Placed(q)' <=> Placed(q)
        /\ \A q : Enabled(q)' <=> Enabled(q) \/ (q = o /\ t = "payment-enabled")
        /\ \A q : Cancelled(q)' <=> Cancelled(q) \/ (q = o /\ t = "payment-failed")
    BY <1>4, DifferentMessages DEF Placed, Enabled, Cancelled, P!Enabled, P!Failed
  <2>2. \A q : q # o => SameSigns(q)
    BY <1>2, <2>1 DEF SameSigns
  <2>3. validated[o] = "succeeded"
    BY <1>4 DEF SagaInv, InOrder
  <2>4. I!Answered(o, "succeeded") /\ ~I!Answered(o, "failed") /\ Placed(o)
    BY <2>3 DEF SignsInOrder
  <2>5. CASE t = "payment-enabled"
    <3>1. ~Enabled(o) /\ ~HandedOver(o) /\ (Cancelled(o)' <=> Cancelled(o)) /\ Enabled(o)'
      BY <1>4, <2>1, <2>5 DEF Enabled, P!Enabled, SignsInOrder
    <3>2. CASE Cancelled(o)
      <4>1. Phase(o) = "cancelled" /\ Phase(o)' = "cancelled"
        BY <3>1, <3>2 DEF Phase
      <4> QED
        BY <2>2, <4>1, SamePhase DEF Stays
    <3>3. CASE ~Cancelled(o)
      <4>1. Phase(o) = "approved" /\ Phase(o)' = "enabled"
        BY <1>2, <2>3, <3>1, <3>3 DEF Phase
      <4> QED
        BY <2>2, <4>1, SamePhase DEF Advances, Abstract!Moves
    <3> QED
      BY <3>2, <3>3
  <2>6. CASE t = "payment-failed"
    <3>1. ~Cancelled(o) /\ Cancelled(o)'
      BY <1>4, <2>1, <2>6 DEF Cancelled, P!Failed
    <3>2. Phase(o) \in {"approved", "enabled", "handed over"} /\ Phase(o)' = "cancelled"
      BY <2>3, <3>1 DEF Phase
    <3> QED
      BY <2>2, <3>2, SamePhase DEF Advances, Abstract!Moves
  <2> QED
    BY <2>5, <2>6
<1> QED
  BY <1>3, <1>4, PaymentNews

LEMMA ShipmentAdvances ==
    ASSUME SagaInv, ShipmentInv, ShipmentInv', SignsInOrder, [S!Next]_(S!vars),
           NEW w \in Workers, ShipmentWorks(w)
    PROVE  Stays \/ \E o \in Orders : Advances(o)
<1>1. SP!RowsGrow
  BY SameShipmentSteps, ShipmentConstants, SP!StepGrows DEF ShipmentInv
<1>2. /\ UNCHANGED <<events, validated, results>>
      /\ invSent' = invSent \cup {I!Msg("shipment-created", shipment[s].owner) :
                                     s \in created' \ created}
  BY DEF ShipmentWorks, ForwardShipment, ToInventory, paymentVars
<1>3. \A q : /\ Cancelled(q)' = Cancelled(q) /\ Enabled(q)' = Enabled(q)
             /\ Placed(q)' = Placed(q)
             /\ \A r : I!Answered(q, r)' = I!Answered(q, r)
  <2>1. \A q : Placed(q)' = Placed(q)
    BY <1>2, DifferentMessages DEF Placed
  <2> QED
    BY <1>2, <2>1 DEF Cancelled, Enabled, P!Enabled, P!Failed, I!Answered
<1>4. PICK s : accepted \subseteq accepted' /\ accepted' \subseteq accepted \cup {s}
  BY <1>1 DEF SP!RowsGrow
<1>5. \A t \in accepted : shipment'[t].owner = shipment[t].owner
  BY <1>1 DEF SP!RowsGrow, ShipmentInv, SP!Inv, SP!TypeOK
<1>o. PICK o : o = shipment'[s].owner
  OBVIOUS
<1>6. \A q : HandedOver(q)' <=> HandedOver(q) \/ (s \in accepted' /\ q = o)
  BY <1>4, <1>5, <1>o DEF HandedOver
<1>7. CASE s \notin accepted' \/ HandedOver(o)
  BY <1>2, <1>3, <1>6, <1>7, SamePhase DEF Stays, SameSigns
<1>8. CASE s \in accepted' /\ ~HandedOver(o)
  <2>1. sent' = sent
    BY DEF ShipmentWorks, S!Handle, S!OnPaymentEnabled, S!Accept, S!Create, S!CheckInput,
       S!SaveShipment, S!UpsertOrderItem, S!JoinOrderItem, S!Weigh, S!Post,
       S!PublishShipmentCreated, S!PublishShipmentCreationFailed
  <2>2. o \in sent
    BY <1>8, <1>o, <2>1 DEF ShipmentInv, SP!Inv, SP!TypeOK, SP!RowsFromEvents
  <2>3. o \in Orders /\ Enabled(o)
    BY <2>2 DEF SagaInv, BrokerTells
  <2>4. \A q : q # o => SameSigns(q)
    BY <1>2, <1>3, <1>6 DEF SameSigns
  <2>5. CASE Cancelled(o)
    <3>1. Phase(o) = "cancelled" /\ Phase(o)' = "cancelled"
      BY <1>3, <2>5 DEF Phase
    <3> QED
      BY <2>4, <3>1, SamePhase DEF Stays
  <2>6. CASE ~Cancelled(o)
    <3>1. Phase(o) = "enabled" /\ Phase(o)' = "handed over"
      BY <1>3, <1>6, <1>8, <2>3, <2>6 DEF Phase
    <3> QED
      BY <2>3, <2>4, <3>1, SamePhase DEF Advances, Abstract!Moves
  <2> QED
    BY <2>5, <2>6
<1> QED
  BY <1>7, <1>8

LEMMA QuietStays ==
    ASSUME UNCHANGED <<inventoryVars, validated, shipmentVars, events>>
    PROVE  Stays
BY SamePhase DEF Stays, SameSigns, Cancelled, HandedOver, Enabled, Placed, I!Answered,
   P!Enabled, P!Failed, inventoryVars, shipmentVars

LEMMA OneOrderAdvances ==
    ASSUME SagaInv, PaymentInv, PaymentInv', ShipmentInv, ShipmentInv',
           SignsInOrder, SignsInOrder', [Next]_vars
    PROVE  Stays \/ \E o \in Orders : Advances(o)
<1>m. PaymentMoves
  BY PaymentPublishes
<1>s. [S!Next]_(S!vars)
  BY <1>m, ShipmentSteps DEF SagaInv
<1>1. ASSUME NEW o \in Orders, PlaceOrder(o) PROVE Advances(o)
  BY <1>1, PlaceOrderAdvances
<1>2. ASSUME NEW w \in InvWorkers, InventoryWorks(w)
      PROVE  Stays \/ \E o \in Orders : Advances(o)
  BY <1>2, InventoryAdvances
<1>3. ASSUME NEW o \in Orders, Validate(o) PROVE Advances(o)
  BY <1>3, ValidateAdvances
<1>4. ASSUME NEW p \in Procs, NEW o \in Orders, StartPayment(p, o) PROVE Stays
  BY <1>4, QuietStays DEF StartPayment, P!HandleOrderValidationSucceeded
<1>5. ASSUME NEW p \in Procs, PaymentWorks(p)
      PROVE  Stays \/ \E o \in Orders : Advances(o)
  BY <1>5, <1>m, StartedBefore, PaymentAdvances DEF PaymentWorks
<1>6. ASSUME NEW m \in {"PREPAYMENT", "INVOICE"}, PaymentScheduled(m)
      PROVE  Stays \/ \E o \in Orders : Advances(o)
  BY <1>6, <1>m, StartedBefore, PaymentAdvances DEF PaymentScheduled
<1>7. ASSUME NEW o \in Orders, PaymentOverdue(o) PROVE Stays
  BY <1>7, QuietStays DEF PaymentOverdue, P!Overdue
<1>8. ASSUME NEW p \in Procs, NEW o \in Orders, NEW s \in Outcomes, PaymentCallback(p, o, s)
      PROVE  Stays
  BY <1>8, QuietStays DEF PaymentCallback, P!Callback
<1>9. ASSUME NEW w \in Workers, ShipmentWorks(w)
      PROVE  Stays \/ \E o \in Orders : Advances(o)
  BY <1>9, <1>s, ShipmentAdvances
<1>10. CASE UNCHANGED vars
  BY <1>10, QuietStays DEF vars, paymentVars
<1> QED
  BY <1>1, <1>2, <1>3, <1>4, <1>5, <1>6, <1>7, <1>8, <1>9, <1>10
  DEF Next, Services, Environment

(* An order that was promised units holds them.                             *)
PromisesKept ==
    \A o \in Orders : Phase(o) \in Abstract!Promising =>
        \A v \in Variants : Cardinality(HeldOf(o, v)) = Cardinality(I!Ordered(o, v))

LEMMA PromisesAreKept == SagaInv /\ InventoryInv /\ SignsInOrder => PromisesKept
<1> SUFFICES ASSUME SagaInv, InventoryInv, SignsInOrder, NEW o \in Orders,
                    Phase(o) \in Abstract!Promising, NEW v \in Variants
             PROVE  Cardinality(HeldOf(o, v)) = Cardinality(I!Ordered(o, v))
  BY DEF PromisesKept
<1>1. Reserved(o)
  BY DEF Phase, Abstract!Promising, SignsInOrder, Reserved
<1> QED
  BY <1>1, ReservedIsHeld

(* The units promised, with those of the order that is promised its units   *)
(* now, are held: they are different units of the stock.                    *)
LEMMA UnitsSuffice ==
    ASSUME variant' = Stock, PromisesKept', NEW o \in Orders, Advances(o),
           Phase(o)' = "reserved", NEW v \in Variants
    PROVE  Abstract!Promised(v) + Cardinality(I!Ordered(o, v))
              <= Cardinality({i \in Units : Stock[i] = v})
<1> DEFINE T == {q \in Orders : Phase(q) \in Abstract!Promising}
           A == [q \in Orders |-> Cardinality(I!Ordered(q, v))]
           U == {i \in Units : Stock[i] = v}
<1>1. PICK F : F = [q \in Orders |-> HeldOf(q, v)']
  OBVIOUS
<1>2. \A q \in Orders : F[q] = {i \in Units : orderId'[i] = q /\ Stock[i] = v}
  BY <1>1 DEF HeldOf, I!Held
<1>3. o \notin T
  BY DEF Advances, Abstract!Moves, Abstract!Promising
<1>4. \A q \in T \cup {o} : Phase(q)' \in Abstract!Promising
  BY DEF Advances, Abstract!Promising
<1>5. \A q \in T \cup {o} : q \in Orders /\ A[q] = Cardinality(F[q])
  BY <1>1, <1>4 DEF PromisesKept
<1>6. IsFiniteSet(U) /\ IsFiniteSet(T) /\ IsFiniteSet(T \cup {o}) /\ T \cup {o} \subseteq Orders
  <2>1. IsFiniteSet(Units) /\ IsFiniteSet(Orders)
    BY SagaAssumption
  <2>2. U \subseteq Units /\ T \subseteq Orders /\ T \cup {o} \subseteq Orders
    OBVIOUS
  <2> QED
    BY <2>1, <2>2, FS_Subset
<1>7. \A q \in T \cup {o} : F[q] \subseteq U /\ Cardinality(F[q]) \in Nat
  BY <1>2, <1>6, FS_Subset, FS_CardinalityType
<1>8. \A q, r \in T \cup {o} : q # r => F[q] \cap F[r] = {}
  BY <1>2, <1>6
<1>9. SumOf(A, T \cup {o}) <= Cardinality(U)
  <2> HIDE DEF T, A, U
  <2> QED
    BY <1>5, <1>6, <1>7, <1>8, SumOfParts
<1>10. SumOf(A, T \cup {o}) = A[o] + SumOf(A, T) /\ SumOf(A, T) \in Int /\ A[o] \in Int
  <2> HIDE DEF T, A, U
  <2>1. Amounts(A, T \cup {o}) /\ Amounts(A, T)
    BY <1>5, <1>6, <1>7 DEF Amounts
  <2>2. (T \cup {o}) \ {o} = T
    BY <1>3
  <2>3. SumOf(A, T \cup {o}) = A[o] + SumOf(A, (T \cup {o}) \ {o})
    BY <2>1, SumRemove
  <2> QED
    BY <2>1, <2>2, <2>3, SumRec DEF Amounts
<1>11. Abstract!Promised(v) = SumOf(A, T)
  <2>1. {q \in Orders : [x \in Orders |-> Phase(x)][q] \in Abstract!Promising} = T
    OBVIOUS
  <2>2. [q \in Orders |-> [x \in Orders |-> [u \in Variants |-> Cardinality(I!Ordered(x, u))]][q][v]] = A
    OBVIOUS
  <2>3. \A f, W : Abstract!SumFunctionOnSet(f, W) = SumFunctionOnSet(f, W)
    BY Zenon DEF Abstract!SumFunctionOnSet, Abstract!FoldFunctionOnSet, Abstract!MapThenFoldSet,
       SumFunctionOnSet, FoldFunctionOnSet, MapThenFoldSet
  <2> HIDE DEF T, A
  <2> QED
    BY <2>1, <2>2, <2>3 DEF Abstract!Promised, SumOf
<1>12. A[o] = Cardinality(I!Ordered(o, v))
  OBVIOUS
<1> HIDE DEF T, A, U
<1>13. PICK a \in Int, p \in Int : a = A[o] /\ p = SumOf(A, T)
  BY <1>10
<1>14. a + p <= Cardinality(U)
  BY <1>9, <1>10, <1>13
<1>15. p + a <= Cardinality(U)
  <2>1. Cardinality(U) \in Nat
    BY <1>6, FS_CardinalityType
  <2> QED
    BY <1>14, <2>1
<1> QED
  BY <1>11, <1>12, <1>13, <1>15 DEF U

(* The saga implements Sale, for any number of orders, units and handler    *)
(* calls, when every order item asks for at least one unit: orders go       *)
(* through their phases in its order, and no unit is promised to two orders.*)
THEOREM SagaImplementsSale ==
    ASSUME IP!PositiveCounts
    PROVE  Spec => SaleImplemented
<1> DEFINE phase == [o \in Orders |-> Phase(o)]
<1>1. Init => Abstract!Init
  BY DEF Init, I!Init, P!Init, S!Init, Abstract!Init, Phase, Cancelled, HandedOver, Enabled,
     I!Answered
<1>2. ASSUME SagaInv, PaymentInv, PaymentInv', ShipmentInv, ShipmentInv', InventoryInv',
             SignsInOrder, SignsInOrder', PromisesKept', [Next]_vars
      PROVE  [Abstract!Next]_phase
  <2>1. CASE Stays
    BY <2>1 DEF Stays
  <2>2. ASSUME NEW o \in Orders, Advances(o) PROVE Abstract!Next
    <3>1. ASSUME NEW v \in Variants, Phase(o)' = "reserved"
          PROVE  Abstract!Promised(v) + Cardinality(I!Ordered(o, v))
                    <= Cardinality({i \in Units : Stock[i] = v})
      BY <1>2, <2>2, <3>1, UnitsSuffice DEF InventoryInv
    <3>2. \A q \in Orders : phase[q] = Phase(q) /\ phase'[q] = Phase(q)'
      OBVIOUS
    <3>3. /\ <<phase[o], phase'[o]>> \in Abstract!Moves
          /\ \A q \in Orders \ {o} : phase'[q] = phase[q]
      BY <2>2, <3>2 DEF Advances
    <3>4. phase'[o] = "reserved" => \A v \in Variants :
             Abstract!Promised(v)
                + [q \in Orders |-> [u \in Variants |-> Cardinality(I!Ordered(q, u))]][o][v]
             <= [u \in Variants |-> Cardinality({i \in Units : Stock[i] = u})][v]
      BY <3>1, <3>2
    <3>5. Abstract!Move(o)
      BY <3>3, <3>4 DEF Abstract!Move
    <3> QED
      BY <3>5 DEF Abstract!Next
  <2> QED
    BY <1>2, <2>1, <2>2, OneOrderAdvances
<1>3. /\ SagaInv /\ PaymentInv /\ PaymentInv' /\ ShipmentInv /\ ShipmentInv' /\ InventoryInv'
      /\ SignsInOrder /\ SignsInOrder' /\ PromisesKept' /\ [Next]_vars
      => [Abstract!Next]_phase
  BY <1>2
<1>4. Spec => []SignsInOrder
  BY SignsComeInOrder, SagaInvHolds, PaymentInvHolds, ShipmentInvHolds, InventoryInvHolds, PTL
<1>5. Spec => []PromisesKept
  BY <1>4, PromisesAreKept, SagaInvHolds, InventoryInvHolds, PTL
<1> QED
  BY <1>1, <1>3, <1>4, <1>5, SagaInvHolds, PaymentInvHolds, ShipmentInvHolds, InventoryInvHolds,
     PTL DEF Spec, SaleImplemented, Abstract!Spec
====
