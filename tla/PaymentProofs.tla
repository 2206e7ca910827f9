--------------------------- MODULE PaymentProofs ---------------------------
(***************************************************************************)
(* For any orders, goroutines, requests, faults and repetitions, the       *)
(* payment service keeps its types, asks the provider at most once to      *)
(* charge an order, enables no prepaid order that was not paid, and lets   *)
(* no payment wait whose order is not told how it ends.                    *)
(***************************************************************************)
EXTENDS Payment, TLAPS

(* The goroutine p is past the insert of the payment of o and may still ask *)
(* the provider to charge it.                                               *)
Charging(p, o) == job[p].order = o /\ job[p].pc \in {"context", "enable", "register"}

(* A goroutine or request that works has an order.                          *)
BusyHasOrder == \A p \in Procs : job[p].pc # "idle" => job[p].order \in Orders

(* Whoever is about to charge an order has inserted its payment, and nobody *)
(* was asked for it before.                                                 *)
ChargingIsNew ==
    \A o \in Orders \ erased, p \in Procs :
        Charging(p, o) => Exists(o) /\ registered[o] = 0

(* The duplicate key lets one goroutine through.                            *)
OneCharges ==
    \A o \in Orders \ erased, p, q \in Procs :
        Charging(p, o) /\ Charging(q, o) => p = q

(* An order without a payment was never charged.                            *)
ChargedHasPayment == \A o \in Orders \ erased : ~Exists(o) => registered[o] = 0

(* The create flow of a prepayment has no step that enables it.             *)
PrepaymentSkipsEnable ==
    \A p \in Procs : job[p].pc = "enable" => Method(job[p].order) # "PREPAYMENT"

(* A callback carries a status that the provider has reported.              *)
CallbackIsReported ==
    \A p \in Procs : job[p].pc \in {"load", "apply"}
                        => job[p].status \in reported[job[p].order]

ChargeInv ==
    /\ BusyHasOrder
    /\ ChargingIsNew
    /\ OneCharges
    /\ ChargedHasPayment
    /\ ChargedOnce

EnableInv ==
    /\ PrepaymentSkipsEnable
    /\ CallbackIsReported
    /\ PrepaidBeforeEnabled

Inv == TypeOK /\ ChargeInv /\ EnableInv
-----------------------------------------------------------------------------
LEMMA InitInv == Init => Inv
<1> SUFFICES ASSUME Init PROVE Inv
  OBVIOUS
<1> USE PaymentAssumption
<1>1. TypeOK
  BY DEF Init, TypeOK, NoPayment, PaymentDoc, IdleJob, Job, IdleCron, Cron,
     Status
<1>2. ChargeInv
  BY DEF Init, ChargeInv, BusyHasOrder, ChargingIsNew, OneCharges,
     ChargedHasPayment, ChargedOnce, Charging, IdleJob, NoPayment, Exists
<1>3. EnableInv
  BY DEF Init, EnableInv, PrepaymentSkipsEnable, CallbackIsReported,
     PrepaidBeforeEnabled, IdleJob
<1> QED
  BY <1>1, <1>2, <1>3 DEF Inv

-----------------------------------------------------------------------------
(* What the helpers of the actions do to the state.                         *)
PC == {"idle", "load", "apply"} \cup StartSteps

LEMMA GotoJob ==
    ASSUME TypeOK, NEW p \in Procs, NEW pc \in PC, Goto(p, pc)
    PROVE  /\ job' \in [Procs -> Job]
           /\ job'[p].pc = pc
           /\ job'[p].order = job[p].order
           /\ job'[p].status = job[p].status
           /\ \A q \in Procs : q # p => job'[q] = job[q]
BY DEF TypeOK, Goto, PC, Job

LEMMA DoneJob ==
    ASSUME TypeOK, NEW p \in Procs, Done(p)
    PROVE  /\ job' \in [Procs -> Job]
           /\ job'[p].pc = "idle"
           /\ \A q \in Procs : q # p => job'[q] = job[q]
BY DEF TypeOK, Done, IdleJob, Job, Status

LEMMA SetStatusDoc ==
    ASSUME TypeOK, NEW o \in Orders, NEW s \in Status, Exists(o), SetStatus(o, s)
    PROVE  /\ payment' \in [Orders -> PaymentDoc]
           /\ \A q \in Orders : Exists(q)' <=> Exists(q)
<1> DEFINE paid == payment[o].payed \/ s = "SUCCEEDED"
           doc(b) == [payment[o] EXCEPT !.status = s, !.payed = b]
<1>1. \A b \in BOOLEAN : doc(b) \in PaymentDoc
  BY DEF TypeOK, PaymentDoc
<1>2. paid \in BOOLEAN
  OBVIOUS
<1>3. doc(paid) \in PaymentDoc
  BY <1>1, <1>2, Zenon
<1>4. payment' = [payment EXCEPT ![o] = doc(paid)]
  BY DEF SetStatus, TypeOK
<1> HIDE DEF paid
<1>5. doc(paid).status = s
  BY DEF TypeOK, PaymentDoc
<1> HIDE DEF doc
<1>6. s # "NONE"
  BY DEF Status
<1> QED
  BY <1>3, <1>4, <1>5, <1>6 DEF TypeOK, Exists

LEMMA WriteStatusDoc ==
    ASSUME TypeOK, NEW o \in Orders, NEW s \in Status, WriteStatus(o, s)
    PROVE  /\ payment' \in [Orders -> PaymentDoc]
           /\ \A q \in Orders : Exists(q)' <=> Exists(q)
<1>1. CASE Exists(o) /\ SetStatus(o, s)
  BY <1>1, SetStatusDoc
<1>2. CASE UNCHANGED payment
  BY <1>2 DEF TypeOK, Exists
<1> QED
  BY <1>1, <1>2 DEF WriteStatus

(* Publishing adds at most the event to what was sent, or to what was lost. *)
LEMMA PublishAdds ==
    ASSUME NEW e, Publish(e)
    PROVE  /\ events' \in {events, events \cup {e}}
           /\ lost' \in {lost, lost \cup {e}}
BY DEF Publish

LEMMA PublishWithOpenOrderAdds ==
    ASSUME NEW o, NEW e, PublishWithOpenOrder(o, e)
    PROVE  /\ events' \in {events, events \cup {e}}
           /\ lost' \in {lost, lost \cup {e}}
BY PublishAdds DEF PublishWithOpenOrder, PublishNothing

LEMMA EventTypes ==
    ASSUME NEW o \in Orders
    PROVE  /\ Enabled(o) \in Event /\ Failed(o) \in Event
           /\ \A q : Enabled(q) # Failed(o)
           /\ \A q : Enabled(q) = Enabled(o) => q = o
BY DEF Enabled, Failed, Event

-----------------------------------------------------------------------------
(* What keeps the two parts of the invariant when only p moves.             *)
OthersStay(p) == \A q \in Procs : q # p => job'[q] = job[q]

ChargeSteps == {"context", "enable", "register"}

(* p does not newly get past the insert of a payment.                       *)
LEMMA ChargeKept ==
    ASSUME ChargeInv, NEW p \in Procs, OthersStay(p),
           job'[p].pc # "idle" => job'[p].order \in Orders,
           job'[p].pc \in ChargeSteps =>
               job[p].pc \in ChargeSteps /\ job'[p].order = job[p].order,
           \A o \in Orders : Exists(o)' <=> Exists(o),
           UNCHANGED <<registered, erased>>
    PROVE  ChargeInv'
<1>1. BusyHasOrder'
  BY DEF OthersStay, ChargeInv, BusyHasOrder
<1>2. \A q \in Procs, o \in Orders : Charging(q, o)' => Charging(q, o)
  BY DEF OthersStay, Charging, ChargeSteps
<1>3. ChargingIsNew' /\ OneCharges' /\ ChargedHasPayment' /\ ChargedOnce'
  BY <1>2 DEF ChargeInv, ChargingIsNew, OneCharges, ChargedHasPayment,
     ChargedOnce
<1> QED
  BY <1>1, <1>3 DEF ChargeInv

(* p neither enables a prepayment nor brings in an unreported status.       *)
LEMMA EnableKept ==
    ASSUME EnableInv, BusyHasOrder, NEW p \in Procs, OthersStay(p),
           job'[p].pc = "enable" => Method(job'[p].order) # "PREPAYMENT",
           job'[p].pc \in {"load", "apply"} =>
               job'[p].status \in reported'[job'[p].order],
           \A o \in Orders : reported[o] \subseteq reported'[o],
           \A o \in Orders :
               Enabled(o) \in events' /\ Method(o) = "PREPAYMENT" =>
                   Enabled(o) \in events \/ "SUCCEEDED" \in reported'[o]
    PROVE  EnableInv'
<1>1. PrepaymentSkipsEnable'
  BY DEF OthersStay, EnableInv, PrepaymentSkipsEnable, Method
<1>2. CallbackIsReported'
  BY DEF OthersStay, EnableInv, CallbackIsReported, BusyHasOrder
<1>3. PrepaidBeforeEnabled'
  BY DEF EnableInv, PrepaidBeforeEnabled, Method
<1> QED
  BY <1>1, <1>2, <1>3 DEF EnableInv

(* Steps of the schedulers, of time and of administrators move no process.  *)
LEMMA JobsStay ==
    ASSUME ChargeInv, EnableInv, UNCHANGED <<job, registered, reported, erased>>,
           \A o \in Orders : Exists(o)' <=> Exists(o),
           \A o \in Orders : Enabled(o) \in events' => Enabled(o) \in events
    PROVE  ChargeInv' /\ EnableInv'
<1>1. ChargeInv'
  BY DEF ChargeInv, BusyHasOrder, ChargingIsNew, OneCharges,
     ChargedHasPayment, ChargedOnce, Charging
<1>2. EnableInv'
  BY DEF EnableInv, PrepaymentSkipsEnable, CallbackIsReported,
     PrepaidBeforeEnabled, Method
<1> QED
  BY <1>1, <1>2
-----------------------------------------------------------------------------
(* The start of a payment, step by step.                                    *)
LEMMA HandleInv ==
    ASSUME Inv, NEW p \in Procs, NEW o \in Orders,
           HandleOrderValidationSucceeded(p, o)
    PROVE  Inv'
<1>1. /\ job' \in [Procs -> Job] /\ OthersStay(p)
      /\ job'[p].pc = "lookup" /\ job'[p].order = o
  BY DEF HandleOrderValidationSucceeded, Inv, TypeOK, Job, IdleJob, StartSteps,
     Status, OthersStay
<1>2. TypeOK'
  BY <1>1 DEF HandleOrderValidationSucceeded, Inv, TypeOK, docs, provider
<1>3. \A q \in Orders : Exists(q)' <=> Exists(q)
  BY DEF HandleOrderValidationSucceeded, docs, Exists
<1>4. ChargeInv'
  BY <1>1, <1>3, ChargeKept DEF HandleOrderValidationSucceeded, provider, Inv,
     ChargeSteps
<1>5. EnableInv'
  BY <1>1, EnableKept DEF HandleOrderValidationSucceeded, provider, Inv,
     ChargeInv
<1> QED
  BY <1>2, <1>4, <1>5 DEF Inv

(* A step of p that asks the provider for nothing: p goes on with its order *)
(* or is done.                                                              *)
LEMMA StepInv ==
    ASSUME Inv, NEW p \in Procs, job[p].pc # "idle",
           NEW pc \in PC, Goto(p, pc) \/ (pc = "idle" /\ Done(p)),
           pc \in ChargeSteps => job[p].pc \in ChargeSteps,
           pc = "enable" => Method(job[p].order) # "PREPAYMENT",
           pc \in {"load", "apply"} => job[p].pc \in {"load", "apply"},
           payment' \in [Orders -> PaymentDoc],
           \A o \in Orders : Exists(o)' <=> Exists(o),
           openOrders' \in [Orders -> Nat],
           events' \subseteq Event, lost' \subseteq Event,
           \A o \in Orders :
               Enabled(o) \in events' /\ Method(o) = "PREPAYMENT" =>
                   Enabled(o) \in events \/ "SUCCEEDED" \in reported[o],
           UNCHANGED <<infos, overdue, cron, deliveries, erased, provider>>
    PROVE  Inv'
<1> USE DEF provider
<1>1. /\ job' \in [Procs -> Job] /\ OthersStay(p) /\ job'[p].pc = pc
      /\ pc # "idle" => job'[p].order = job[p].order
                         /\ job'[p].status = job[p].status
  BY GotoJob, DoneJob DEF Inv, OthersStay
<1>2. TypeOK'
  BY <1>1 DEF Inv, TypeOK
<1>3. ChargeInv'
  <2>1. job'[p].pc # "idle" => job'[p].order \in Orders
    BY <1>1 DEF Inv, ChargeInv, BusyHasOrder
  <2>2. job'[p].pc \in ChargeSteps =>
            job[p].pc \in ChargeSteps /\ job'[p].order = job[p].order
    BY <1>1 DEF ChargeSteps
  <2> QED
    BY <1>1, <2>1, <2>2, ChargeKept DEF Inv
<1>4. EnableInv'
  <2>1. job'[p].pc = "enable" => Method(job'[p].order) # "PREPAYMENT"
    BY <1>1
  <2>2. job'[p].pc \in {"load", "apply"} =>
            job'[p].status \in reported'[job'[p].order]
    BY <1>1 DEF Inv, EnableInv, CallbackIsReported
  <2> QED
    BY <1>1, <2>1, <2>2, EnableKept DEF Inv, ChargeInv
<1> QED
  BY <1>2, <1>3, <1>4 DEF Inv

(* Such a step that touches no payment and publishes nothing.               *)
LEMMA MoveInv ==
    ASSUME Inv, NEW p \in Procs, job[p].pc # "idle",
           NEW pc \in PC, Goto(p, pc) \/ (pc = "idle" /\ Done(p)),
           pc \in ChargeSteps => job[p].pc \in ChargeSteps,
           pc = "enable" => Method(job[p].order) # "PREPAYMENT",
           pc \in {"load", "apply"} => job[p].pc \in {"load", "apply"},
           openOrders' \in [Orders -> Nat],
           UNCHANGED <<payment, infos, overdue, cron, history, provider, events>>
    PROVE  Inv'
<1>1. /\ payment' \in [Orders -> PaymentDoc]
      /\ events' \subseteq Event /\ lost' \subseteq Event
  BY DEF Inv, TypeOK, history
<1>2. \A o \in Orders : Exists(o)' <=> Exists(o)
  BY DEF Exists
<1> QED
  BY <1>1, <1>2, StepInv DEF history

LEMMA LookupInv ==
    ASSUME Inv, NEW p \in Procs, LookupInfo(p)
    PROVE  Inv'
<1>1. Goto(p, "create") \/ Goto(p, "compensate")
  BY DEF LookupInfo
<1>2. openOrders' \in [Orders -> Nat]
  BY DEF LookupInfo, docs, Inv, TypeOK
<1>3. {"create", "compensate"} \subseteq PC \ ({"load", "apply"} \cup ChargeSteps)
  BY DEF PC, StartSteps, ChargeSteps
<1> QED
  BY <1>1, <1>2, <1>3, MoveInv DEF LookupInfo, docs

(* The insert lets p through only if there is no payment of the order, so   *)
(* that nobody else is past it and the provider was not asked.  It may also *)
(* have taken effect without an answer.                                     *)
LEMMA CreatePaymentInv ==
    ASSUME Inv, NEW p \in Procs, CreatePayment(p)
    PROVE  Inv'
<1>0. PICK o \in Orders : o = job[p].order /\ job[p].pc = "create"
  BY DEF CreatePayment, Inv, ChargeInv, BusyHasOrder
<1>1. CASE /\ ~Exists(o)
           /\ Goto(p, "context") \/ Goto(p, "compensate")
           /\ payment' = [payment EXCEPT ![o] = [NoPayment EXCEPT !.status = "OPEN"]]
  <2>1. /\ job' \in [Procs -> Job] /\ OthersStay(p)
        /\ job'[p].pc \in {"context", "compensate"} /\ job'[p].order = o
    BY <1>0, <1>1, GotoJob DEF Inv, OthersStay, PC, StartSteps
  <2>2. [NoPayment EXCEPT !.status = "OPEN"] \in PaymentDoc
    BY DEF NoPayment, PaymentDoc, Status
  <2>3. TypeOK'
    BY <1>0, <1>1, <2>1, <2>2 DEF CreatePayment, Inv, TypeOK, history, provider
  <2>4. /\ Exists(o)'
        /\ \A q \in Orders : q # o => (Exists(q)' <=> Exists(q))
    BY <1>0, <1>1 DEF Inv, TypeOK, Exists, NoPayment
  <2>5. UNCHANGED <<registered, erased, events, reported>>
    BY DEF CreatePayment, history, provider
  <2>6. BusyHasOrder'
    BY <1>0, <2>1 DEF OthersStay, Inv, ChargeInv, BusyHasOrder
  <2>7. \A q \in Procs, r \in Orders :
            Charging(q, r)' => IF q = p THEN r = o ELSE Charging(q, r)
    BY <2>1 DEF OthersStay, Charging
  <2>8. o \notin erased => registered[o] = 0 /\ \A q \in Procs : ~Charging(q, o)
    BY <1>0, <1>1 DEF Inv, ChargeInv, ChargingIsNew, ChargedHasPayment
  <2>9. ChargingIsNew'
    BY <2>4, <2>5, <2>7, <2>8 DEF Inv, ChargeInv, ChargingIsNew
  <2>10. OneCharges'
    BY <2>5, <2>7, <2>8 DEF Inv, ChargeInv, OneCharges
  <2>11. ChargedHasPayment' /\ ChargedOnce'
    BY <2>4, <2>5 DEF Inv, ChargeInv, ChargedHasPayment, ChargedOnce
  <2>12. EnableInv'
    BY <2>1, <2>5, EnableKept DEF Inv, ChargeInv
  <2> QED
    BY <2>3, <2>6, <2>9, <2>10, <2>11, <2>12 DEF Inv, ChargeInv
<1>2. CASE Goto(p, "compensate") /\ UNCHANGED payment
  <2>1. /\ "compensate" \in PC
        /\ "compensate" \notin {"load", "apply"} \cup ChargeSteps
        /\ openOrders' \in [Orders -> Nat]
    BY DEF PC, StartSteps, ChargeSteps, CreatePayment, Inv, TypeOK
  <2> QED
    BY <1>0, <1>2, <2>1, MoveInv DEF CreatePayment
<1> QED
  BY <1>0, <1>1, <1>2 DEF CreatePayment

LEMMA CreateOpenOrderInv ==
    ASSUME Inv, NEW p \in Procs, CreateOpenOrder(p)
    PROVE  Inv'
<1>0. job[p].pc = "context" /\ job[p].order \in Orders
  BY DEF CreateOpenOrder, Inv, ChargeInv, BusyHasOrder
<1>1. openOrders' \in [Orders -> Nat]
  BY <1>0 DEF CreateOpenOrder, Inv, TypeOK
<1>2. \/ Goto(p, "register")
      \/ Goto(p, "enable") /\ Method(job[p].order) # "PREPAYMENT"
      \/ Goto(p, "compensate")
  BY DEF CreateOpenOrder
<1>3. /\ {"register", "enable", "compensate"} \subseteq PC
      /\ "compensate" \notin ChargeSteps /\ "context" \in ChargeSteps
  BY DEF PC, StartSteps, ChargeSteps
<1> QED
  BY <1>0, <1>1, <1>2, <1>3, MoveInv DEF CreateOpenOrder

LEMMA PublishEnabledAtStartInv ==
    ASSUME Inv, NEW p \in Procs, PublishEnabledAtStart(p)
    PROVE  Inv'
<1>0. PICK o \in Orders : o = job[p].order /\ job[p].pc = "enable"
  BY DEF PublishEnabledAtStart, Inv, ChargeInv, BusyHasOrder
<1>1. Method(o) # "PREPAYMENT"
  BY <1>0 DEF Inv, EnableInv, PrepaymentSkipsEnable
<1>2. /\ events' \subseteq events \cup {Enabled(o)}
      /\ lost' \subseteq lost \cup {Enabled(o)}
  BY <1>0, PublishWithOpenOrderAdds DEF PublishEnabledAtStart
<1>3. events' \subseteq Event /\ lost' \subseteq Event
  BY <1>2, EventTypes DEF Inv, TypeOK
<1>4. \A q \in Orders : Enabled(q) \in events' /\ Method(q) = "PREPAYMENT"
                          => Enabled(q) \in events
  BY <1>1, <1>2, EventTypes
<1>5. "register" \in PC /\ "enable" \in ChargeSteps
  BY DEF PC, StartSteps, ChargeSteps
<1>6. /\ payment' \in [Orders -> PaymentDoc]
      /\ openOrders' \in [Orders -> Nat]
      /\ \A q \in Orders : Exists(q)' <=> Exists(q)
  BY DEF PublishEnabledAtStart, docs, Inv, TypeOK, Exists
<1> QED
  BY <1>0, <1>3, <1>4, <1>5, <1>6, StepInv DEF PublishEnabledAtStart, docs

(* The one step that asks the provider: p was past the insert alone, and is *)
(* no more.                                                                 *)
LEMMA RegisterInv ==
    ASSUME Inv, NEW p \in Procs, Register(p)
    PROVE  Inv'
<1>0. PICK o \in Orders : o = job[p].order /\ job[p].pc = "register"
  BY DEF Register, Inv, ChargeInv, BusyHasOrder
<1>1. /\ job' \in [Procs -> Job] /\ OthersStay(p)
      /\ job'[p].pc = "pending" /\ job'[p].order = o
  BY <1>0, GotoJob DEF Register, Inv, OthersStay, PC, StartSteps
<1>2. /\ registered' \in [Orders -> Nat]
      /\ registered'[o] \in {registered[o], registered[o] + 1}
      /\ \A q \in Orders : q # o => registered'[q] = registered[q]
  BY <1>0 DEF Register, Inv, TypeOK
<1>3. TypeOK'
  BY <1>1, <1>2 DEF Register, Inv, TypeOK, docs, history
<1>4. \A q \in Orders : Exists(q)' <=> Exists(q)
  BY DEF Register, docs, Exists
<1>5. UNCHANGED <<erased, events, reported>>
  BY DEF Register, history
<1>6. BusyHasOrder'
  BY <1>0, <1>1 DEF OthersStay, Inv, ChargeInv, BusyHasOrder
<1>7. \A q \in Procs, r \in Orders :
          Charging(q, r)' => q # p /\ Charging(q, r)
  BY <1>1 DEF OthersStay, Charging
<1>8. o \notin erased => /\ registered[o] = 0 /\ Exists(o)
                        /\ \A q \in Procs : Charging(q, o) => q = p
  BY <1>0 DEF Charging, Inv, ChargeInv, ChargingIsNew, OneCharges
<1>9. ChargingIsNew' /\ OneCharges'
  BY <1>2, <1>4, <1>5, <1>7, <1>8 DEF Inv, ChargeInv, ChargingIsNew, OneCharges
<1>10. ChargedHasPayment' /\ ChargedOnce'
  BY <1>2, <1>4, <1>5, <1>8 DEF Inv, ChargeInv, ChargedHasPayment, ChargedOnce
<1>11. EnableInv'
  BY <1>1, <1>5, EnableKept DEF Inv, ChargeInv
<1> QED
  BY <1>3, <1>6, <1>9, <1>10, <1>11 DEF Inv, ChargeInv

LEMMA SetPendingInv ==
    ASSUME Inv, NEW p \in Procs, SetPending(p)
    PROVE  Inv'
<1>0. PICK o \in Orders : o = job[p].order /\ job[p].pc = "pending"
  BY DEF SetPending, Inv, ChargeInv, BusyHasOrder
<1>1. /\ payment' \in [Orders -> PaymentDoc]
      /\ \A q \in Orders : Exists(q)' <=> Exists(q)
  <2>1. CASE Exists(o) /\ SetStatus(o, "PENDING")
    BY <2>1, SetStatusDoc DEF Inv, Status
  <2>2. CASE UNCHANGED payment
    BY <2>2 DEF Inv, TypeOK, Exists
  <2> QED
    BY <1>0, <2>1, <2>2 DEF SetPending
<1>2. Done(p) \/ Goto(p, "compensate")
  BY DEF SetPending
<1>3. {"idle", "compensate"} \subseteq PC \ ({"load", "apply"} \cup ChargeSteps)
  BY DEF PC, StartSteps, ChargeSteps
<1>4. /\ openOrders' \in [Orders -> Nat]
      /\ events' \subseteq Event /\ lost' \subseteq Event
  BY DEF SetPending, Inv, TypeOK, history
<1> QED
  BY <1>0, <1>1, <1>2, <1>3, <1>4, StepInv DEF SetPending, history

LEMMA CompensateInv ==
    ASSUME Inv, NEW p \in Procs, DeleteOpenOrder(p)
    PROVE  Inv'
<1>0. job[p].pc = "compensate" /\ job[p].order \in Orders
  BY DEF DeleteOpenOrder, Inv, ChargeInv, BusyHasOrder
<1>1. openOrders' \in [Orders -> Nat]
  BY <1>0 DEF DeleteOpenOrder, Inv, TypeOK
<1>2. "announce" \in PC \ ({"load", "apply"} \cup ChargeSteps)
  BY DEF PC, StartSteps, ChargeSteps
<1> QED
  BY <1>0, <1>1, <1>2, MoveInv DEF DeleteOpenOrder, ChargeSteps

LEMMA PublishFailedAtStartInv ==
    ASSUME Inv, NEW p \in Procs, PublishFailedAtStart(p)
    PROVE  Inv'
<1>0. PICK o \in Orders : o = job[p].order /\ job[p].pc = "announce"
  BY DEF PublishFailedAtStart, Inv, ChargeInv, BusyHasOrder
<1>1. events' \subseteq events \cup {Failed(o)} /\ lost' \subseteq lost \cup {Failed(o)}
  BY <1>0, PublishAdds DEF PublishFailedAtStart
<1>2. /\ events' \subseteq Event /\ lost' \subseteq Event
      /\ \A q \in Orders : Enabled(q) \in events' => Enabled(q) \in events
  BY <1>1, EventTypes DEF Inv, TypeOK
<1>3. /\ payment' \in [Orders -> PaymentDoc]
      /\ openOrders' \in [Orders -> Nat]
      /\ \A q \in Orders : Exists(q)' <=> Exists(q)
  BY DEF PublishFailedAtStart, docs, Inv, TypeOK, Exists
<1>4. "idle" \in PC \ ({"load", "apply"} \cup ChargeSteps)
  BY DEF PC, StartSteps, ChargeSteps
<1> QED
  BY <1>0, <1>2, <1>3, <1>4, StepInv DEF PublishFailedAtStart, docs

-----------------------------------------------------------------------------
(* The callbacks of the provider.                                           *)
LEMMA CallbackInv ==
    ASSUME Inv, NEW p \in Procs, NEW o \in Orders, NEW s \in Outcomes,
           Callback(p, o, s)
    PROVE  Inv'
<1>1. /\ job' \in [Procs -> Job] /\ OthersStay(p)
      /\ job'[p].pc = "load" /\ job'[p].order = o /\ job'[p].status = s
  BY DEF Callback, Inv, TypeOK, Job, OthersStay
<1>2. TypeOK'
  <2>1. callbacks' \in [Orders -> Nat]
    BY DEF Callback, Inv, TypeOK
  <2>2. reported' \in [Orders -> SUBSET Status]
    BY DEF Callback, Inv, TypeOK
  <2> QED
    BY <1>1, <2>1, <2>2 DEF Callback, Inv, TypeOK, docs, history
<1>3. \A q \in Orders : Exists(q)' <=> Exists(q)
  BY DEF Callback, docs, Exists
<1>4. ChargeInv'
  BY <1>1, <1>3, ChargeKept DEF Callback, history, Inv, ChargeSteps
<1>5. s \in reported'[o] /\ \A q \in Orders : reported[q] \subseteq reported'[q]
  BY DEF Callback, Inv, TypeOK
<1>6. EnableInv'
  BY <1>1, <1>5, EnableKept DEF Callback, Inv, ChargeInv
<1> QED
  BY <1>2, <1>4, <1>6 DEF Inv

LEMMA LoadInv ==
    ASSUME Inv, NEW p \in Procs, LoadPayment(p)
    PROVE  Inv'
<1>1. Goto(p, "apply") \/ Done(p)
  BY DEF LoadPayment
<1>2. openOrders' \in [Orders -> Nat]
  BY DEF LoadPayment, docs, Inv, TypeOK
<1>3. /\ {"idle", "apply"} \subseteq PC \ ChargeSteps
      /\ "idle" \notin {"load", "apply"}
  BY DEF PC, ChargeSteps
<1> QED
  BY <1>1, <1>2, <1>3, MoveInv DEF LoadPayment, docs

(* Whatever the method, applying a callback keeps the payment and enables   *)
(* the order only if the status is SUCCEEDED, or not at all.                *)
LEMMA UpdateEffect ==
    ASSUME Inv, NEW o \in Orders, NEW s \in Status,
           \/ UpdateCreditCard(o, s) \/ UpdatePrepayment(o, s)
           \/ UpdateInvoice(o, s)
    PROVE  /\ payment' \in [Orders -> PaymentDoc]
           /\ \A q \in Orders : Exists(q)' <=> Exists(q)
           /\ lost' \subseteq lost \cup {Failed(o), Enabled(o)}
           /\ \/ events' \subseteq events \cup {Failed(o)}
              \/ s = "SUCCEEDED" /\ events' \subseteq events \cup {Enabled(o)}
<1>1. WriteStatus(o, s) \/ UNCHANGED payment
  BY DEF UpdateCreditCard, UpdatePrepayment, UpdateInvoice
<1>2. \/ UNCHANGED <<events, lost>>
      \/ PublishWithOpenOrder(o, Failed(o))
      \/ s = "SUCCEEDED" /\ PublishWithOpenOrder(o, Enabled(o))
  BY DEF UpdateCreditCard, UpdatePrepayment, UpdateInvoice, PublishNothing
<1>3. /\ payment' \in [Orders -> PaymentDoc]
      /\ \A q \in Orders : Exists(q)' <=> Exists(q)
  <2>1. CASE WriteStatus(o, s)
    BY <2>1, WriteStatusDoc DEF Inv
  <2>2. CASE UNCHANGED payment
    BY <2>2 DEF Inv, TypeOK, Exists
  <2> QED
    BY <1>1, <2>1, <2>2
<1> QED
  BY <1>2, <1>3, PublishWithOpenOrderAdds

LEMMA UpdateInv ==
    ASSUME Inv, NEW p \in Procs, UpdatePaymentStatus(p)
    PROVE  Inv'
<1>0. PICK o \in Orders : o = job[p].order /\ job[p].pc = "apply"
  BY DEF UpdatePaymentStatus, Inv, ChargeInv, BusyHasOrder
<1>1. PICK s \in Status : s = job[p].status
  BY DEF Inv, TypeOK, Job
<1>2. UpdateCreditCard(o, s) \/ UpdatePrepayment(o, s) \/ UpdateInvoice(o, s)
  <2>1. Method(o) \in Methods
    BY PaymentAssumption DEF Method
  <2> QED
    BY <1>0, <1>1, <2>1 DEF UpdatePaymentStatus, Methods
<1>3. /\ payment' \in [Orders -> PaymentDoc]
      /\ \A q \in Orders : Exists(q)' <=> Exists(q)
      /\ lost' \subseteq lost \cup {Failed(o), Enabled(o)}
      /\ \/ events' \subseteq events \cup {Failed(o)}
         \/ s = "SUCCEEDED" /\ events' \subseteq events \cup {Enabled(o)}
  BY <1>2, UpdateEffect
<1>4. s \in reported[o]
  BY <1>0, <1>1 DEF Inv, EnableInv, CallbackIsReported
<1>5. /\ events' \subseteq Event /\ lost' \subseteq Event
      /\ \A q \in Orders : Enabled(q) \in events' =>
             Enabled(q) \in events \/ "SUCCEEDED" \in reported[q]
  BY <1>3, <1>4, EventTypes DEF Inv, TypeOK
<1>6. openOrders' \in [Orders -> Nat] /\ Done(p)
  BY DEF UpdatePaymentStatus, Inv, TypeOK
<1>7. "idle" \in PC \ ({"load", "apply"} \cup ChargeSteps)
  BY DEF PC, StartSteps, ChargeSteps
<1> QED
  BY <1>0, <1>3, <1>5, <1>6, <1>7, StepInv DEF UpdatePaymentStatus

-----------------------------------------------------------------------------
(* Time, schedulers and administrators.                                     *)
LEMMA OverdueInv ==
    ASSUME Inv, NEW o \in Orders, Overdue(o)
    PROVE  Inv'
<1>1. TypeOK'
  BY DEF Overdue, Inv, TypeOK, docs, history, provider
<1> QED
  BY <1>1, JobsStay DEF Overdue, docs, history, provider, Inv, Exists

LEMMA CheckInv ==
    ASSUME Inv, NEW m \in Scheduled, CheckOpenPayments(m)
    PROVE  Inv'
<1>1. OverduePayments(m) \subseteq Orders
  BY DEF OverduePayments, Inv, TypeOK
<1>2. cron' \in [Scheduled -> Cron]
  BY <1>1 DEF CheckOpenPayments, Inv, TypeOK, Cron
<1>3. TypeOK'
  BY <1>2 DEF CheckOpenPayments, Inv, TypeOK, docs, history, provider
<1> QED
  BY <1>3, JobsStay DEF CheckOpenPayments, docs, history, provider, Inv, Exists

LEMMA FailOverdueInv ==
    ASSUME Inv, NEW m \in Scheduled, NEW o \in Orders, FailOverdue(m, o)
    PROVE  Inv'
<1>1. /\ payment' \in [Orders -> PaymentDoc]
      /\ \A q \in Orders : Exists(q)' <=> Exists(q)
  BY WriteStatusDoc DEF FailOverdue, Inv, Status
<1>2. cron' \in [Scheduled -> Cron]
  BY DEF FailOverdue, Inv, TypeOK, Cron
<1>3. TypeOK'
  BY <1>1, <1>2 DEF FailOverdue, Inv, TypeOK, history, provider
<1> QED
  BY <1>1, <1>3, JobsStay DEF FailOverdue, history, provider, Inv

LEMMA AnnounceOverdueInv ==
    ASSUME Inv, NEW m \in Scheduled, AnnounceOverdue(m)
    PROVE  Inv'
<1>0. PICK o \in Orders : o = cron[m].failed
  BY DEF AnnounceOverdue, Inv, TypeOK, Cron
<1>1. events' \subseteq events \cup {Failed(o)} /\ lost' \subseteq lost \cup {Failed(o)}
  BY <1>0, PublishWithOpenOrderAdds DEF AnnounceOverdue
<1>2. /\ events' \subseteq Event /\ lost' \subseteq Event
      /\ \A q \in Orders : Enabled(q) \in events' => Enabled(q) \in events
  BY <1>1, EventTypes DEF Inv, TypeOK
<1>3. cron' \in [Scheduled -> Cron]
  BY DEF AnnounceOverdue, Inv, TypeOK, Cron
<1>4. TypeOK'
  BY <1>2, <1>3 DEF AnnounceOverdue, Inv, TypeOK, docs, history, provider
<1> QED
  BY <1>2, <1>4, JobsStay DEF AnnounceOverdue, docs, history, provider, Inv,
     Exists

LEMMA InformationInv ==
    ASSUME Inv, NEW i \in Infos,
           CreatePaymentInformation(i) \/ DeletePaymentInformation(i)
    PROVE  Inv'
<1> USE DEF CreatePaymentInformation, DeletePaymentInformation
<1>1. TypeOK'
  BY DEF Inv, TypeOK, history, provider
<1> QED
  BY <1>1, JobsStay DEF history, provider, Inv, Exists

(* A deleted payment is the one way to charge an order again.               *)
LEMMA DeletePaymentInv ==
    ASSUME Inv, NEW o \in Orders, DeletePayment(o)
    PROVE  Inv'
<1>1. TypeOK'
  BY DEF DeletePayment, Inv, TypeOK, provider, NoPayment, PaymentDoc
<1>2. \A q \in Orders : q # o => (Exists(q)' <=> Exists(q))
  BY DEF DeletePayment, Inv, TypeOK, Exists
<1>3. UNCHANGED <<job, registered, reported, events>> /\ erased' = erased \cup {o}
  BY DEF DeletePayment, provider
<1>4. BusyHasOrder' /\ EnableInv'
  BY <1>3 DEF Inv, ChargeInv, BusyHasOrder, EnableInv, PrepaymentSkipsEnable,
     CallbackIsReported, PrepaidBeforeEnabled, Method
<1>5. ChargingIsNew' /\ OneCharges' /\ ChargedHasPayment' /\ ChargedOnce'
  BY <1>2, <1>3 DEF Inv, ChargeInv, ChargingIsNew, OneCharges,
     ChargedHasPayment, ChargedOnce, Charging
<1> QED
  BY <1>1, <1>4, <1>5 DEF Inv, ChargeInv

-----------------------------------------------------------------------------
LEMMA NextInv == Inv /\ [Next]_vars => Inv'
<1> SUFFICES ASSUME Inv, [Next]_vars PROVE Inv'
  OBVIOUS
<1>1. ASSUME NEW p \in Procs, NEW o \in Orders, HandleOrderValidationSucceeded(p, o)
      PROVE  Inv'
  BY <1>1, HandleInv
<1>2. ASSUME NEW p \in Procs, Start(p)
      PROVE  Inv'
  BY <1>2, LookupInv, CreatePaymentInv, CreateOpenOrderInv,
     PublishEnabledAtStartInv, RegisterInv, SetPendingInv, CompensateInv,
     PublishFailedAtStartInv DEF Start
<1>3. ASSUME NEW p \in Procs, Update(p)
      PROVE  Inv'
  BY <1>3, LoadInv, UpdateInv DEF Update
<1>4. ASSUME NEW p \in Procs, NEW o \in Orders, NEW s \in Outcomes, Callback(p, o, s)
      PROVE  Inv'
  BY <1>4, CallbackInv
<1>5. ASSUME NEW m \in Scheduled, Schedule(m)
      PROVE  Inv'
  BY <1>5, CheckInv, FailOverdueInv, AnnounceOverdueInv DEF Schedule
<1>6. ASSUME NEW o \in Orders, Overdue(o)
      PROVE  Inv'
  BY <1>6, OverdueInv
<1>7. CASE Admin
  BY <1>7, InformationInv, DeletePaymentInv DEF Admin
<1>8. CASE UNCHANGED vars
  <2>1. TypeOK'
    BY <1>8 DEF vars, Inv, TypeOK
  <2> QED
    BY <1>8, <2>1, JobsStay DEF vars, Inv, Exists
<1> QED
  BY <1>1, <1>2, <1>3, <1>4, <1>5, <1>6, <1>7, <1>8 DEF Next

LEMMA InvHolds == Spec => []Inv
BY InitInv, NextInv, PTL DEF Spec

(* Every document, process and event of the payment service keeps its type, *)
(* also under statuses the provider posts that are none.                    *)
THEOREM PaymentTypes == Spec => []TypeOK
<1>1. Inv => TypeOK
  BY DEF Inv
<1> QED
  BY <1>1, InvHolds, PTL

(* However often validation-succeeded is delivered, whatever interleaves    *)
(* and fails, the provider is asked at most once to charge an order whose   *)
(* payment nobody deleted.                                                  *)
THEOREM ChargedAtMostOnce == Spec => []ChargedOnce
<1>1. Inv => ChargedOnce
  BY DEF Inv, ChargeInv
<1> QED
  BY <1>1, InvHolds, PTL

(* payment-enabled is published for a prepaid order only after the provider *)
(* reported SUCCEEDED.                                                      *)
THEOREM PaidBeforeEnabled == Spec => []PrepaidBeforeEnabled
<1>1. Inv => PrepaidBeforeEnabled
  BY DEF Inv, EnableInv
<1> QED
  BY <1>1, InvHolds, PTL
-----------------------------------------------------------------------------
(* No payment waits in silence.                                             *)

(* A payment waits, or may still be made to: it was registered, so that the *)
(* provider may report PENDING, or a start of it is past the order context. *)
Awaited(o) ==
    \/ payment[o].status = "PENDING"
    \/ registered[o] > 0
    \/ \E p \in Procs : job[p].order = o /\ job[p].pc \in {"enable", "register", "pending"}

(* The order context is there, or the order is told of the failure.         *)
Accounted(o) == openOrders[o] > 0 \/ FailureTold(o)

(* Callbacks are about registered payments.                                 *)
CallsAreRegistered ==
    \A p \in Procs : job[p].pc \in {"load", "apply"} => registered[job[p].order] > 0

AccountInv ==
    /\ CallsAreRegistered
    /\ \A o \in Orders : Awaited(o) => Accounted(o)

LEMMA InitAccount == Init => AccountInv
BY DEF Init, AccountInv, CallsAreRegistered, Awaited, IdleJob, NoPayment

(* What a failure told needs to stay told: whoever is about to publish it   *)
(* stays so or publishes, and what was published or lost remains.           *)
LEMMA AccountStays ==
    ASSUME NEW o \in Orders, Accounted(o), NEW p \in Procs, OthersStay(p),
           events \subseteq events', lost \subseteq lost',
           openOrders[o] > 0 => openOrders'[o] > 0 \/ FailureTold(o)',
           job[p].pc = "announce" => Failed(job[p].order) \in events' \cup lost'
    PROVE  Accounted(o)'
<1>1. CASE openOrders[o] > 0
  BY <1>1 DEF Accounted
<1>2. CASE Failed(o) \in events \cup lost
  BY <1>2 DEF Accounted, FailureTold, Failed
<1>3. ASSUME NEW q \in Procs, job[q].pc = "announce", job[q].order = o
      PROVE  Accounted(o)'
  <2>1. CASE q = p
    BY <1>3, <2>1 DEF Accounted, FailureTold, Failed
  <2>2. CASE q # p
    BY <1>3, <2>2 DEF Accounted, FailureTold, OthersStay
  <2> QED
    BY <2>1, <2>2
<1> QED
  BY <1>1, <1>2, <1>3 DEF Accounted, FailureTold

(* A step of the process p for the order o: unless it told the failure, the *)
(* context stays, and nothing new waits without one.                        *)
LEMMA AccountMoves ==
    ASSUME Inv, AccountInv, NEW p \in Procs, NEW o \in Orders, OthersStay(p),
           job'[p].pc # "idle" => job'[p].order = o,
           job'[p].pc \in {"load", "apply"} => registered[o] > 0,
           job'[p].pc \in {"enable", "register", "pending"} =>
               Awaited(o) \/ openOrders'[o] > 0,
           events \subseteq events', lost \subseteq lost',
           job[p].pc = "announce" => Failed(job[p].order) \in events' \cup lost',
           openOrders[o] > 0 => openOrders'[o] > 0 \/ FailureTold(o)',
           registered[o] > 0 => registered'[o] > 0,
           registered'[o] > 0 => Awaited(o),
           payment'[o].status = "PENDING" => Awaited(o),
           \A r \in Orders : r # o => /\ openOrders'[r] = openOrders[r]
                                      /\ registered'[r] = registered[r]
                                      /\ payment'[r] = payment[r]
    PROVE  AccountInv'
<1>1. \A r \in Orders : Accounted(r) => Accounted(r)'
  BY AccountStays
<1>2. \A r \in Orders : Awaited(r)' => Awaited(r) \/ openOrders'[r] > 0
  <2>1. SUFFICES ASSUME NEW r \in Orders, Awaited(r)'
                 PROVE  Awaited(r) \/ openOrders'[r] > 0
    OBVIOUS
  <2>2. ASSUME NEW q \in Procs, job'[q].order = r,
               job'[q].pc \in {"enable", "register", "pending"}
        PROVE  Awaited(r) \/ openOrders'[r] > 0
    <3>1. CASE q = p
      BY <2>2, <3>1
    <3>2. CASE q # p
      BY <2>2, <3>2 DEF OthersStay, Awaited
    <3> QED
      BY <3>1, <3>2
  <2>3. CASE r = o
    BY <2>1, <2>2, <2>3 DEF Awaited
  <2>4. CASE r # o
    BY <2>1, <2>2, <2>4 DEF Awaited
  <2> QED
    BY <2>3, <2>4
<1>3. CallsAreRegistered'
  <2>1. SUFFICES ASSUME NEW q \in Procs, job'[q].pc \in {"load", "apply"}
                 PROVE  registered'[job'[q].order] > 0
    BY DEF CallsAreRegistered
  <2>2. CASE q = p
    BY <2>1, <2>2
  <2>3. CASE q # p
    <3>1. job'[q] = job[q] /\ job[q].order \in Orders
      BY <2>1, <2>3 DEF OthersStay, Inv, ChargeInv, BusyHasOrder
    <3>2. registered[job[q].order] > 0
      BY <2>1, <3>1 DEF AccountInv, CallsAreRegistered
    <3> QED
      BY <3>1, <3>2
  <2> QED
    BY <2>2, <2>3
<1> QED
  BY <1>1, <1>2, <1>3 DEF AccountInv, Accounted

(* A step that no process takes, after which no more payments wait.         *)
LEMMA AccountKept ==
    ASSUME AccountInv, UNCHANGED <<openOrders, registered, job>>,
           events \subseteq events', lost \subseteq lost',
           \A o \in Orders : payment'[o].status = "PENDING"
                                => payment[o].status = "PENDING"
    PROVE  AccountInv'
BY DEF AccountInv, CallsAreRegistered, Awaited, Accounted, FailureTold, Failed

LEMMA HandleAccount ==
    ASSUME Inv, AccountInv, NEW p \in Procs, NEW o \in Orders,
           HandleOrderValidationSucceeded(p, o)
    PROVE  AccountInv'
<1>1. /\ OthersStay(p) /\ job[p].pc = "idle"
      /\ job'[p].pc = "lookup" /\ job'[p].order = o
  BY DEF HandleOrderValidationSucceeded, Inv, TypeOK, Job, IdleJob, OthersStay
<1>2. UNCHANGED <<payment, openOrders, registered, events, lost>>
  BY DEF HandleOrderValidationSucceeded, docs, provider
<1> QED
  BY <1>1, <1>2, AccountMoves DEF Awaited

(* The steps of a start.                                                    *)
LEMMA StartAccount ==
    ASSUME Inv, AccountInv, NEW p \in Procs, Start(p)
    PROVE  AccountInv'
<1> USE DEF docs, history, provider
<1>t. TypeOK
  BY DEF Inv
<1>0. PICK o \in Orders : o = job[p].order
  BY DEF Start, LookupInfo, CreatePayment, CreateOpenOrder, PublishEnabledAtStart,
     Register, SetPending, DeleteOpenOrder, PublishFailedAtStart, Inv, ChargeInv,
     BusyHasOrder
<1>1. \A pc \in PC : Goto(p, pc) => /\ OthersStay(p) /\ job'[p].pc = pc
                                    /\ job'[p].order = o
  BY <1>0, <1>t, GotoJob DEF OthersStay
<1>2. Done(p) => OthersStay(p) /\ job'[p].pc = "idle"
  BY <1>t, DoneJob DEF OthersStay
<1>3. StartSteps \subseteq PC
  BY DEF PC
<1>4. CASE LookupInfo(p)
  <2>1. job[p].pc = "lookup" /\ (Goto(p, "create") \/ Goto(p, "compensate"))
    BY <1>4 DEF LookupInfo
  <2>2. UNCHANGED <<payment, openOrders, registered, events, lost>>
    BY <1>4 DEF LookupInfo
  <2>3. OthersStay(p) /\ job'[p].pc \in {"create", "compensate"} /\ job'[p].order = o
    BY <1>1, <1>3, <2>1 DEF StartSteps
  <2> QED
    BY <2>1, <2>2, <2>3, AccountMoves DEF Awaited
<1>5. CASE CreatePayment(p)
  <2>1. job[p].pc = "create" /\ (Goto(p, "context") \/ Goto(p, "compensate"))
    BY <1>5 DEF CreatePayment
  <2>2. UNCHANGED <<openOrders, registered, events, lost>>
    BY <1>5 DEF CreatePayment
  <2>3. OthersStay(p) /\ job'[p].pc \in {"context", "compensate"} /\ job'[p].order = o
    BY <1>1, <1>3, <2>1 DEF StartSteps
  <2>4. /\ \A r \in Orders : r # o => payment'[r] = payment[r]
        /\ payment'[o].status = "PENDING" => payment[o].status = "PENDING"
    BY <1>0, <1>5, <1>t DEF CreatePayment, TypeOK, NoPayment
  <2> QED
    BY <2>1, <2>2, <2>3, <2>4, AccountMoves DEF Awaited
<1>6. CASE CreateOpenOrder(p)
  <2>1. /\ job[p].pc = "context" /\ UNCHANGED <<payment, registered, events, lost>>
        /\ \A r \in Orders : r # o => openOrders'[r] = openOrders[r]
    BY <1>0, <1>6, <1>t DEF CreateOpenOrder, TypeOK
  <2>2. \/ /\ openOrders'[o] = openOrders[o] + 1
           /\ Goto(p, "register") \/ Goto(p, "enable") \/ Goto(p, "compensate")
        \/ openOrders'[o] = openOrders[o] /\ Goto(p, "compensate")
    BY <1>0, <1>6, <1>t DEF CreateOpenOrder, TypeOK
  <2>3. /\ OthersStay(p) /\ job'[p].order = o
        /\ job'[p].pc \in {"register", "enable", "compensate"}
        /\ openOrders'[o] = openOrders[o] + 1 \/ job'[p].pc = "compensate"
    BY <1>1, <1>3, <2>2 DEF StartSteps
  <2>4. /\ openOrders[o] > 0 => openOrders'[o] > 0
        /\ job'[p].pc \in {"enable", "register", "pending"} => openOrders'[o] > 0
    BY <1>t, <2>2, <2>3 DEF TypeOK
  <2> QED
    BY <2>1, <2>3, <2>4, AccountMoves DEF Awaited
<1>7. CASE PublishEnabledAtStart(p)
  <2>1. /\ job[p].pc = "enable" /\ Goto(p, "register")
        /\ UNCHANGED <<payment, openOrders, registered>>
        /\ events \subseteq events' /\ lost \subseteq lost'
    BY <1>7, PublishWithOpenOrderAdds DEF PublishEnabledAtStart
  <2>2. OthersStay(p) /\ job'[p].pc = "register" /\ job'[p].order = o
    BY <1>1, <1>3, <2>1 DEF StartSteps
  <2> QED
    BY <1>0, <2>1, <2>2, AccountMoves DEF Awaited
<1>8. CASE Register(p)
  <2>1. /\ job[p].pc = "register" /\ Goto(p, "pending")
        /\ UNCHANGED <<payment, openOrders, events, lost>>
    BY <1>8 DEF Register
  <2>2. OthersStay(p) /\ job'[p].pc = "pending" /\ job'[p].order = o
    BY <1>1, <1>3, <2>1 DEF StartSteps
  <2>3. /\ registered[o] > 0 => registered'[o] > 0
        /\ \A r \in Orders : r # o => registered'[r] = registered[r]
    BY <1>0, <1>8, <1>t DEF Register, TypeOK
  <2>4. Awaited(o)
    BY <1>0, <2>1 DEF Awaited
  <2> QED
    BY <2>1, <2>2, <2>3, <2>4, AccountMoves
<1>9. CASE SetPending(p)
  <2>1. /\ job[p].pc = "pending" /\ (Done(p) \/ Goto(p, "compensate"))
        /\ UNCHANGED <<openOrders, registered, events, lost>>
    BY <1>9 DEF SetPending
  <2>2. /\ OthersStay(p) /\ job'[p].pc \in {"idle", "compensate"}
        /\ job'[p].pc # "idle" => job'[p].order = o
    BY <1>1, <1>2, <1>3, <2>1 DEF StartSteps
  <2>3. \A r \in Orders : r # o => payment'[r] = payment[r]
    BY <1>0, <1>9, <1>t DEF SetPending, SetStatus, TypeOK
  <2>4. Awaited(o)
    BY <1>0, <2>1 DEF Awaited
  <2> QED
    BY <2>1, <2>2, <2>3, <2>4, AccountMoves
<1>10. CASE DeleteOpenOrder(p)
  <2>1. /\ job[p].pc = "compensate" /\ Goto(p, "announce")
        /\ UNCHANGED <<payment, registered, events, lost>>
        /\ \A r \in Orders : r # o => openOrders'[r] = openOrders[r]
    BY <1>0, <1>10, <1>t DEF DeleteOpenOrder, TypeOK
  <2>2. OthersStay(p) /\ job'[p].pc = "announce" /\ job'[p].order = o
    BY <1>1, <1>3, <2>1 DEF StartSteps
  <2>3. FailureTold(o)'
    BY <2>2 DEF FailureTold
  <2> QED
    BY <2>1, <2>2, <2>3, AccountMoves DEF Awaited
<1>11. CASE PublishFailedAtStart(p)
  <2>1. /\ job[p].pc = "announce" /\ Done(p)
        /\ UNCHANGED <<payment, openOrders, registered>>
        /\ events \subseteq events' /\ lost \subseteq lost'
        /\ Failed(job[p].order) \in events' \cup lost'
    BY <1>11 DEF PublishFailedAtStart, Publish
  <2>2. OthersStay(p) /\ job'[p].pc = "idle"
    BY <1>2, <2>1
  <2> QED
    BY <2>1, <2>2, AccountMoves DEF Awaited
<1> QED
  BY <1>4, <1>5, <1>6, <1>7, <1>8, <1>9, <1>10, <1>11 DEF Start

(* A status that is written for a payment is the one asked for.             *)
LEMMA WrittenStatus ==
    ASSUME TypeOK, NEW o \in Orders, NEW s, WriteStatus(o, s)
    PROVE  /\ payment'[o].status \in {payment[o].status, s}
           /\ \A r \in Orders : r # o => payment'[r] = payment[r]
BY DEF WriteStatus, SetStatus, TypeOK, PaymentDoc

LEMMA CallbackAccount ==
    ASSUME Inv, AccountInv, NEW p \in Procs, NEW o \in Orders, NEW s \in Outcomes,
           Callback(p, o, s)
    PROVE  AccountInv'
<1>1. /\ OthersStay(p) /\ job[p].pc = "idle"
      /\ job'[p].pc = "load" /\ job'[p].order = o /\ registered[o] > 0
  BY DEF Callback, Inv, TypeOK, OthersStay
<1>2. UNCHANGED <<payment, openOrders, registered, events, lost>>
  BY DEF Callback, docs, history
<1> QED
  BY <1>1, <1>2, AccountMoves DEF Awaited

(* A callback writes no status of a payment that was not registered.        *)
LEMMA UpdateAccount ==
    ASSUME Inv, AccountInv, NEW p \in Procs, Update(p)
    PROVE  AccountInv'
<1> USE DEF docs, history, provider
<1>t. TypeOK
  BY DEF Inv
<1>0. PICK o \in Orders : o = job[p].order /\ job[p].pc \in {"load", "apply"}
  BY DEF Update, LoadPayment, UpdatePaymentStatus, Inv, ChargeInv, BusyHasOrder
<1>1. registered[o] > 0
  BY <1>0 DEF AccountInv, CallsAreRegistered
<1>2. UNCHANGED <<openOrders, registered>> /\ (Goto(p, "apply") \/ Done(p))
  BY DEF Update, LoadPayment, UpdatePaymentStatus
<1>3. /\ OthersStay(p) /\ job'[p].pc \in {"apply", "idle"}
      /\ job'[p].pc # "idle" => job'[p].order = o
  BY <1>t, <1>0, <1>2, GotoJob, DoneJob DEF OthersStay, PC
<1>4. /\ \A r \in Orders : r # o => payment'[r] = payment[r]
      /\ events \subseteq events' /\ lost \subseteq lost'
  <2>1. CASE LoadPayment(p)
    BY <2>1 DEF LoadPayment
  <2>2. CASE UpdatePaymentStatus(p)
    <3> DEFINE s == job[p].status
    <3>1. UpdateCreditCard(o, s) \/ UpdatePrepayment(o, s) \/ UpdateInvoice(o, s)
      <4>1. Method(o) \in Methods
        BY PaymentAssumption DEF Method
      <4> QED
        BY <1>0, <2>2, <4>1 DEF UpdatePaymentStatus, Methods
    <3>2. /\ WriteStatus(o, s) \/ UNCHANGED payment
          /\ \/ PublishNothing
             \/ PublishWithOpenOrder(o, Failed(o))
             \/ PublishWithOpenOrder(o, Enabled(o))
      BY <3>1 DEF UpdateCreditCard, UpdatePrepayment, UpdateInvoice
    <3>3. \A r \in Orders : r # o => payment'[r] = payment[r]
      BY <3>2, <1>t, WrittenStatus
    <3>4. events \subseteq events' /\ lost \subseteq lost'
      BY <3>2, PublishWithOpenOrderAdds DEF PublishNothing
    <3> QED
      BY <3>3, <3>4
  <2> QED
    BY <2>1, <2>2 DEF Update
<1>5. Awaited(o)
  BY <1>1 DEF Awaited
<1> QED
  BY <1>0, <1>1, <1>2, <1>3, <1>4, <1>5, AccountMoves

(* The schedulers write FAILED, administrators write nothing or delete.     *)
LEMMA OutsideAccount ==
    ASSUME Inv, AccountInv,
           \/ \E m \in Scheduled : Schedule(m)
           \/ \E o \in Orders : Overdue(o)
           \/ Admin
           \/ UNCHANGED vars
    PROVE  AccountInv'
<1> USE DEF docs, history, provider, vars
<1>t. TypeOK
  BY DEF Inv
<1>1. CASE \E m \in Scheduled : CheckOpenPayments(m)
  BY <1>1, AccountKept DEF CheckOpenPayments
<1>2. ASSUME NEW m \in Scheduled, NEW o \in Orders, FailOverdue(m, o)
      PROVE  AccountInv'
  <2>1. \A r \in Orders : payment'[r].status = "PENDING"
                             => payment[r].status = "PENDING"
    BY <1>2, <1>t, WrittenStatus DEF FailOverdue
  <2> QED
    BY <1>2, <2>1, AccountKept DEF FailOverdue
<1>3. ASSUME NEW m \in Scheduled, AnnounceOverdue(m)
      PROVE  AccountInv'
  <2>1. events \subseteq events' /\ lost \subseteq lost'
    BY <1>3, PublishWithOpenOrderAdds DEF AnnounceOverdue
  <2> QED
    BY <1>3, <2>1, AccountKept DEF AnnounceOverdue
<1>4. CASE (\E o \in Orders : Overdue(o)) \/ UNCHANGED vars
  BY <1>4, AccountKept DEF Overdue
<1>5. CASE \E i \in Infos : CreatePaymentInformation(i) \/ DeletePaymentInformation(i)
  BY <1>5, AccountKept DEF CreatePaymentInformation, DeletePaymentInformation
<1>6. ASSUME NEW o \in Orders, DeletePayment(o)
      PROVE  AccountInv'
  <2>1. \A r \in Orders : payment'[r].status = "PENDING"
                             => payment[r].status = "PENDING"
    BY <1>6, <1>t DEF DeletePayment, TypeOK, NoPayment
  <2> QED
    BY <1>6, <2>1, AccountKept DEF DeletePayment
<1> QED
  BY <1>1, <1>2, <1>3, <1>4, <1>5, <1>6 DEF Schedule, Admin

LEMMA NextAccount == Inv /\ AccountInv /\ [Next]_vars => AccountInv'
<1> SUFFICES ASSUME Inv, AccountInv, [Next]_vars PROVE AccountInv'
  OBVIOUS
<1>1. ASSUME NEW p \in Procs, NEW o \in Orders, HandleOrderValidationSucceeded(p, o)
      PROVE  AccountInv'
  BY <1>1, HandleAccount
<1>2. ASSUME NEW p \in Procs, Start(p) \/ Update(p)
      PROVE  AccountInv'
  BY <1>2, StartAccount, UpdateAccount
<1>3. ASSUME NEW p \in Procs, NEW o \in Orders, NEW s \in Outcomes, Callback(p, o, s)
      PROVE  AccountInv'
  BY <1>3, CallbackAccount
<1> QED
  BY <1>1, <1>2, <1>3, OutsideAccount DEF Next

(* For any orders, goroutines, repetitions, callbacks and deletions, and    *)
(* wherever a start breaks off, lost answers included: a payment that waits *)
(* has its order context, or its order is told that the payment failed.     *)
THEOREM NoneWaitsInSilence == Spec => []PendingIsAccounted
<1>1. Inv /\ AccountInv => PendingIsAccounted
  BY DEF AccountInv, Awaited, Accounted, PendingIsAccounted
<1> QED
  BY <1>1, InvHolds, InitInv, NextInv, InitAccount, NextAccount, PTL DEF Spec
-----------------------------------------------------------------------------
(* What the service knows of an order it knows from a delivered event: till *)
(* then there is no document, call, scheduled failure, registration or      *)
(* event of the order.                                                      *)
Untouched(o) ==
    /\ ~Exists(o) /\ openOrders[o] = 0 /\ registered[o] = 0 /\ o \notin overdue
    /\ \A p \in Procs : job[p].order # o
    /\ \A m \in Scheduled : o \notin cron[m].todo /\ cron[m].failed # o
    /\ Enabled(o) \notin events /\ Failed(o) \notin events

OnlyDelivered == \A o \in Orders : deliveries[o] = 0 => Untouched(o)

(* A step that works for one order at most: q is that order, or None.       *)
WorksFor(q) ==
    /\ \A o \in Orders : o # q =>
          /\ payment'[o] = payment[o] /\ openOrders'[o] = openOrders[o]
          /\ registered'[o] = registered[o]
    /\ overdue' \subseteq overdue \cup {q}
    /\ \A p \in Procs : job'[p].order \in {job[p].order, q, None}
    /\ \A m \in Scheduled :
          /\ cron'[m].todo \subseteq cron[m].todo \cup overdue
          /\ cron'[m].failed \in {cron[m].failed, q, None}
    /\ events' \in {events, events \cup {Enabled(q)}, events \cup {Failed(q)}}
    /\ q \in Orders => deliveries'[q] > 0
    /\ \A o \in Orders : deliveries'[o] = 0 => deliveries[o] = 0

LEMMA WorkTouchesOne ==
    ASSUME OnlyDelivered, NEW q \in Orders \cup {None}, WorksFor(q)
    PROVE  OnlyDelivered'
<1> SUFFICES ASSUME NEW o \in Orders, deliveries'[o] = 0
             PROVE  Untouched(o)'
  BY DEF OnlyDelivered
<1>1. Untouched(o) /\ o # q /\ o # None
  BY PaymentAssumption DEF OnlyDelivered, WorksFor
<1>2. Enabled(o) \notin events' /\ Failed(o) \notin events'
  BY <1>1 DEF WorksFor, Untouched, Enabled, Failed
<1> QED
  BY <1>1, <1>2 DEF WorksFor, Untouched, Exists

(* A call works for the order of its event or callback.                     *)
LEMMA CallWorks ==
    ASSUME Inv, OnlyDelivered, NEW p \in Procs, Start(p) \/ Update(p)
    PROVE  job[p].order \in Orders /\ WorksFor(job[p].order)
<1> DEFINE q == job[p].order
<1> USE DEF docs, history, provider
<1>t. TypeOK
  BY DEF Inv
<1>1. job[p].pc # "idle"
  BY DEF Start, Update, LookupInfo, CreatePayment, CreateOpenOrder,
     PublishEnabledAtStart, Register, SetPending, DeleteOpenOrder,
     PublishFailedAtStart, LoadPayment, UpdatePaymentStatus
<1>2. q \in Orders
  BY <1>1 DEF Inv, ChargeInv, BusyHasOrder
<1>3. deliveries[q] > 0
  BY <1>2, <1>t DEF OnlyDelivered, Untouched, TypeOK
<1>4. UNCHANGED <<overdue, cron, deliveries>>
  BY DEF Start, Update, LookupInfo, CreatePayment, CreateOpenOrder,
     PublishEnabledAtStart, Register, SetPending, DeleteOpenOrder,
     PublishFailedAtStart, LoadPayment, UpdatePaymentStatus
<1>5. Done(p) \/ \E pc \in PC : Goto(p, pc)
  BY DEF Start, Update, LookupInfo, CreatePayment, CreateOpenOrder,
     PublishEnabledAtStart, Register, SetPending, DeleteOpenOrder,
     PublishFailedAtStart, LoadPayment, UpdatePaymentStatus, PC, StartSteps
<1>6. \A x \in Procs : job'[x].order \in {job[x].order, None}
  <2>1. CASE Done(p)
    BY <2>1, <1>t DEF Done, IdleJob, TypeOK
  <2>2. ASSUME NEW pc \in PC, Goto(p, pc)
        PROVE  \A x \in Procs : job'[x].order = job[x].order
    BY <2>2, <1>t, GotoJob
  <2> QED
    BY <1>5, <2>1, <2>2
<1>7. \A o \in Orders : o # q => /\ openOrders'[o] = openOrders[o]
                                 /\ registered'[o] = registered[o]
  BY <1>t, <1>2 DEF Start, Update, LookupInfo, CreatePayment, CreateOpenOrder,
     PublishEnabledAtStart, Register, SetPending, DeleteOpenOrder,
     PublishFailedAtStart, LoadPayment, UpdatePaymentStatus, TypeOK
<1>8. ASSUME NEW s, SetStatus(q, s) \/ WriteStatus(q, s)
      PROVE  \A o \in Orders : o # q => payment'[o] = payment[o]
  BY <1>t, <1>2, <1>8 DEF SetStatus, WriteStatus, TypeOK
<1>9. \A o \in Orders : o # q => payment'[o] = payment[o]
  <2>1. CASE UpdatePaymentStatus(p)
    <3>1. UNCHANGED payment \/ \E s : WriteStatus(q, s)
      BY <1>t, <1>2, <2>1, PaymentAssumption
         DEF UpdatePaymentStatus, UpdateCreditCard, UpdatePrepayment,
             UpdateInvoice, Method, Methods
    <3> QED
      BY <1>8, <3>1
  <2>2. CASE SetPending(p)
    BY <1>8, <2>2 DEF SetPending
  <2>3. CASE CreatePayment(p)
    BY <1>t, <1>2, <2>3 DEF CreatePayment, TypeOK
  <2> QED
    BY <2>1, <2>2, <2>3 DEF Start, Update, LookupInfo, CreateOpenOrder,
       PublishEnabledAtStart, Register, DeleteOpenOrder, PublishFailedAtStart,
       LoadPayment
<1>10. events' \in {events, events \cup {Enabled(q)}, events \cup {Failed(q)}}
  <2>1. CASE UpdatePaymentStatus(p)
    <3>1. \/ UNCHANGED events \/ PublishWithOpenOrder(q, Failed(q))
          \/ PublishWithOpenOrder(q, Enabled(q))
      BY <1>t, <1>2, <2>1, PaymentAssumption
         DEF UpdatePaymentStatus, UpdateCreditCard, UpdatePrepayment,
             UpdateInvoice, Method, Methods, PublishNothing
    <3> QED
      BY <3>1, PublishWithOpenOrderAdds
  <2>2. CASE PublishEnabledAtStart(p) \/ PublishFailedAtStart(p)
    BY <2>2, PublishAdds, PublishWithOpenOrderAdds
       DEF PublishEnabledAtStart, PublishFailedAtStart
  <2> QED
    BY <2>1, <2>2 DEF Start, Update, LookupInfo, CreatePayment, CreateOpenOrder,
       Register, SetPending, DeleteOpenOrder, LoadPayment
<1> QED
  BY <1>2, <1>3, <1>4, <1>6, <1>7, <1>9, <1>10 DEF WorksFor

(* So does an overdue payment, its scheduler, and the delivery or callback  *)
(* that starts a call.                                                      *)
LEMMA OutsideWorks ==
    ASSUME Inv, OnlyDelivered, [Next]_vars
    PROVE  \E q \in Orders \cup {None} : WorksFor(q)
<1> USE DEF docs, history, provider
<1>t. TypeOK
  BY DEF Inv
<1>n. None \notin Orders /\ \A o \in Orders : ~Untouched(o) => deliveries[o] > 0
  BY <1>t, PaymentAssumption DEF OnlyDelivered, TypeOK
<1>1. ASSUME NEW p \in Procs, NEW o \in Orders, HandleOrderValidationSucceeded(p, o)
      PROVE  WorksFor(o)
  <2>1. /\ \A x \in Procs : job'[x].order \in {job[x].order, o}
        /\ deliveries'[o] > 0
        /\ \A q \in Orders : deliveries'[q] = 0 => deliveries[q] = 0
    BY <1>t, <1>1 DEF HandleOrderValidationSucceeded, TypeOK, IdleJob
  <2> QED
    BY <1>1, <2>1 DEF HandleOrderValidationSucceeded, WorksFor
<1>2. ASSUME NEW p \in Procs, NEW o \in Orders, NEW s, Callback(p, o, s)
      PROVE  WorksFor(o)
  <2>1. \A x \in Procs : job'[x].order \in {job[x].order, o}
    BY <1>t, <1>2 DEF Callback, TypeOK
  <2>2. deliveries[o] > 0
    BY <1>n, <1>2 DEF Callback, Untouched
  <2> QED
    BY <1>2, <2>1, <2>2 DEF Callback, WorksFor
<1>3. ASSUME NEW m \in Scheduled, CheckOpenPayments(m)
      PROVE  WorksFor(None)
  <2>1. \A n \in Scheduled : /\ cron'[n].todo \subseteq cron[n].todo \cup overdue
                             /\ cron'[n].failed = cron[n].failed
    BY <1>t, <1>3 DEF CheckOpenPayments, OverduePayments, TypeOK, Cron
  <2> QED
    BY <1>n, <1>3, <2>1 DEF CheckOpenPayments, WorksFor
<1>4. ASSUME NEW m \in Scheduled, NEW o \in Orders, FailOverdue(m, o)
      PROVE  WorksFor(o)
  <2>1. \A q \in Orders : q # o => payment'[q] = payment[q]
    BY <1>t, <1>4 DEF FailOverdue, WriteStatus, SetStatus, TypeOK
  <2>2. \A n \in Scheduled : /\ cron'[n].todo \subseteq cron[n].todo
                             /\ cron'[n].failed \in {cron[n].failed, o}
    BY <1>t, <1>4 DEF FailOverdue, TypeOK, Cron
  <2>3. deliveries[o] > 0
    BY <1>n, <1>4 DEF FailOverdue, Untouched
  <2> QED
    BY <1>4, <2>1, <2>2, <2>3 DEF FailOverdue, WorksFor
<1>5. ASSUME NEW m \in Scheduled, AnnounceOverdue(m)
      PROVE  cron[m].failed \in Orders /\ WorksFor(cron[m].failed)
  <2>1. cron[m].failed \in Orders
    BY <1>t, <1>5 DEF AnnounceOverdue, TypeOK, Cron
  <2>2. \A n \in Scheduled : /\ cron'[n].todo = cron[n].todo
                             /\ cron'[n].failed \in {cron[n].failed, None}
    BY <1>t, <1>5 DEF AnnounceOverdue, TypeOK, Cron
  <2>3. deliveries[cron[m].failed] > 0
    BY <1>n, <2>1 DEF Untouched
  <2> QED
    BY <1>5, <2>1, <2>2, <2>3, PublishWithOpenOrderAdds
       DEF AnnounceOverdue, WorksFor
<1>6. ASSUME NEW o \in Orders, Overdue(o)
      PROVE  WorksFor(o)
  <2>1. deliveries[o] > 0
    BY <1>n, <1>6 DEF Overdue, Untouched
  <2> QED
    BY <1>6, <2>1 DEF Overdue, WorksFor
<1>7. ASSUME NEW o \in Orders, DeletePayment(o)
      PROVE  WorksFor(o)
  <2>1. deliveries[o] > 0
    BY <1>n, <1>7 DEF DeletePayment, Untouched
  <2>2. \A q \in Orders : q # o => payment'[q] = payment[q]
    BY <1>t, <1>7 DEF DeletePayment, TypeOK
  <2> QED
    BY <1>7, <2>1, <2>2 DEF DeletePayment, WorksFor
<1>8. CASE UNCHANGED vars
           \/ \E i \in Infos : CreatePaymentInformation(i) \/ DeletePaymentInformation(i)
  <2>1. UNCHANGED <<payment, openOrders, overdue, job, cron, deliveries, registered,
                    events>>
    BY <1>8 DEF vars, CreatePaymentInformation, DeletePaymentInformation
  <2> QED
    BY <1>n, <2>1 DEF WorksFor
<1>9. \A p \in Procs : Start(p) \/ Update(p) => \E q \in Orders : WorksFor(q)
  BY CallWorks
<1>10. CASE \E m \in Scheduled : Schedule(m)
  BY <1>3, <1>4, <1>5, <1>10 DEF Schedule
<1>11. CASE Admin
  BY <1>7, <1>8, <1>11 DEF Admin
<1> QED
  BY <1>1, <1>2, <1>6, <1>8, <1>9, <1>10, <1>11 DEF Next

LEMMA OnlyDeliveredStep == Inv /\ OnlyDelivered /\ [Next]_vars => OnlyDelivered'
BY OutsideWorks, WorkTouchesOne

LEMMA InitOnlyDelivered == Init => OnlyDelivered
BY PaymentAssumption DEF Init, OnlyDelivered, Untouched, Exists, NoPayment, IdleJob,
   IdleCron

(* For any number of orders, deliveries and failing calls: the service has  *)
(* no payment, no registration and no event of an order that no event was   *)
(* delivered of.                                                            *)
THEOREM NothingWithoutDelivery == Spec => []OnlyDelivered
BY InitInv, NextInv, InitOnlyDelivered, OnlyDeliveredStep, PTL DEF Spec
=============================================================================
