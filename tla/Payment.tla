------------------------------- MODULE Payment -------------------------------
(***************************************************************************)
(* The payment service: one payment per validated order, driven by the     *)
(* event that starts it, by the callbacks of the payment provider (the     *)
(* simulation service) and by two schedulers that fail overdue payments.   *)
(*                                                                         *)
(* The event is answered at once and worked on by a goroutine of its own;  *)
(* a callback is an HTTP request.  A process here is one of these.  Every  *)
(* database, publish or provider call is a step, so processes and          *)
(* schedulers interleave between them.                                     *)
(***************************************************************************)
EXTENDS Naturals, FiniteSets

CONSTANTS
    Orders,          \* order ids; the payment of an order has its id
    Infos,           \* ids of payment informations
    InfoOf,          \* InfoOf[o]: the payment information the order names
    MethodOf,        \* MethodOf[i]: payment method of the information i
    InitialInfos,    \* the informations that exist at the start
    Procs,           \* goroutines and requests that can be in progress
    None,            \* no order
    Outcomes,        \* statuses the provider posts, not all of them valid
    MaxDeliveries,   \* bound: deliveries of validation-succeeded per order
    MaxCallbacks,    \* bound: callbacks of the provider per order
    Faults,          \* TRUE iff a database, publish or provider call may fail
    Deletes          \* TRUE iff administrators delete documents

Methods == {"CREDIT_CARD", "PREPAYMENT", "INVOICE"}
Scheduled == {"PREPAYMENT", "INVOICE"}
Status == {"OPEN", "PENDING", "SUCCEEDED", "FAILED", "INKASSO"}

ASSUME PaymentAssumption ==
    /\ InfoOf \in [Orders -> Infos]
    /\ MethodOf \in [Infos -> Methods]
    /\ InitialInfos \subseteq Infos
    /\ None \notin Orders
    /\ MaxDeliveries \in Nat
    /\ MaxCallbacks \in Nat
    /\ Faults \in BOOLEAN
    /\ Deletes \in BOOLEAN

VARIABLES
    payment,     \* payment[o]: the payment document, status "NONE" if none
    openOrders,  \* openOrders[o]: open order documents of the payment
    infos,       \* infos[i]: "new", "live" or "deleted"
    overdue,     \* payments older than the limit of their method
    job,         \* job[p]: what the goroutine or request p is doing
    cron,        \* cron[m]: what the scheduler of method m is doing
    deliveries,  \* deliveries[o]: times validation-succeeded was delivered
    erased,      \* orders whose payment an administrator has deleted
    registered,  \* registered[o]: registrations the provider received
    callbacks,   \* callbacks[o]: callbacks the provider has made
    reported,    \* reported[o]: the statuses it has reported
    events,      \* payment events published
    lost         \* payment events whose publish failed (it is only logged)

docs == <<payment, openOrders, infos>>
history == <<deliveries, erased, lost>>
provider == <<registered, callbacks, reported>>
vars == <<payment, openOrders, infos, overdue, job, cron, deliveries,
          erased, registered, callbacks, reported, events, lost>>

-----------------------------------------------------------------------------
PaymentDoc == [status : Status \cup {"NONE"}, payed : BOOLEAN, retries : Nat]
NoPayment == [status |-> "NONE", payed |-> FALSE, retries |-> 0]
Exists(o) == payment[o].status # "NONE"
Method(o) == MethodOf[InfoOf[o]]

StartSteps == {"lookup", "create", "context", "enable", "register", "pending",
               "compensate", "announce"}
Job == [pc : {"idle", "load", "apply"} \cup StartSteps,
        order : Orders \cup {None}, status : Status]
IdleJob == [pc |-> "idle", order |-> None, status |-> "OPEN"]

(* A scheduler: the payments its query returned and it has not reached, and *)
(* the one whose failure it announces next.                                 *)
Cron == [todo : SUBSET Orders, failed : Orders \cup {None}]
IdleCron == [todo |-> {}, failed |-> None]

Event == [topic : {"payment-enabled", "payment-failed"}, order : Orders]
Enabled(o) == [topic |-> "payment-enabled", order |-> o]
Failed(o) == [topic |-> "payment-failed", order |-> o]

TypeOK ==
    /\ payment \in [Orders -> PaymentDoc]
    /\ openOrders \in [Orders -> Nat]
    /\ infos \in [Infos -> {"new", "live", "deleted"}]
    /\ overdue \subseteq Orders
    /\ job \in [Procs -> Job]
    /\ cron \in [Scheduled -> Cron]
    /\ deliveries \in [Orders -> Nat]
    /\ erased \subseteq Orders
    /\ registered \in [Orders -> Nat]
    /\ callbacks \in [Orders -> Nat]
    /\ reported \in [Orders -> SUBSET Status]
    /\ events \subseteq Event
    /\ lost \subseteq Event

Init ==
    /\ payment = [o \in Orders |-> NoPayment]
    /\ openOrders = [o \in Orders |-> 0]
    /\ infos = [i \in Infos |-> IF i \in InitialInfos THEN "live" ELSE "new"]
    /\ overdue = {}
    /\ job = [p \in Procs |-> IdleJob]
    /\ cron = [m \in Scheduled |-> IdleCron]
    /\ deliveries = [o \in Orders |-> 0]
    /\ erased = {}
    /\ registered = [o \in Orders |-> 0]
    /\ callbacks = [o \in Orders |-> 0]
    /\ reported = [o \in Orders |-> {}]
    /\ events = {}
    /\ lost = {}

-----------------------------------------------------------------------------
Goto(p, pc) == job' = [job EXCEPT ![p].pc = pc]
Done(p) == job' = [job EXCEPT ![p] = IdleJob]

(* A publish that fails is logged and swallowed: the event is lost.         *)
Publish(e) ==
    \/ events' = events \cup {e} /\ UNCHANGED lost
    \/ Faults /\ lost' = lost \cup {e} /\ UNCHANGED events

PublishNothing == UNCHANGED <<events, lost>>

(* publishEnabledForPayment and publishFailedForPayment: the order to send  *)
(* is the open order stored for the payment; without one nothing is sent.   *)
PublishWithOpenOrder(o, e) ==
    IF openOrders[o] > 0 THEN Publish(e) ELSE PublishNothing

(* UpdatePaymentStatus of the store on a payment that exists.               *)
SetStatus(o, s) ==
    payment' = [payment EXCEPT ![o].status = s,
                               ![o].payed = payment[o].payed \/ s = "SUCCEEDED"]

-----------------------------------------------------------------------------
(* discount/order/validation-succeeded: answered with 200, worked on later. *)
HandleOrderValidationSucceeded(p, o) ==
    /\ job[p].pc = "idle"
    /\ deliveries[o] < MaxDeliveries
    /\ deliveries' = [deliveries EXCEPT ![o] = @ + 1]
    /\ job' = [job EXCEPT ![p] = [IdleJob EXCEPT !.pc = "lookup", !.order = o]]
    /\ UNCHANGED <<docs, overdue, cron, erased, provider, events, lost>>

(* One step of startPaymentProcess: it succeeds and goes on, or any error   *)
(* leads to the compensation branch.                                        *)
LookupInfo(p) ==
    LET o == job[p].order
    IN  /\ job[p].pc = "lookup"
        /\ \/ infos[InfoOf[o]] = "live" /\ Goto(p, "create")
           \/ (infos[InfoOf[o]] # "live" \/ Faults) /\ Goto(p, "compensate")
        /\ UNCHANGED <<docs, overdue, cron, history, provider, events>>

(* CreatePaymentUpsert: a second delivery replaces the payment instead of   *)
(* failing on the duplicate key.                                            *)
CreatePaymentUpsert(p) ==
    LET o == job[p].order
    IN  /\ job[p].pc = "create"
        /\ payment' = [payment EXCEPT ![o] = [NoPayment EXCEPT !.status = "OPEN"]]
        /\ Goto(p, "context")
        /\ UNCHANGED <<openOrders, infos, overdue, cron, history, provider,
                       events>>

(* The payment's _id is the order's id: a second insert is a duplicate key. *)
(* Here and below a call that fails has taken effect or not: its answer may *)
(* be lost, and the code takes the same error path.                         *)
CreatePayment(p) ==
    LET o == job[p].order
    IN  /\ job[p].pc = "create"
        /\ \/ /\ ~Exists(o)
              /\ payment' = [payment EXCEPT
                                ![o] = [NoPayment EXCEPT !.status = "OPEN"]]
              /\ Goto(p, "context") \/ (Faults /\ Goto(p, "compensate"))
           \/ /\ Exists(o) \/ Faults
              /\ Goto(p, "compensate")
              /\ UNCHANGED payment
        /\ UNCHANGED <<openOrders, infos, overdue, cron, history, provider,
                       events>>

(* CreateOpenOrderForgotten: the order context is never stored.             *)
CreateOpenOrderForgotten(p) ==
    /\ job[p].pc = "context"
    /\ Goto(p, IF Method(job[p].order) = "PREPAYMENT" THEN "register" ELSE "enable")
    /\ UNCHANGED <<docs, overdue, cron, history, provider, events>>

(* CreateOpenOrderEnables: every method announces payment-enabled at once.  *)
CreateOpenOrderEnables(p) ==
    LET o == job[p].order
    IN  /\ job[p].pc = "context"
        /\ openOrders' = [openOrders EXCEPT ![o] = @ + 1]
        /\ Goto(p, "enable")
        /\ UNCHANGED <<payment, infos, overdue, cron, history, provider, events>>

(* The order context, and then the create flow of the method: a prepayment  *)
(* is not enabled before it is paid.                                        *)
CreateOpenOrder(p) ==
    LET o == job[p].order
    IN  /\ job[p].pc = "context"
        /\ \/ /\ openOrders' = [openOrders EXCEPT ![o] = @ + 1]
              /\ \/ Goto(p, IF Method(o) = "PREPAYMENT" THEN "register" ELSE "enable")
                 \/ Faults /\ Goto(p, "compensate")
           \/ /\ Faults
              /\ Goto(p, "compensate")
              /\ UNCHANGED openOrders
        /\ UNCHANGED <<payment, infos, overdue, cron, history, provider, events>>

PublishEnabledAtStart(p) ==
    LET o == job[p].order
    IN  /\ job[p].pc = "enable"
        /\ PublishWithOpenOrder(o, Enabled(o))
        /\ Goto(p, "register")
        /\ UNCHANGED <<docs, overdue, cron, deliveries, erased, provider>>

(* Register posts to the provider; a failure is logged and swallowed.  The  *)
(* provider can call back before the next step.                             *)
Register(p) ==
    LET o == job[p].order
    IN  /\ job[p].pc = "register"
        /\ \/ registered' = [registered EXCEPT ![o] = @ + 1]
           \/ Faults /\ UNCHANGED registered
        /\ Goto(p, "pending")
        /\ UNCHANGED <<docs, overdue, cron, history, callbacks, reported, events>>

(* The last step writes PENDING over whatever status the payment has.  If   *)
(* the answer to it is lost, the payment waits and the start is undone.     *)
SetPending(p) ==
    LET o == job[p].order
    IN  /\ job[p].pc = "pending"
        /\ \/ /\ Exists(o)
              /\ SetStatus(o, "PENDING")
              /\ Done(p) \/ (Faults /\ Goto(p, "compensate"))
           \/ /\ ~Exists(o) \/ Faults
              /\ Goto(p, "compensate")
              /\ UNCHANGED payment
        /\ UNCHANGED <<openOrders, infos, overdue, cron, history, provider,
                       events>>

(* CompensateSilently: the compensation branch forgets the event.           *)
CompensateSilently(p) ==
    LET o == job[p].order
    IN  /\ job[p].pc = "compensate"
        /\ openOrders' = [openOrders EXCEPT ![o] = IF @ > 0 THEN @ - 1 ELSE 0]
        /\ Done(p)
        /\ UNCHANGED <<payment, infos, overdue, cron, history, provider, events>>

(* The compensation branch: the open order goes (best effort) ...           *)
DeleteOpenOrder(p) ==
    LET o == job[p].order
    IN  /\ job[p].pc = "compensate"
        /\ \/ openOrders' = [openOrders EXCEPT ![o] = IF @ > 0 THEN @ - 1 ELSE 0]
           \/ Faults /\ UNCHANGED openOrders
        /\ Goto(p, "announce")
        /\ UNCHANGED <<payment, infos, overdue, cron, history, provider, events>>

(* ... and payment-failed is published with the order of the event.         *)
PublishFailedAtStart(p) ==
    /\ job[p].pc = "announce"
    /\ Publish(Failed(job[p].order))
    /\ Done(p)
    /\ UNCHANGED <<docs, overdue, cron, deliveries, erased, provider>>

-----------------------------------------------------------------------------
(* CallbackUnchecked: any string is taken for a status.                     *)
CallbackUnchecked(p, o, s) ==
    /\ job[p].pc = "idle"
    /\ registered[o] > 0
    /\ callbacks[o] < MaxCallbacks
    /\ callbacks' = [callbacks EXCEPT ![o] = @ + 1]
    /\ reported' = [reported EXCEPT ![o] = @ \cup {s}]
    /\ job' = [job EXCEPT ![p] = [pc |-> "load", order |-> o, status |-> s]]
    /\ UNCHANGED <<docs, overdue, cron, history, registered, events>>

(* The provider knows a registered payment and posts a status for it; a     *)
(* status that is not in the enumeration is refused with 400.               *)
Callback(p, o, s) ==
    /\ job[p].pc = "idle"
    /\ s \in Status
    /\ registered[o] > 0
    /\ callbacks[o] < MaxCallbacks
    /\ callbacks' = [callbacks EXCEPT ![o] = @ + 1]
    /\ reported' = [reported EXCEPT ![o] = @ \cup {s}]
    /\ job' = [job EXCEPT ![p] = [pc |-> "load", order |-> o, status |-> s]]
    /\ UNCHANGED <<docs, overdue, cron, history, registered, events>>

(* UpdatePaymentStatus of the service loads the payment and its payment     *)
(* information; without either the answer is 404.                           *)
LoadPayment(p) ==
    LET o == job[p].order
        found == Exists(o) /\ infos[InfoOf[o]] = "live"
    IN  /\ job[p].pc = "load"
        /\ \/ found /\ Goto(p, "apply")
           \/ (~found \/ Faults) /\ Done(p)
        /\ UNCHANGED <<docs, overdue, cron, history, provider, events>>

WriteStatus(o, s) ==
    \/ Exists(o) /\ SetStatus(o, s)
    \/ (~Exists(o) \/ Faults) /\ UNCHANGED payment

(* updateCreditCard: FAILED leads to a retry, which posts to a path that    *)
(* the provider does not serve and so has no effect; numberOfRetries is     *)
(* read but never written.                                                  *)
UpdateCreditCard(o, s) ==
    CASE s # "FAILED"              -> WriteStatus(o, s) /\ PublishNothing
      [] payment[o].retries >= 3   -> WriteStatus(o, s)
                                      /\ PublishWithOpenOrder(o, Failed(o))
      [] OTHER                     -> UNCHANGED payment /\ PublishNothing

(* updatePrepayment: SUCCEEDED enables the order and is not stored.         *)
UpdatePrepayment(o, s) ==
    IF s # "SUCCEEDED" THEN WriteStatus(o, s) /\ PublishNothing
    ELSE PublishWithOpenOrder(o, Enabled(o)) /\ UNCHANGED payment

UpdateInvoice(o, s) == WriteStatus(o, s) /\ PublishNothing

UpdatePaymentStatus(p) ==
    LET o == job[p].order
        s == job[p].status
    IN  /\ job[p].pc = "apply"
        /\ CASE Method(o) = "CREDIT_CARD" -> UpdateCreditCard(o, s)
             [] Method(o) = "PREPAYMENT"  -> UpdatePrepayment(o, s)
             [] Method(o) = "INVOICE"     -> UpdateInvoice(o, s)
        /\ Done(p)
        /\ UNCHANGED <<openOrders, infos, overdue, cron, deliveries, erased,
                       provider>>

-----------------------------------------------------------------------------
(* Time passes: 30 days for an invoice, 7 for a prepayment.                 *)
Overdue(o) ==
    /\ Exists(o)
    /\ Method(o) \in Scheduled
    /\ o \notin overdue
    /\ overdue' = overdue \cup {o}
    /\ UNCHANGED <<docs, job, cron, history, provider, events>>

OverduePayments(m) ==
    {o \in overdue : /\ payment[o].status = "PENDING"
                     /\ Method(o) = m
                     /\ infos[InfoOf[o]] = "live"}

(* A tick of the scheduler of method m: find the overdue PENDING payments,  *)
CheckOpenPayments(m) ==
    /\ cron[m] = IdleCron
    /\ OverduePayments(m) # {}
    /\ cron' = [cron EXCEPT ![m].todo = OverduePayments(m)]
    /\ UNCHANGED <<docs, overdue, job, history, provider, events>>

(* set each to FAILED, whatever has become of it since the query,           *)
FailOverdue(m, o) ==
    /\ cron[m].failed = None
    /\ o \in cron[m].todo
    /\ WriteStatus(o, "FAILED")
    /\ cron' = [cron EXCEPT ![m] = [todo |-> @.todo \ {o}, failed |-> o]]
    /\ UNCHANGED <<openOrders, infos, overdue, job, history, provider, events>>

(* and publish payment-failed for it.                                       *)
AnnounceOverdue(m) ==
    LET o == cron[m].failed
    IN  /\ o # None
        /\ PublishWithOpenOrder(o, Failed(o))
        /\ cron' = [cron EXCEPT ![m].failed = None]
        /\ UNCHANGED <<docs, overdue, job, deliveries, erased, provider>>

-----------------------------------------------------------------------------
(* A credit card is registered, or a default information of a new user is   *)
(* inserted.                                                                *)
CreatePaymentInformation(i) ==
    /\ infos[i] = "new"
    /\ infos' = [infos EXCEPT ![i] = "live"]
    /\ UNCHANGED <<payment, openOrders, overdue, job, cron, history,
                   provider, events>>

DeletePaymentInformation(i) ==
    /\ Deletes
    /\ infos[i] = "live"
    /\ infos' = [infos EXCEPT ![i] = "deleted"]
    /\ UNCHANGED <<payment, openOrders, overdue, job, cron, history,
                   provider, events>>

(* The open order of a deleted payment stays.                               *)
DeletePayment(o) ==
    /\ Deletes
    /\ Exists(o)
    /\ payment' = [payment EXCEPT ![o] = NoPayment]
    /\ overdue' = overdue \ {o}
    /\ erased' = erased \cup {o}
    /\ UNCHANGED <<openOrders, infos, job, cron, deliveries, provider, events, lost>>

-----------------------------------------------------------------------------
Start(p) ==
    \/ LookupInfo(p)
    \/ CreatePayment(p)
    \/ CreateOpenOrder(p)
    \/ PublishEnabledAtStart(p)
    \/ Register(p)
    \/ SetPending(p)
    \/ DeleteOpenOrder(p)
    \/ PublishFailedAtStart(p)

Update(p) == LoadPayment(p) \/ UpdatePaymentStatus(p)

Schedule(m) ==
    \/ CheckOpenPayments(m)
    \/ \E o \in Orders : FailOverdue(m, o)
    \/ AnnounceOverdue(m)

Admin ==
    \/ \E i \in Infos : CreatePaymentInformation(i) \/ DeletePaymentInformation(i)
    \/ \E o \in Orders : DeletePayment(o)

Next ==
    \/ \E p \in Procs, o \in Orders : HandleOrderValidationSucceeded(p, o)
    \/ \E p \in Procs : Start(p) \/ Update(p)
    \/ \E p \in Procs, o \in Orders, s \in Outcomes : Callback(p, o, s)
    \/ \E m \in Scheduled : Schedule(m)
    \/ \E o \in Orders : Overdue(o)
    \/ Admin

Spec == Init /\ [][Next]_vars

(* The runtime runs every goroutine and request that was started, the       *)
(* tickers keep ticking and time passes.  The provider owes no callback.    *)
FairSpec ==
    /\ Spec
    /\ \A p \in Procs : WF_vars(Start(p)) /\ WF_vars(Update(p))
    /\ \A m \in Scheduled : WF_vars(Schedule(m))
    /\ \A o \in Orders : WF_vars(Overdue(o))
-----------------------------------------------------------------------------
(* Properties.                                                              *)

(* The provider is asked to charge an order at most once, however often     *)
(* validation-succeeded is delivered and whichever calls fail, unless an    *)
(* administrator deletes the payment: two goroutines for one order never    *)
(* both get past the insert of the payment.                                 *)
ChargedOnce == \A o \in Orders \ erased : registered[o] <= 1

(* Goods bought by prepayment are not released for shipment before the      *)
(* provider has reported the payment: payment-enabled follows SUCCEEDED.    *)
PrepaidBeforeEnabled ==
    \A o \in Orders : Method(o) = "PREPAYMENT" /\ Enabled(o) \in events
                        => "SUCCEEDED" \in reported[o]

(* A payment that waits for its provider has the order context that every   *)
(* later event about it is built from, or else its order is told that the   *)
(* payment failed: the start was given up, and the event is about to be     *)
(* published, or was, or the publish failed.  However often the start is    *)
(* delivered, wherever it breaks off - also when its last call took effect  *)
(* but the answer was lost - and whatever is posted or deleted meanwhile,   *)
(* no customer waits in silence (StartPaymentProcess).                      *)
FailureTold(o) ==
    \/ Failed(o) \in events \cup lost
    \/ \E p \in Procs : job[p].pc = "announce" /\ job[p].order = o

PendingIsAccounted ==
    \A o \in Orders :
        payment[o].status = "PENDING" => openOrders[o] > 0 \/ FailureTold(o)

(* With the event delivered once and no failing calls, every validated      *)
(* order gets an answer: the card and invoice methods enable it, an order   *)
(* without payment information is failed, and a prepayment is enabled or,   *)
(* once overdue, failed even if the provider never calls back.  The one     *)
(* exception is a prepayment that the provider reports as FAILED, OPEN or   *)
(* INKASSO: updatePrepayment stores the status and announces nothing, and   *)
(* the scheduler looks for PENDING ones only.                               *)
StoredUnanswered == {"FAILED", "OPEN", "INKASSO"}

OrdersAnswered ==
    \A o \in Orders :
        deliveries[o] > 0 ~> \/ Enabled(o) \in events
                             \/ Failed(o) \in events
                             \/ /\ Method(o) = "PREPAYMENT"
                                /\ reported[o] \cap StoredUnanswered # {}
=============================================================================
