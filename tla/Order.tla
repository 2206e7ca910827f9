------------------------------- MODULE Order --------------------------------
(***************************************************************************)
(* The order service after an order has been put together: placeOrder,     *)
(* which moves a PENDING order to PLACED and announces it (the event that  *)
(* starts the saga), and compensateOrder, which answers a shipment that    *)
(* could not be created.                                                   *)
(*                                                                         *)
(* A request is one placeOrder mutation, a handler one delivery of         *)
(* shipment/creation-failed.  Every database and publish call is a step;   *)
(* nothing in the service orders the steps of two of them.                 *)
(***************************************************************************)
EXTENDS Naturals, FiniteSets, Functions

CONSTANTS
    Orders,          \* order ids
    ItemsOf,         \* ItemsOf[o]: ids of the order's items
    AmountOf,        \* AmountOf[i]: compensatable amount of the item i
    Failures,        \* creation-failed events of the shipment service
    OrderOf,         \* OrderOf[f]: the order the event names
    FailedItems,     \* FailedItems[f]: the order item ids it names
    Requests,        \* placeOrder mutations that can be in progress
    Handlers,        \* deliveries that can be in progress
    None,            \* no order, no event
    MaxDeliveries,   \* bound: deliveries of one creation-failed event
    Faults           \* TRUE iff a database or publish call may fail

ASSUME OrderAssumption ==
    /\ \A o \in Orders : IsFiniteSet(ItemsOf[o])
    /\ \A o \in Orders : \A i \in ItemsOf[o] : AmountOf[i] \in Nat
    /\ OrderOf \in [Failures -> Orders]
    /\ None \notin Orders \cup Failures
    /\ IsFiniteSet(Requests)
    /\ MaxDeliveries \in Nat
    /\ Faults \in BOOLEAN

VARIABLES
    order,          \* order[o]: the order document, status "NONE" if none
    late,           \* orders created longer than pendingTimeout ago
    request,        \* request[r]: the placeOrder mutation r is serving
    announced,      \* announced[o]: order/created events sent for o
    cutOff,         \* orders that a failing call left placed and unannounced
    overtaken,      \* overtaken[o]: mutations that had found o PENDING and
                    \* not written yet when another one wrote its status
    handler,        \* handler[h]: the creation-failed event h is handling
    deliveries,     \* deliveries[f]: times the event was delivered
    compensations,  \* compensations[f]: documents stored for the event
    refunded,       \* refunded[o]: sum of the amounts of o's documents
    refunds         \* refunds[f]: order-compensation/created events sent

placing == <<order, late, request, announced, cutOff, overtaken>>
compensating == <<handler, deliveries, compensations, refunded, refunds>>
vars == <<order, late, request, announced, cutOff, overtaken, handler, deliveries,
          compensations, refunded, refunds>>

-----------------------------------------------------------------------------
OrderDoc == [status : {"NONE", "PENDING", "PLACED", "REJECTED"},
             placedAt : BOOLEAN]
Request == [pc : {"idle", "read", "place", "reject", "reread", "publish"},
            order : Orders \cup {None}, late : BOOLEAN]
IdleRequest == [pc |-> "idle", order |-> None, late |-> FALSE]
Handler == [pc : {"idle", "verify", "insert", "publish"},
            event : Failures \cup {None}]
IdleHandler == [pc |-> "idle", event |-> None]

TypeOK ==
    /\ order \in [Orders -> OrderDoc]
    /\ late \subseteq Orders
    /\ request \in [Requests -> Request]
    /\ announced \in [Orders -> Nat]
    /\ cutOff \subseteq Orders
    /\ overtaken \in [Orders -> SUBSET Requests]
    /\ handler \in [Handlers -> Handler]
    /\ deliveries \in [Failures -> Nat]
    /\ compensations \in [Failures -> Nat]
    /\ refunded \in [Orders -> Nat]
    /\ refunds \in [Failures -> Nat]

Init ==
    /\ order = [o \in Orders |-> [status |-> "NONE", placedAt |-> FALSE]]
    /\ late = {}
    /\ request = [r \in Requests |-> IdleRequest]
    /\ announced = [o \in Orders |-> 0]
    /\ cutOff = {}
    /\ overtaken = [o \in Orders |-> {}]
    /\ handler = [h \in Handlers |-> IdleHandler]
    /\ deliveries = [f \in Failures |-> 0]
    /\ compensations = [f \in Failures |-> 0]
    /\ refunded = [o \in Orders |-> 0]
    /\ refunds = [f \in Failures |-> 0]

-----------------------------------------------------------------------------
(* createOrder: the document its pipeline of queries puts together is       *)
(* stored as PENDING.  A query that fails leaves no order behind.           *)
CreateOrder(o) ==
    /\ order[o].status = "NONE"
    /\ order' = [order EXCEPT ![o] = [status |-> "PENDING", placedAt |-> FALSE]]
    /\ UNCHANGED <<late, request, announced, cutOff, overtaken,
                   compensating>>

(* More than pendingTimeout has passed since o was created.                 *)
Expire(o) ==
    /\ order[o].status # "NONE" /\ o \notin late
    /\ late' = late \cup {o}
    /\ UNCHANGED <<order, request, announced, cutOff, overtaken, compensating>>

(* placeOrder up to the clock reading of setStatusPlaced: the order exists  *)
(* and the caller may place it.  The age is judged by this reading, the     *)
(* status by a document read afterwards.                                    *)
PlaceOrder(r, o) ==
    /\ request[r].pc = "idle"
    /\ order[o].status # "NONE"
    /\ request' = [request EXCEPT ![r] =
                      [pc |-> "read", order |-> o, late |-> o \in late]]
    /\ UNCHANGED <<order, late, announced, cutOff, overtaken, compensating>>

EndRequest(r) == request' = [request EXCEPT ![r] = IdleRequest]
RequestAt(r, pc) == request' = [request EXCEPT ![r].pc = pc]

(* SetStatusPlacedUnchecked: the status of the order read is not looked at. *)
SetStatusPlacedUnchecked(r) ==
    /\ request[r].pc = "read"
    /\ RequestAt(r, IF request[r].late THEN "reject" ELSE "place")
    /\ UNCHANGED <<order, late, announced, cutOff, overtaken, compensating>>

(* SetStatusPlacedAnew: only a PENDING order is rejected for its age, and   *)
(* everything else is placed.                                               *)
SetStatusPlacedAnew(r) ==
    LET pending == order[request[r].order].status = "PENDING"
    IN  /\ request[r].pc = "read"
        /\ RequestAt(r, IF request[r].late /\ pending THEN "reject" ELSE "place")
        /\ UNCHANGED <<order, late, announced, cutOff, overtaken, compensating>>

(* setStatusPlaced decides on the document it reads: an order past its      *)
(* timeout is rejected whatever its status, a PENDING one is placed, any    *)
(* other is an error.                                                       *)
SetStatusPlaced(r) ==
    /\ request[r].pc = "read"
    /\ CASE request[r].late -> RequestAt(r, "reject")
         [] ~request[r].late /\ order[request[r].order].status = "PENDING"
                            -> RequestAt(r, "place")
         [] OTHER           -> EndRequest(r)
    /\ UNCHANGED <<order, late, announced, cutOff, overtaken, compensating>>

(* The mutations that have found o PENDING and will write PLACED.           *)
Placing(o) == {r \in Requests : request[r].pc = "place" /\ request[r].order = o}
Overtake(r) ==
    overtaken' = [overtaken EXCEPT
                     ![request[r].order] = @ \cup (Placing(request[r].order) \ {r})]

(* WritePlacedUndated: the placement time is forgotten.                     *)
WritePlacedUndated(r) ==
    /\ request[r].pc = "place"
    /\ order' = [order EXCEPT ![request[r].order].status = "PLACED"]
    /\ Overtake(r)
    /\ RequestAt(r, "reread")
    /\ UNCHANGED <<late, announced, cutOff, compensating>>

(* The write is addressed by id alone: the status is not checked again.     *)
WritePlaced(r) ==
    /\ request[r].pc = "place"
    /\ order' = [order EXCEPT ![request[r].order] =
                    [status |-> "PLACED", placedAt |-> TRUE]]
    /\ Overtake(r)
    /\ RequestAt(r, "reread")
    /\ UNCHANGED <<late, announced, cutOff, compensating>>

(* SetStatusRejected, after which placeOrder always answers with an error.  *)
WriteRejected(r) ==
    /\ request[r].pc = "reject"
    /\ order' = [order EXCEPT ![request[r].order].status = "REJECTED"]
    /\ Overtake(r)
    /\ EndRequest(r)
    /\ UNCHANGED <<late, announced, cutOff, compensating>>

(* placeOrder reads the order again; toOrderDTO needs its placedAt.         *)
Reread(r) ==
    /\ request[r].pc = "reread"
    /\ IF order[request[r].order].placedAt THEN RequestAt(r, "publish")
                                           ELSE EndRequest(r)
    /\ UNCHANGED <<order, late, announced, cutOff, overtaken, compensating>>

PublishOrderCreated(r) ==
    /\ request[r].pc = "publish"
    /\ announced' = [announced EXCEPT ![request[r].order] = @ + 1]
    /\ EndRequest(r)
    /\ UNCHANGED <<order, late, cutOff, overtaken, compensating>>

(* A database call fails, or the event is lost: with a transport error the  *)
(* mutation answers with an error, with an error status of the broker it    *)
(* succeeds.                                                                *)
RequestFails(r) ==
    /\ Faults
    /\ request[r].pc # "idle"
    /\ EndRequest(r)
    /\ cutOff' = IF request[r].pc \in {"reread", "publish"}
                 THEN cutOff \cup {request[r].order} ELSE cutOff
    /\ UNCHANGED <<order, late, announced, overtaken, compensating>>

-----------------------------------------------------------------------------
(* The broker delivers an event, any number of times: a shipment fails only *)
(* after the order was announced.                                           *)
Deliver(h, f) ==
    /\ handler[h].pc = "idle"
    /\ announced[OrderOf[f]] > 0
    /\ deliveries[f] < MaxDeliveries
    /\ handler' = [handler EXCEPT ![h] = [pc |-> "verify", event |-> f]]
    /\ deliveries' = [deliveries EXCEPT ![f] = @ + 1]
    /\ UNCHANGED <<placing, compensations, refunded, refunds>>

EndHandler(h) == handler' = [handler EXCEPT ![h] = IdleHandler]
HandlerAt(h, pc) == handler' = [handler EXCEPT ![h].pc = pc]

(* CountUncompensatedProbe: the stored compensations that share no item     *)
(* with the event.                                                          *)
Blocking(f) ==
    {g \in Failures : compensations[g] > 0
                      /\ FailedItems[g] \cap FailedItems[f] = {}}

(* compensateOrder checks that the order exists (orders are never deleted)  *)
(* and stops with an error if the probe finds a document.                   *)
VerifyItemsUncompensated(h) ==
    /\ handler[h].pc = "verify"
    /\ IF Blocking(handler[h].event) = {} THEN HandlerAt(h, "insert")
                                          ELSE EndHandler(h)
    /\ UNCHANGED <<placing, deliveries, compensations, refunded, refunds>>

Total(items) == SumFunctionOnSet(AmountOf, items)

(* AmountOfAllItems: every item of the order is summed up.                  *)
AmountOfAllItems(f) == Total(ItemsOf[OrderOf[f]])

(* calculateAmountToCompensate: the order's own items among those named.    *)
AmountToCompensate(f) == Total(ItemsOf[OrderOf[f]] \cap FailedItems[f])

InsertOrderCompensation(h) ==
    LET f == handler[h].event IN
    /\ handler[h].pc = "insert"
    /\ compensations' = [compensations EXCEPT ![f] = @ + 1]
    /\ refunded' = [refunded EXCEPT ![OrderOf[f]] = @ + AmountToCompensate(f)]
    /\ HandlerAt(h, "publish")
    /\ UNCHANGED <<placing, deliveries, refunds>>

PublishOrderCompensationCreated(h) ==
    /\ handler[h].pc = "publish"
    /\ refunds' = [refunds EXCEPT ![handler[h].event] = @ + 1]
    /\ EndHandler(h)
    /\ UNCHANGED <<placing, deliveries, compensations, refunded>>

(* A call fails: the delivery is answered 500 and the broker repeats it.    *)
HandlerFails(h) ==
    /\ Faults
    /\ handler[h].pc # "idle"
    /\ EndHandler(h)
    /\ UNCHANGED <<placing, deliveries, compensations, refunded, refunds>>

-----------------------------------------------------------------------------
Serve(r) ==
    \/ SetStatusPlaced(r)
    \/ WritePlaced(r)
    \/ WriteRejected(r)
    \/ Reread(r)
    \/ PublishOrderCreated(r)

CompensateOrder(h) ==
    \/ VerifyItemsUncompensated(h)
    \/ InsertOrderCompensation(h)
    \/ PublishOrderCompensationCreated(h)

Next ==
    \/ \E o \in Orders : CreateOrder(o) \/ Expire(o)
    \/ \E r \in Requests :
          (\E o \in Orders : PlaceOrder(r, o)) \/ Serve(r) \/ RequestFails(r)
    \/ \E h \in Handlers :
          \/ \E f \in Failures : Deliver(h, f)
          \/ CompensateOrder(h)
          \/ HandlerFails(h)

Spec == Init /\ [][Next]_vars

(* A request and a handler that were begun are served to their end.         *)
FairSpec ==
    /\ Spec
    /\ \A r \in Requests : WF_vars(Serve(r))
    /\ \A h \in Handlers : WF_vars(CompensateOrder(h))

-----------------------------------------------------------------------------
(* placeOrder starts the saga of an order once, and once more at most for   *)
(* each mutation that was overtaken between its check for PENDING and its   *)
(* write (setStatusPlaced): for mutations served at the same time, that may *)
(* fail anywhere, repeated before and after the timeout.  Nobody else gets  *)
(* past the check.                                                          *)
SagasAreBounded ==
    \A o \in Orders : announced[o] <= 1 + Cardinality(overtaken[o])

(* A rejected order is placed, and so charged and shipped, afterwards only  *)
(* by a mutation that had found it PENDING before it was rejected, since    *)
(* the write goes by id (setStatusPlaced): any other leaves it rejected.    *)
RejectedUnlessOvertaken ==
    [][\A o \in Orders :
          order[o].status = "REJECTED" /\ order'[o].status # "REJECTED"
              => \E r \in overtaken[o] : r \in Placing(o)]_vars

(* Placing an order starts its saga: a PLACED order is announced in the     *)
(* end, unless a call fails between the write of the status and the event   *)
(* (a retry is only told that the order was placed).                        *)
PlacedIsAnnounced ==
    \A o \in Orders : order[o].status = "PLACED" ~> announced[o] > 0 \/ o \in cutOff

(* While no event is delivered twice, the compensations stored for an order *)
(* never exceed what it cost, however its failed shipments interleave       *)
(* (calculateAmountToCompensate).                                           *)
RefundedWithinOrder ==
    \A o \in Orders :
        (\A f \in Failures : OrderOf[f] = o => deliveries[f] <= 1)
            => refunded[o] <= Total(ItemsOf[o])
=============================================================================
