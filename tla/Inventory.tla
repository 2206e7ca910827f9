------------------------------ MODULE Inventory ------------------------------
(***************************************************************************)
(* The inventory service: one document per physical unit of a product      *)
(* variant, and the step of the order saga that reserves units, moves them *)
(* through fulfilment and releases them again.                             *)
(*                                                                         *)
(* Dapr calls the event handlers over HTTP, each call in a goroutine of    *)
(* its own: a worker here is one such call.  A handler is a sequence of    *)
(* database calls, so the handlers of one order, and of different orders,  *)
(* interleave between those calls.  ReserveBatch runs in a snapshot        *)
(* transaction and is one step.  The other bulk writes are Mongo           *)
(* UpdateMany calls, which are atomic for one document only: they take one *)
(* step per document.                                                      *)
(*                                                                         *)
(* Delivery is at least once: a message whose handler fails, or whose      *)
(* acknowledgement is lost, is delivered again.                            *)
(***************************************************************************)
EXTENDS Integers, Sequences, FiniteSets

CONSTANTS
    Items,            \* ids of product items, the ones created later included
    Variants,         \* product variant ids
    Orders,           \* order ids
    Workers,          \* handler calls that can be in progress together
    Lines,            \* Lines[o]: order items of o, each a variant and a count
    Stock,            \* Stock[i]: variant of an item created before the start
    None,             \* no order (orderId null), no variant (item not created)
    Published,        \* topics on which the other services publish
    Resent,           \* those on which an order can get its message again
    ShipmentStatuses, \* statuses the shipment service reports
    AdminStatuses,    \* statuses employees set through updateProductItem
    AdminNumbers,     \* batch sizes of the two batch mutations
    MaxRedeliveries,  \* bound: how many deliveries repeat an earlier one
    Faults            \* TRUE iff a publish or a transaction may fail

(* The values of InventoryStatus, and the marks of an item that is not in   *)
(* the collection: one not created yet, and one deleted (an id is never     *)
(* used again).                                                             *)
Status == {"IN_STORAGE", "RESERVED", "IN_FULFILLMENT", "SHIPPED",
           "DELIVERED", "RETURNED", "LOST"}
Absent == "ABSENT"
Deleted == "DELETED"
Gone == {Absent, Deleted}

(* An order item as the order service publishes it: the count comes from a  *)
(* shopping cart, which accepts any Int.                                    *)
Line == [variant : Variants, count : Int]

ASSUME InventoryAssumption ==
    /\ IsFiniteSet(Items)
    /\ Lines \in [Orders -> Seq(Line)]
    /\ Stock \in [Items -> Variants \cup {None}]
    /\ None \notin Orders
    /\ None \notin Variants
    /\ Resent \subseteq {"shipment-created", "status-updated"}
    /\ AdminStatuses \subseteq Status
    /\ AdminNumbers \subseteq Int
    /\ MaxRedeliveries \in Nat
    /\ Faults \in BOOLEAN

ReleaseTopics == {"payment-failed", "validation-failed"}
Topics == {"none", "order-created", "payment-enabled", "shipment-created",
           "status-updated"} \cup ReleaseTopics

(* A message on one of the topics the service subscribes to.  The order of  *)
(* a shipment message is None when the shipment belongs to a return.        *)
Message == [topic : Topics, order : Orders \cup {None},
            status : ShipmentStatuses \cup {"-"}]

Msg(topic, o) == [topic |-> topic, order |-> o, status |-> "-"]
NoMsg == Msg("none", None)

VARIABLES
    status,       \* status[i]: InventoryStatus, Absent or Deleted
    variant,      \* variant[i]: productVariant
    orderId,      \* orderId[i]: the order holding the item, or None
    variants,     \* product variant partials known to the service
    job,          \* job[w]: what the handler call w is doing
    inbox,        \* messages published by other services, not yet handled
    sent,         \* every message ever published by other services
    results,      \* reservation results published by this service
    redeliveries  \* deliveries that repeated an earlier one

itemVars == <<status, variant, orderId>>
vars == <<status, variant, orderId, variants, job, inbox, sent, results,
          redeliveries>>

-----------------------------------------------------------------------------
(* A handler call: where it is, the message it handles, the order item it   *)
(* reserves next, whether a reservation failed, and the documents its bulk  *)
(* write has not reached yet.                                               *)
Job == [pc : {"idle", "reserve", "find", "release", "update"}, msg : Message,
        line : Nat, failed : BOOLEAN, todo : SUBSET Items]

NewJob(pc, m, todo) ==
    [pc |-> pc, msg |-> m, line |-> 1, failed |-> FALSE, todo |-> todo]
IdleJob == NewJob("idle", NoMsg, {})

Results == [result : {"succeeded", "failed"}, order : Orders]

TypeOK ==
    /\ status \in [Items -> Status \cup Gone]
    /\ variant \in [Items -> Variants \cup {None}]
    /\ orderId \in [Items -> Orders \cup {None}]
    /\ variants \subseteq Variants
    /\ job \in [Workers -> Job]
    /\ inbox \subseteq Message
    /\ sent \subseteq Message
    /\ results \subseteq Results
    /\ redeliveries \in Nat

Init ==
    /\ variant = Stock
    /\ status = [i \in Items |->
                    IF Stock[i] = None THEN Absent ELSE "IN_STORAGE"]
    /\ orderId = [i \in Items |-> None]
    /\ variants = {Stock[i] : i \in Items} \ {None}
    /\ job = [w \in Workers |-> IdleJob]
    /\ inbox = {}
    /\ sent = {}
    /\ results = {}
    /\ redeliveries = 0

-----------------------------------------------------------------------------
(* What the other services publish, in the causal order of the saga.  The   *)
(* discount and payment services between them publish at most one message   *)
(* that releases an order; redelivery repeats it.  An order has a shipment  *)
(* for each of its shipment methods, and the messages on them name only the *)
(* order: one that was sent before can be sent again.                       *)
Send(m) ==
    /\ m.topic \in Published
    /\ m \notin sent
    /\ sent' = sent \cup {m}
    /\ inbox' = inbox \cup {m}
    /\ UNCHANGED <<status, variant, orderId, variants, job, results,
                   redeliveries>>

SendAgain(m) ==
    /\ m.topic \in Resent
    /\ m \in sent
    /\ inbox' = inbox \cup {m}
    /\ UNCHANGED <<status, variant, orderId, variants, job, sent, results,
                   redeliveries>>

OrderPlaced(o) == Send(Msg("order-created", o))

SagaContinues(o) ==
    /\ [result |-> "succeeded", order |-> o] \in results
    /\ \/ /\ Msg("payment-failed", o) \notin sent
          /\ Send(Msg("validation-failed", o))
       \/ /\ Msg("validation-failed", o) \notin sent
          /\ \/ Send(Msg("payment-enabled", o))
             \/ Send(Msg("payment-failed", o))

ShipmentContinues(o) ==
    \/ /\ Msg("payment-enabled", o) \in sent
       /\ Send(Msg("shipment-created", o))
    \/ /\ Msg("shipment-created", o) \in sent
       /\ \E s \in ShipmentStatuses :
             Send([topic |-> "status-updated", order |-> o, status |-> s])
    \/ \E m \in sent : m.order = o /\ SendAgain(m)

(* A shipment of a return carries no order id.                              *)
ReturnShipped == Send(Msg("shipment-created", None))

-----------------------------------------------------------------------------
(* Delivery.  The message leaves the inbox when its handler succeeds; an    *)
(* acknowledgement that is lost leaves it there to be delivered again.      *)
Accept(w, m, j) ==
    /\ job[w].pc = "idle"
    /\ m \in inbox
    /\ \/ /\ inbox' = inbox \ {m}
          /\ UNCHANGED redeliveries
       \/ /\ redeliveries < MaxRedeliveries
          /\ redeliveries' = redeliveries + 1
          /\ UNCHANGED inbox
    /\ job' = [job EXCEPT ![w] = j]
    /\ UNCHANGED <<status, variant, orderId, variants, sent, results>>

Goto(w, j) == job' = [job EXCEPT ![w] = j]
Done(w) == Goto(w, IdleJob)

OrderCreated(w, m) ==
    /\ m.topic = "order-created"
    /\ Accept(w, m, NewJob("reserve", m, {}))

PaymentEnabled(w, m) ==
    /\ m.topic = "payment-enabled"
    /\ Accept(w, m, NewJob("update", m, Items))

PaymentFailed(w, m) ==
    /\ m.topic = "payment-failed"
    /\ Accept(w, m, NewJob("find", m, {}))

DiscountValidationFailed(w, m) ==
    /\ m.topic = "validation-failed"
    /\ Accept(w, m, NewJob("find", m, {}))

ShipmentCreated(w, m) ==
    /\ m.topic = "shipment-created"
    /\ Accept(w, m, IF m.order = None THEN IdleJob
                    ELSE NewJob("update", m, Items))

ShipmentStatusUpdated(w, m) ==
    /\ m.topic = "status-updated"
    /\ Accept(w, m, IF m.order = None \/ m.status \notin {"DELIVERED", "FAILED"}
                    THEN IdleJob
                    ELSE NewJob("update", m, Items))

(* A handler that returns an error answers 500, and one whose process dies  *)
(* does not answer: either way the message comes back.                      *)
HandlerFails(w) ==
    /\ job[w].pc # "idle"
    /\ redeliveries < MaxRedeliveries
    /\ redeliveries' = redeliveries + 1
    /\ inbox' = inbox \cup {job[w].msg}
    /\ Done(w)
    /\ UNCHANGED <<status, variant, orderId, variants, sent, results>>

-----------------------------------------------------------------------------
(* AvailableAny: the search without the IN_STORAGE condition.               *)
AvailableAny(v) == {i \in Items : status[i] \notin Gone /\ variant[i] = v}
Available(v) == {i \in Items : status[i] = "IN_STORAGE" /\ variant[i] = v}

(* How many documents Find returns under SetLimit(number): Mongo reads a    *)
(* limit of 0 as no limit at all, and a negative one as its absolute value. *)
Found(v, number) ==
    LET n == Cardinality(Available(v))
        limit == IF number < 0 THEN -number ELSE number
    IN  IF limit = 0 \/ n < limit THEN n ELSE limit

Reserve(S, o) ==
    /\ status' = [i \in Items |-> IF i \in S THEN "RESERVED" ELSE status[i]]
    /\ orderId' = [i \in Items |-> IF i \in S THEN o ELSE orderId[i]]
    /\ UNCHANGED variant

(* ReserveBatchPartial: the transaction without the check that Find         *)
(* returned as many documents as the order item asks for.                   *)
ReserveBatchPartial(v, number, o) ==
    \E S \in SUBSET Available(v) :
        /\ Cardinality(S) = Found(v, number)
        /\ Reserve(S, o)

(* The transaction: it commits a reservation of exactly the documents Find  *)
(* returned, or aborts when they are fewer than asked for.                  *)
ReserveBatch(v, number, o) ==
    /\ Found(v, number) >= number
    /\ \E S \in SUBSET Available(v) :
          /\ Cardinality(S) = Found(v, number)
          /\ Reserve(S, o)

(* One iteration of the loop over the order items; an error of the          *)
(* transaction is remembered, and the loop goes on.  A transaction whose    *)
(* commit answer is lost has reserved its documents and is such an error.   *)
ReserveLine(w) ==
    LET j == job[w]
        o == j.msg.order
    IN  /\ j.pc = "reserve"
        /\ j.line <= Len(Lines[o])
        /\ LET l == Lines[o][j.line]
           IN  \/ /\ ReserveBatch(l.variant, l.count, o)
                  /\ \/ Goto(w, [j EXCEPT !.line = j.line + 1])
                     \/ /\ Faults
                        /\ Goto(w, [j EXCEPT !.line = j.line + 1, !.failed = TRUE])
               \/ /\ Faults \/ Found(l.variant, l.count) < l.count
                  /\ Goto(w, [j EXCEPT !.line = j.line + 1, !.failed = TRUE])
                  /\ UNCHANGED itemVars
        /\ UNCHANGED <<variants, inbox, sent, results, redeliveries>>

(* A failed publish is logged and swallowed: the result is lost.            *)
Publish(result, o) ==
    \/ results' = results \cup {[result |-> result, order |-> o]}
    \/ Faults /\ UNCHANGED results

PublishReservationSucceeded(w) ==
    LET j == job[w]
    IN  /\ j.pc = "reserve"
        /\ j.line > Len(Lines[j.msg.order])
        /\ ~j.failed
        /\ Publish("succeeded", j.msg.order)
        /\ Done(w)
        /\ UNCHANGED <<status, variant, orderId, variants, inbox, sent,
                       redeliveries>>

(* PublishFailedOnly: the handler forgets to release what it had reserved.  *)
PublishFailedOnly(w) ==
    LET j == job[w]
    IN  /\ j.pc = "reserve"
        /\ j.line > Len(Lines[j.msg.order])
        /\ j.failed
        /\ Publish("failed", j.msg.order)
        /\ Done(w)
        /\ UNCHANGED <<status, variant, orderId, variants, inbox, sent,
                       redeliveries>>

PublishReservationFailed(w) ==
    LET j == job[w]
    IN  /\ j.pc = "reserve"
        /\ j.line > Len(Lines[j.msg.order])
        /\ j.failed
        /\ Publish("failed", j.msg.order)
        /\ Goto(w, [j EXCEPT !.pc = "find"])
        /\ UNCHANGED <<status, variant, orderId, variants, inbox, sent,
                       redeliveries>>

(* ReleaseFindReserved: the search also asks for status RESERVED, so items  *)
(* already in fulfilment are missed.                                        *)
ReleaseFindReserved(w) ==
    LET j == job[w]
        ids == {i \in Items : orderId[i] = j.msg.order /\ status[i] = "RESERVED"}
    IN  /\ j.pc = "find"
        /\ IF ids = {} THEN Done(w)
           ELSE Goto(w, [j EXCEPT !.pc = "release", !.todo = ids])
        /\ UNCHANGED <<status, variant, orderId, variants, inbox, sent,
                       results, redeliveries>>

(* ReleaseFindAny: the search forgets the order id.                         *)
ReleaseFindAny(w) ==
    LET j == job[w]
        ids == {i \in Items : orderId[i] # None}
    IN  /\ j.pc = "find"
        /\ IF ids = {} THEN Done(w)
           ELSE Goto(w, [j EXCEPT !.pc = "release", !.todo = ids])
        /\ UNCHANGED <<status, variant, orderId, variants, inbox, sent,
                       results, redeliveries>>

(* ReleaseBatch looks the order's items up ...                              *)
ReleaseFind(w) ==
    LET j == job[w]
        ids == {i \in Items : orderId[i] = j.msg.order}
    IN  /\ j.pc = "find"
        /\ IF ids = {} THEN Done(w)
           ELSE Goto(w, [j EXCEPT !.pc = "release", !.todo = ids])
        /\ UNCHANGED <<status, variant, orderId, variants, inbox, sent,
                       results, redeliveries>>

(* ReleaseOneKeepsOrder: the status is set and the order id forgotten.      *)
ReleaseOneKeepsOrder(w, i) ==
    LET j == job[w]
    IN  /\ j.pc = "release"
        /\ i \in j.todo
        /\ status' = [status EXCEPT
                         ![i] = IF @ \in Gone THEN @ ELSE "IN_STORAGE"]
        /\ IF j.todo = {i} THEN Done(w)
           ELSE Goto(w, [j EXCEPT !.todo = j.todo \ {i}])
        /\ UNCHANGED <<variant, orderId, variants, inbox, sent, results,
                       redeliveries>>

(* ... and then frees the documents with those ids, whatever order holds    *)
(* them by now.                                                             *)
ReleaseOne(w, i) ==
    LET j == job[w]
    IN  /\ j.pc = "release"
        /\ i \in j.todo
        /\ status' = [status EXCEPT
                         ![i] = IF @ \in Gone THEN @ ELSE "IN_STORAGE"]
        /\ orderId' = [orderId EXCEPT ![i] = None]
        /\ IF j.todo = {i} THEN Done(w)
           ELSE Goto(w, [j EXCEPT !.todo = j.todo \ {i}])
        /\ UNCHANGED <<variant, variants, inbox, sent, results, redeliveries>>

(* When ReleaseBatch itself fails, OrderCreated logs the error and answers  *)
(* 200 all the same: what is still reserved stays reserved.                 *)
ReleaseFails(w) ==
    /\ Faults
    /\ job[w].pc \in {"find", "release"}
    /\ job[w].msg.topic = "order-created"
    /\ Done(w)
    /\ UNCHANGED <<status, variant, orderId, variants, inbox, sent, results,
                   redeliveries>>

(* TargetRaw: the shipment's own status is stored as an inventory status.   *)
TargetRaw(m) ==
    CASE m.topic = "payment-enabled"  -> "IN_FULFILLMENT"
      [] m.topic = "shipment-created" -> "SHIPPED"
      [] OTHER                        -> m.status

(* The status a message asks UpdateOrderStatus to write.                    *)
Target(m) ==
    CASE m.topic = "payment-enabled"  -> "IN_FULFILLMENT"
      [] m.topic = "shipment-created" -> "SHIPPED"
      [] m.status = "DELIVERED"       -> "DELIVERED"
      [] OTHER                        -> "LOST"

(* UpdateOneStale: the write does not ask whether the document still        *)
(* carries the order id.                                                    *)
UpdateOneStale(w, i) ==
    LET j == job[w]
    IN  /\ j.pc = "update"
        /\ i \in j.todo
        /\ status' = [status EXCEPT ![i] = Target(j.msg)]
        /\ IF j.todo = {i} THEN Done(w)
           ELSE Goto(w, [j EXCEPT !.todo = j.todo \ {i}])
        /\ UNCHANGED <<variant, orderId, variants, inbox, sent, results,
                       redeliveries>>

(* UpdateOrderStatus reaches one document: it is written if it carries the  *)
(* order id at that moment.                                                 *)
UpdateOne(w, i) ==
    LET j == job[w]
    IN  /\ j.pc = "update"
        /\ i \in j.todo
        /\ status' = [status EXCEPT
                         ![i] = IF orderId[i] = j.msg.order
                                THEN Target(j.msg) ELSE @]
        /\ IF j.todo = {i} THEN Done(w)
           ELSE Goto(w, [j EXCEPT !.todo = j.todo \ {i}])
        /\ UNCHANGED <<variant, orderId, variants, inbox, sent, results,
                       redeliveries>>

-----------------------------------------------------------------------------
(* GraphQL mutations of employees, and the replica of product variants.     *)

(* catalog/product-variant/created: idempotent, a duplicate key is success. *)
ProductVariantCreated(v) ==
    /\ variants' = variants \cup {v}
    /\ UNCHANGED <<status, variant, orderId, job, inbox, sent, results,
                   redeliveries>>

CreateProductItemBatch(v, number) ==
    /\ v \in variants
    /\ \E S \in SUBSET {i \in Items : status[i] = Absent} :
          /\ Cardinality(S) = IF number < 0 THEN 0 ELSE number
          /\ status' = [i \in Items |->
                           IF i \in S THEN "IN_STORAGE" ELSE status[i]]
          /\ variant' = [i \in Items |-> IF i \in S THEN v ELSE variant[i]]
    /\ UNCHANGED <<orderId, variants, job, inbox, sent, results, redeliveries>>

(* Only the two fields are set: the order id stays.                         *)
UpdateProductItem(i, v, s) ==
    /\ v \in variants
    /\ status[i] \notin Gone
    /\ status' = [status EXCEPT ![i] = s]
    /\ variant' = [variant EXCEPT ![i] = v]
    /\ UNCHANGED <<orderId, variants, job, inbox, sent, results, redeliveries>>

DeleteProductItem(i) ==
    /\ status[i] \notin Gone
    /\ status' = [status EXCEPT ![i] = Deleted]
    /\ orderId' = [orderId EXCEPT ![i] = None]
    /\ UNCHANGED <<variant, variants, job, inbox, sent, results, redeliveries>>

ReserveProductItemBatch(v, number, o) ==
    /\ ReserveBatch(v, number, o)
    /\ UNCHANGED <<variants, job, inbox, sent, results, redeliveries>>

Admin ==
    \/ \E v \in Variants, n \in AdminNumbers : CreateProductItemBatch(v, n)
    \/ \E i \in Items, v \in Variants, s \in AdminStatuses :
          UpdateProductItem(i, v, s)
    \/ \E i \in Items : AdminNumbers # {} /\ DeleteProductItem(i)
    \/ \E v \in Variants, n \in AdminNumbers, o \in Orders :
          ReserveProductItemBatch(v, n, o)
    \/ \E v \in Variants : AdminNumbers # {} /\ ProductVariantCreated(v)

-----------------------------------------------------------------------------
Handle(w) ==
    \E m \in inbox :
        \/ OrderCreated(w, m)
        \/ PaymentEnabled(w, m)
        \/ PaymentFailed(w, m)
        \/ DiscountValidationFailed(w, m)
        \/ ShipmentCreated(w, m)
        \/ ShipmentStatusUpdated(w, m)

Work(w) ==
    \/ ReserveLine(w)
    \/ PublishReservationSucceeded(w)
    \/ PublishReservationFailed(w)
    \/ ReleaseFind(w)
    \/ ReleaseFails(w)
    \/ \E i \in Items : ReleaseOne(w, i) \/ UpdateOne(w, i)

Environment ==
    \/ \E o \in Orders : OrderPlaced(o) \/ SagaContinues(o)
                                        \/ ShipmentContinues(o)
    \/ ReturnShipped

Next ==
    \/ Environment
    \/ \E w \in Workers : Handle(w) \/ Work(w) \/ HandlerFails(w)
    \/ Admin

Spec == Init /\ [][Next]_vars

(* Dapr keeps delivering what is in the inbox while a worker is free, and   *)
(* the Go scheduler runs every handler call that has been started.          *)
FairSpec == Spec /\ \A w \in Workers : WF_vars(Handle(w)) /\ WF_vars(Work(w))
-----------------------------------------------------------------------------
(* Properties.                                                              *)

Held(o) == {i \in Items : orderId[i] = o}
Busy(o) == \E w \in Workers : job[w].pc # "idle" /\ job[w].msg.order = o
Answered(o, r) == [result |-> r, order |-> o] \in results
ReleaseSent(o) == \E t \in ReleaseTopics : Msg(t, o) \in sent

(* Units ordered of variant v by order o, one pair per unit.                *)
Ordered(o, v) ==
    UNION {{k} \X (1 .. Lines[o][k].count) :
           k \in {n \in DOMAIN Lines[o] : Lines[o][n].variant = v}}

(* What ReserveBatch may hand to the next order is exactly what no order    *)
(* holds: an item whose status is IN_STORAGE carries no order id, whatever  *)
(* the interleaving of releases, status updates and repeated deliveries.    *)
(* This is of the handlers and of employees that do not set IN_STORAGE by   *)
(* hand: updateProductItem leaves the order id in place, and with           *)
(* IN_STORAGE in AdminStatuses the property does not hold.                  *)
StockIsUnheld ==
    \A i \in Items : status[i] = "IN_STORAGE" => orderId[i] = None

(* No unit is stranded: an item no order holds is for sale, unless an       *)
(* employee set its status.  Every bulk write of the handlers sets the      *)
(* status and the order id consistently, also when a release and a status   *)
(* update meet on the same document.                                        *)
UnheldIsStock ==
    \A i \in Items : status[i] \in Status \ AdminStatuses /\ orderId[i] = None
                      => status[i] = "IN_STORAGE"

(* ReserveBatch never takes an item away from an order that holds it: an    *)
(* item passes from one order to another only through a release.  This too  *)
(* is of employees that do not set a held item IN_STORAGE by hand, and of   *)
(* ReserveBatch as the one transaction it is (productitem.go).              *)
NoItemChangesHands ==
    [][\A i \in Items : orderId[i] # None /\ orderId'[i] # None
                         => orderId'[i] = orderId[i]]_vars

(* With every message delivered once, an order whose reservation succeeded  *)
(* holds exactly the units it asked for, variant by variant, until a        *)
(* release of it is published: no reservation, release or status update of  *)
(* another order, and no interleaving with them, changes that.              *)
SucceededOrderHoldsItsLines ==
    \A o \in Orders : Answered(o, "succeeded") /\ ~ReleaseSent(o) =>
        \A v \in Variants : Cardinality({i \in Held(o) : variant[i] = v})
                              = Cardinality(Ordered(o, v))

(* With every message delivered once, the saga gets one answer per order,   *)
(* and an order that was refused, or released by a later step, holds no     *)
(* unit once its handlers are through, although reservation-failed is       *)
(* published before the units are given back.                               *)
RefusedOrReleasedHoldsNothing ==
    \A o \in Orders :
        /\ ~(Answered(o, "succeeded") /\ Answered(o, "failed"))
        /\ (\/ Answered(o, "failed")
            \/ ReleaseSent(o) /\ \A t \in ReleaseTopics : Msg(t, o) \notin inbox)
           /\ ~Busy(o) => Held(o) = {}

(* Every order-created event is answered, and every release that is         *)
(* published frees the order's units in the end.                            *)
OrdersSettle ==
    \A o \in Orders :
        /\ Msg("order-created", o) \in sent
              ~> Answered(o, "succeeded") \/ Answered(o, "failed")
        /\ ReleaseSent(o) ~> Held(o) = {}
=============================================================================
