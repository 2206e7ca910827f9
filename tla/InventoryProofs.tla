--------------------------- MODULE InventoryProofs ---------------------------
(***************************************************************************)
(* Proofs about Inventory, for any number of items, orders, handler calls  *)
(* and redeliveries.                                                       *)
(***************************************************************************)
EXTENDS Inventory, FiniteSetTheorems, TLAPS

(* Only shipment messages may lack an order id, and such a message starts   *)
(* no bulk write: every call in progress works for an order.                *)
MessagesNameOrders ==
    /\ \A m \in inbox :
          m.topic \in {"order-created", "payment-enabled"} \cup ReleaseTopics
             => m.order \in Orders
    /\ \A w \in Workers : job[w].pc # "idle" => job[w].msg.order \in Orders

IInv == TypeOK /\ MessagesNameOrders

LEMMA MsgType ==
    ASSUME NEW t \in Topics, NEW o \in Orders \cup {None}
    PROVE  Msg(t, o) \in Message /\ Msg(t, o).order = o /\ Msg(t, o).topic = t
BY DEF Msg, Message

LEMMA IdleJobType == IdleJob \in Job /\ IdleJob.pc = "idle"
<1>1. NoMsg \in Message
  BY MsgType DEF NoMsg, Topics
<1> QED
  BY <1>1 DEF IdleJob, NewJob, Job

LEMMA NewJobType ==
    ASSUME NEW pc \in {"reserve", "find", "update"}, NEW m \in Message,
           NEW todo \in SUBSET Items
    PROVE  /\ NewJob(pc, m, todo) \in Job
           /\ NewJob(pc, m, todo).msg = m
           /\ NewJob(pc, m, todo).pc = pc
BY DEF NewJob, Job

(* A message of the environment keeps the invariant when it names an order  *)
(* or is a shipment message.                                                *)
LEMMA SendPreserves ==
    ASSUME IInv, NEW m \in Message, Send(m) \/ SendAgain(m),
           m.order \in Orders \/ m.topic \in {"shipment-created", "status-updated"}
    PROVE  IInv'
<1>1. TypeOK'
  BY DEF IInv, TypeOK, Send, SendAgain
<1>2. MessagesNameOrders'
  BY DEF IInv, MessagesNameOrders, Send, SendAgain, ReleaseTopics
<1> QED
  BY <1>1, <1>2 DEF IInv

LEMMA EnvironmentPreserves ==
    ASSUME IInv, Environment
    PROVE  IInv'
<1>1. CASE \E o \in Orders : OrderPlaced(o)
  <2>1. PICK o \in Orders : Send(Msg("order-created", o))
    BY <1>1 DEF OrderPlaced
  <2> QED
    BY <2>1, MsgType, SendPreserves DEF Topics
<1>2. CASE \E o \in Orders : SagaContinues(o)
  <2>1. PICK o \in Orders, t \in {"validation-failed", "payment-enabled", "payment-failed"} :
            Send(Msg(t, o))
    BY <1>2 DEF SagaContinues
  <2>2. t \in Topics
    BY DEF Topics, ReleaseTopics
  <2> QED
    BY <2>1, <2>2, MsgType, SendPreserves
<1>3. CASE \E o \in Orders : ShipmentContinues(o)
  <2>1. PICK o \in Orders : ShipmentContinues(o)
    BY <1>3
  <2>2. CASE Send(Msg("shipment-created", o))
    BY <2>2, MsgType, SendPreserves DEF Topics
  <2>3. CASE \E s \in ShipmentStatuses :
                Send([topic |-> "status-updated", order |-> o, status |-> s])
    <3>1. PICK s \in ShipmentStatuses :
                Send([topic |-> "status-updated", order |-> o, status |-> s])
      BY <2>3
    <3>2. [topic |-> "status-updated", order |-> o, status |-> s] \in Message
      BY DEF Message, Topics
    <3> QED
      BY <3>1, <3>2, SendPreserves
  <2>4. ASSUME NEW m \in sent, m.order = o, SendAgain(m)
        PROVE  IInv'
    BY <2>4, SendPreserves DEF IInv, TypeOK
  <2> QED
    BY <2>1, <2>2, <2>3, <2>4 DEF ShipmentContinues
<1>4. CASE ReturnShipped
  BY <1>4, MsgType, SendPreserves DEF ReturnShipped, Topics
<1> QED
  BY <1>1, <1>2, <1>3, <1>4 DEF Environment

(* Taking a message off the inbox, for a call that works for an order or    *)
(* has nothing to do.                                                       *)
LEMMA AcceptPreserves ==
    ASSUME IInv, NEW w \in Workers, NEW m, NEW j \in Job,
           j.pc # "idle" => j.msg.order \in Orders, Accept(w, m, j)
    PROVE  IInv'
<1>1. inbox' \subseteq inbox /\ redeliveries' \in Nat
  BY InventoryAssumption DEF Accept, IInv, TypeOK
<1>2. job' = [job EXCEPT ![w] = j] /\ job' \in [Workers -> Job]
  BY DEF Accept, IInv, TypeOK
<1>3. TypeOK'
  BY <1>1, <1>2 DEF Accept, IInv, TypeOK
<1>4. MessagesNameOrders'
  BY <1>1, <1>2 DEF IInv, TypeOK, MessagesNameOrders
<1> QED
  BY <1>3, <1>4 DEF IInv

LEMMA HandlePreserves ==
    ASSUME IInv, NEW w \in Workers, Handle(w)
    PROVE  IInv'
<1>1. PICK m \in inbox :
          \/ OrderCreated(w, m) \/ PaymentEnabled(w, m) \/ PaymentFailed(w, m)
          \/ DiscountValidationFailed(w, m) \/ ShipmentCreated(w, m)
          \/ ShipmentStatusUpdated(w, m)
  BY DEF Handle
<1>2. m \in Message
  BY DEF IInv, TypeOK
<1>3. m.topic \in {"order-created", "payment-enabled"} \cup ReleaseTopics
         => m.order \in Orders
  BY DEF IInv, MessagesNameOrders
<1>4. CASE OrderCreated(w, m)
  BY <1>2, <1>3, <1>4, NewJobType, AcceptPreserves DEF OrderCreated
<1>5. CASE PaymentEnabled(w, m)
  BY <1>2, <1>3, <1>5, NewJobType, AcceptPreserves DEF PaymentEnabled
<1>6. CASE PaymentFailed(w, m)
  BY <1>2, <1>3, <1>6, NewJobType, AcceptPreserves DEF PaymentFailed, ReleaseTopics
<1>7. CASE DiscountValidationFailed(w, m)
  BY <1>2, <1>3, <1>7, NewJobType, AcceptPreserves
     DEF DiscountValidationFailed, ReleaseTopics
<1>8. CASE ShipmentCreated(w, m)
  <2>1. m.order \in Orders \cup {None}
    BY <1>2 DEF Message
  <2>2. CASE m.order = None
    BY <1>8, <2>2, IdleJobType, AcceptPreserves DEF ShipmentCreated
  <2>3. CASE m.order # None
    BY <1>2, <1>8, <2>1, <2>3, NewJobType, AcceptPreserves DEF ShipmentCreated
  <2> QED
    BY <2>2, <2>3
<1>9. CASE ShipmentStatusUpdated(w, m)
  <2>1. m.order \in Orders \cup {None}
    BY <1>2 DEF Message
  <2>2. CASE m.order = None \/ m.status \notin {"DELIVERED", "FAILED"}
    BY <1>9, <2>2, IdleJobType, AcceptPreserves DEF ShipmentStatusUpdated
  <2>3. CASE ~(m.order = None \/ m.status \notin {"DELIVERED", "FAILED"})
    BY <1>2, <1>9, <2>1, <2>3, NewJobType, AcceptPreserves
       DEF ShipmentStatusUpdated
  <2> QED
    BY <2>2, <2>3
<1> QED
  BY <1>1, <1>4, <1>5, <1>6, <1>7, <1>8, <1>9

(* A call that goes on, or ends, without touching the inbox.                *)
LEMMA GotoPreserves ==
    ASSUME IInv, NEW w \in Workers, NEW j \in Job,
           j.pc # "idle" => j.msg.order \in Orders, Goto(w, j),
           UNCHANGED <<variants, inbox, sent, redeliveries>>,
           status' \in [Items -> Status \cup Gone],
           variant' \in [Items -> Variants \cup {None}],
           orderId' \in [Items -> Orders \cup {None}],
           results' \subseteq Results
    PROVE  IInv'
<1>1. job' = [job EXCEPT ![w] = j] /\ job' \in [Workers -> Job]
  BY DEF Goto, IInv, TypeOK
<1>2. TypeOK'
  BY <1>1 DEF IInv, TypeOK
<1>3. MessagesNameOrders'
  BY <1>1 DEF IInv, TypeOK, MessagesNameOrders
<1> QED
  BY <1>2, <1>3 DEF IInv

LEMMA ReserveType ==
    ASSUME TypeOK, NEW S \in SUBSET Items, NEW o \in Orders, Reserve(S, o)
    PROVE  /\ status' \in [Items -> Status \cup Gone]
           /\ variant' \in [Items -> Variants \cup {None}]
           /\ orderId' \in [Items -> Orders \cup {None}]
BY DEF TypeOK, Reserve, Status

LEMMA ReserveBatchType ==
    ASSUME TypeOK, NEW v, NEW n, NEW o \in Orders, ReserveBatch(v, n, o)
    PROVE  /\ status' \in [Items -> Status \cup Gone]
           /\ variant' \in [Items -> Variants \cup {None}]
           /\ orderId' \in [Items -> Orders \cup {None}]
<1>1. PICK S \in SUBSET Available(v) : Reserve(S, o)
  BY DEF ReserveBatch
<1>2. S \in SUBSET Items
  BY DEF Available
<1> QED
  BY <1>1, <1>2, ReserveType

LEMMA TargetType ==
    ASSUME NEW m
    PROVE  Target(m) \in Status \ {"IN_STORAGE"}
BY DEF Target, Status

LEMMA WorkPreserves ==
    ASSUME IInv, NEW w \in Workers, Work(w)
    PROVE  IInv'
<1> DEFINE j == job[w]
<1>1. j \in Job
  BY DEF IInv, TypeOK
<1>2. j.pc # "idle" => j.msg.order \in Orders
  BY DEF IInv, MessagesNameOrders
<1>t. /\ status \in [Items -> Status \cup Gone]
      /\ variant \in [Items -> Variants \cup {None}]
      /\ orderId \in [Items -> Orders \cup {None}]
      /\ results \subseteq Results
  BY DEF IInv, TypeOK
<1>3. CASE ReserveLine(w)
  <2>1. j.pc = "reserve" /\ j.msg.order \in Orders
    BY <1>2, <1>3 DEF ReserveLine
  <2>a. j.line + 1 \in Nat
    BY <1>1 DEF Job
  <2>b. \A n \in Nat : [j EXCEPT !.line = n] \in Job
    BY <1>1 DEF Job
  <2>c. \A n \in Nat : [j EXCEPT !.line = n, !.failed = TRUE] \in Job
    BY <1>1, Zenon DEF Job
  <2>2. /\ [j EXCEPT !.line = j.line + 1] \in Job
        /\ [j EXCEPT !.line = j.line + 1, !.failed = TRUE] \in Job
    BY <2>a, <2>b, <2>c
  <2>3. /\ [j EXCEPT !.line = j.line + 1].msg = j.msg
        /\ [j EXCEPT !.line = j.line + 1, !.failed = TRUE].msg = j.msg
    BY <1>1 DEF Job
  <2>4. UNCHANGED <<variants, inbox, sent, results, redeliveries>>
    BY <1>3 DEF ReserveLine
  <2>5. \/ /\ \E v, n : ReserveBatch(v, n, j.msg.order)
           /\ \/ Goto(w, [j EXCEPT !.line = j.line + 1])
              \/ Goto(w, [j EXCEPT !.line = j.line + 1, !.failed = TRUE])
        \/ /\ Goto(w, [j EXCEPT !.line = j.line + 1, !.failed = TRUE])
           /\ UNCHANGED itemVars
    BY <1>3 DEF ReserveLine
  <2>6. /\ status' \in [Items -> Status \cup Gone]
        /\ variant' \in [Items -> Variants \cup {None}]
        /\ orderId' \in [Items -> Orders \cup {None}]
    BY <2>1, <2>5, <1>t, ReserveBatchType DEF itemVars, IInv
  <2>7. CASE Goto(w, [j EXCEPT !.line = j.line + 1])
    BY <2>1, <2>2, <2>3, <2>4, <2>6, <2>7, <1>t, GotoPreserves
  <2>8. CASE Goto(w, [j EXCEPT !.line = j.line + 1, !.failed = TRUE])
    BY <2>1, <2>2, <2>3, <2>4, <2>6, <2>8, <1>t, GotoPreserves
  <2> QED
    BY <2>5, <2>7, <2>8
<1>4. CASE PublishReservationSucceeded(w)
  <2>1. results' \subseteq Results
    BY <1>2, <1>4, <1>t DEF PublishReservationSucceeded, Publish, Results
  <2> QED
    BY <1>4, <1>t, <2>1, IdleJobType, GotoPreserves
       DEF PublishReservationSucceeded, Done
<1>5. CASE PublishReservationFailed(w)
  <2>1. j.msg.order \in Orders
    BY <1>2, <1>5 DEF PublishReservationFailed
  <2>2. results' \subseteq Results
    BY <1>5, <1>t, <2>1 DEF PublishReservationFailed, Publish, Results
  <2>3. /\ [j EXCEPT !.pc = "find"] \in Job
        /\ [j EXCEPT !.pc = "find"].msg = j.msg
    BY <1>1 DEF Job
  <2> QED
    BY <1>5, <1>t, <2>1, <2>2, <2>3, GotoPreserves DEF PublishReservationFailed
<1>6. CASE ReleaseFind(w)
  <2> DEFINE ids == {i \in Items : orderId[i] = j.msg.order}
  <2>1. j.msg.order \in Orders
    BY <1>2, <1>6 DEF ReleaseFind
  <2>2. /\ [j EXCEPT !.pc = "release", !.todo = ids] \in Job
        /\ [j EXCEPT !.pc = "release", !.todo = ids].msg = j.msg
    BY <1>1 DEF Job
  <2>3. Goto(w, IdleJob) \/ Goto(w, [j EXCEPT !.pc = "release", !.todo = ids])
    BY <1>6 DEF ReleaseFind, Done
  <2>4. UNCHANGED <<status, variant, orderId, variants, inbox, sent, results,
                    redeliveries>>
    BY <1>6 DEF ReleaseFind
  <2> HIDE DEF ids
  <2> QED
    BY <1>t, <2>1, <2>2, <2>3, <2>4, IdleJobType, GotoPreserves
<1>7. CASE ReleaseFails(w)
  BY <1>7, <1>t, IdleJobType, GotoPreserves DEF ReleaseFails, Done
<1>8. ASSUME NEW i \in Items, ReleaseOne(w, i)
      PROVE  IInv'
  <2>1. j.msg.order \in Orders
    BY <1>2, <1>8 DEF ReleaseOne
  <2>2. /\ [j EXCEPT !.todo = j.todo \ {i}] \in Job
        /\ [j EXCEPT !.todo = j.todo \ {i}].msg = j.msg
    BY <1>1 DEF Job
  <2>3. Goto(w, IdleJob) \/ Goto(w, [j EXCEPT !.todo = j.todo \ {i}])
    BY <1>8 DEF ReleaseOne, Done
  <2>4. /\ status' \in [Items -> Status \cup Gone]
        /\ orderId' \in [Items -> Orders \cup {None}]
    BY <1>8, <1>t DEF ReleaseOne, Status
  <2>5. UNCHANGED <<variant, variants, inbox, sent, results, redeliveries>>
    BY <1>8 DEF ReleaseOne
  <2> QED
    BY <1>t, <2>1, <2>2, <2>3, <2>4, <2>5, IdleJobType, GotoPreserves
<1>9. ASSUME NEW i \in Items, UpdateOne(w, i)
      PROVE  IInv'
  <2>1. j.msg.order \in Orders
    BY <1>2, <1>9 DEF UpdateOne
  <2>2. /\ [j EXCEPT !.todo = j.todo \ {i}] \in Job
        /\ [j EXCEPT !.todo = j.todo \ {i}].msg = j.msg
    BY <1>1 DEF Job
  <2>3. Goto(w, IdleJob) \/ Goto(w, [j EXCEPT !.todo = j.todo \ {i}])
    BY <1>9 DEF UpdateOne, Done
  <2>4. status' \in [Items -> Status \cup Gone]
    BY <1>9, <1>t, TargetType DEF UpdateOne
  <2>5. UNCHANGED <<variant, orderId, variants, inbox, sent, results, redeliveries>>
    BY <1>9 DEF UpdateOne
  <2> QED
    BY <1>t, <2>1, <2>2, <2>3, <2>4, <2>5, IdleJobType, GotoPreserves
<1> QED
  BY <1>3, <1>4, <1>5, <1>6, <1>7, <1>8, <1>9 DEF Work

LEMMA HandlerFailsPreserves ==
    ASSUME IInv, NEW w \in Workers, HandlerFails(w)
    PROVE  IInv'
<1>1. job[w] \in Job /\ job[w].msg.order \in Orders
  BY DEF IInv, TypeOK, MessagesNameOrders, HandlerFails
<1>2. job[w].msg \in Message
  BY <1>1 DEF Job
<1>3. job' = [job EXCEPT ![w] = IdleJob] /\ job' \in [Workers -> Job]
  BY IdleJobType DEF HandlerFails, Done, Goto, IInv, TypeOK
<1>4. TypeOK'
  BY <1>2, <1>3 DEF HandlerFails, IInv, TypeOK
<1>5. MessagesNameOrders'
  BY <1>1, <1>3, IdleJobType DEF HandlerFails, IInv, TypeOK, MessagesNameOrders
<1> QED
  BY <1>4, <1>5 DEF IInv

LEMMA AdminPreserves ==
    ASSUME IInv, Admin
    PROVE  IInv'
<1>1. UNCHANGED <<job, inbox, sent, results, redeliveries>>
  BY DEF Admin, CreateProductItemBatch, UpdateProductItem, DeleteProductItem,
         ReserveProductItemBatch, ProductVariantCreated
<1>2. MessagesNameOrders'
  BY <1>1 DEF IInv, MessagesNameOrders
<1>3. ASSUME NEW v \in Variants, NEW n, CreateProductItemBatch(v, n)
      PROVE  TypeOK'
  BY <1>1, <1>3 DEF CreateProductItemBatch, IInv, TypeOK, Status
<1>4. ASSUME NEW i \in Items, NEW v \in Variants, NEW s \in AdminStatuses,
             UpdateProductItem(i, v, s)
      PROVE  TypeOK'
  BY <1>1, <1>4, InventoryAssumption DEF UpdateProductItem, IInv, TypeOK
<1>5. ASSUME NEW i \in Items, DeleteProductItem(i)
      PROVE  TypeOK'
  BY <1>1, <1>5 DEF DeleteProductItem, IInv, TypeOK, Gone
<1>6. ASSUME NEW v \in Variants, NEW n, NEW o \in Orders,
             ReserveProductItemBatch(v, n, o)
      PROVE  TypeOK'
  BY <1>1, <1>6, ReserveBatchType DEF ReserveProductItemBatch, IInv, TypeOK
<1>7. ASSUME NEW v \in Variants, ProductVariantCreated(v)
      PROVE  TypeOK'
  BY <1>1, <1>7 DEF ProductVariantCreated, IInv, TypeOK
<1> QED
  BY <1>2, <1>3, <1>4, <1>5, <1>6, <1>7 DEF Admin, IInv

LEMMA InitIInv == Init => IInv
<1> SUFFICES ASSUME Init PROVE IInv
  OBVIOUS
<1>1. TypeOK
  BY InventoryAssumption, IdleJobType DEF Init, TypeOK, Status, Gone
<1>2. MessagesNameOrders
  BY IdleJobType DEF Init, MessagesNameOrders
<1> QED
  BY <1>1, <1>2 DEF IInv

LEMMA NextIInv == IInv /\ [Next]_vars => IInv'
<1> SUFFICES ASSUME IInv, [Next]_vars PROVE IInv'
  OBVIOUS
<1>1. CASE UNCHANGED vars
  BY <1>1 DEF vars, IInv, TypeOK, MessagesNameOrders
<1> QED
  BY <1>1, EnvironmentPreserves, HandlePreserves, WorkPreserves,
     HandlerFailsPreserves, AdminPreserves DEF Next

(* The state of the inventory service keeps its shape in every execution,   *)
(* and no bulk write ever runs for a message without an order id.           *)
THEOREM InventoryTypes == Spec => [](TypeOK /\ MessagesNameOrders)
<1>1. Init => IInv
  BY InitIInv
<1>2. IInv /\ [Next]_vars => IInv'
  BY NextIInv
<1>3. IInv => TypeOK /\ MessagesNameOrders
  BY DEF IInv
<1> QED
  BY <1>1, <1>2, <1>3, PTL DEF Spec

-----------------------------------------------------------------------------
(* StockIsUnheld is not inductive: an item that is created must not carry   *)
(* an order id from before, so the ids that are not in the collection are   *)
(* unheld as well.                                                          *)
Unheld ==
    \A i \in Items : status[i] \in {"IN_STORAGE"} \cup Gone => orderId[i] = None

(* An assumption on the use of updateProductItem: employees do not put an   *)
(* item back in storage with it, since it leaves the order id in place.     *)
NoManualRestock == "IN_STORAGE" \notin AdminStatuses

LEMMA ReserveBatchStep ==
    ASSUME TypeOK, Unheld, NEW v, NEW n, NEW o \in Orders, ReserveBatch(v, n, o)
    PROVE  /\ Unheld'
           /\ \A i \in Items : orderId[i] # None => orderId'[i] = orderId[i]
           /\ \A i \in Items : orderId'[i] = None
                 => orderId[i] = None /\ status'[i] = status[i]
<1>1. PICK S \in SUBSET Available(v) : Reserve(S, o)
  BY DEF ReserveBatch
<1>2. \A i \in S : i \in Items /\ status[i] = "IN_STORAGE" /\ orderId[i] = None
  BY DEF Available, Unheld
<1>3. o # None
  BY InventoryAssumption
<1>4. \A i \in Items : /\ status'[i] = IF i \in S THEN "RESERVED" ELSE status[i]
                       /\ orderId'[i] = IF i \in S THEN o ELSE orderId[i]
  BY <1>1 DEF Reserve
<1>5. Unheld'
  BY <1>4 DEF Unheld, Gone, Absent, Deleted
<1> QED
  BY <1>2, <1>3, <1>4, <1>5

LEMMA ReserveLineItems ==
    ASSUME IInv, NEW w \in Workers, ReserveLine(w)
    PROVE  \/ \E v, n : \E o \in Orders : ReserveBatch(v, n, o)
           \/ UNCHANGED itemVars
<1>1. job[w].msg.order \in Orders
  BY DEF ReserveLine, IInv, MessagesNameOrders
<1> QED
  BY <1>1 DEF ReserveLine

(* The only steps that write items, among those of the handlers and of the  *)
(* environment.                                                             *)
LEMMA WhoWritesItems ==
    ASSUME IInv, Next
    PROVE  \/ UNCHANGED itemVars
           \/ \E v, n : \E o \in Orders : ReserveBatch(v, n, o)
           \/ \E w \in Workers, i \in Items : ReleaseOne(w, i) \/ UpdateOne(w, i)
           \/ Admin
<1>1. CASE Environment
  BY <1>1 DEF Environment, OrderPlaced, SagaContinues, ShipmentContinues,
              ReturnShipped, Send, SendAgain, itemVars
<1>2. ASSUME NEW w \in Workers, Handle(w)
      PROVE  UNCHANGED itemVars
  BY <1>2 DEF Handle, OrderCreated, PaymentEnabled, PaymentFailed,
              DiscountValidationFailed, ShipmentCreated, ShipmentStatusUpdated,
              Accept, itemVars
<1>3. ASSUME NEW w \in Workers, HandlerFails(w)
      PROVE  UNCHANGED itemVars
  BY <1>3 DEF HandlerFails, itemVars
<1>4. ASSUME NEW w \in Workers, Work(w)
      PROVE  \/ UNCHANGED itemVars
             \/ \E v, n : \E o \in Orders : ReserveBatch(v, n, o)
             \/ \E i \in Items : ReleaseOne(w, i) \/ UpdateOne(w, i)
  <2>1. CASE ReserveLine(w)
    BY <2>1, ReserveLineItems
  <2>2. CASE PublishReservationSucceeded(w) \/ PublishReservationFailed(w)
             \/ ReleaseFind(w) \/ ReleaseFails(w)
    BY <2>2 DEF PublishReservationSucceeded, PublishReservationFailed,
                ReleaseFind, ReleaseFails, itemVars
  <2> QED
    BY <1>4, <2>1, <2>2 DEF Work
<1> QED
  BY <1>1, <1>2, <1>3, <1>4 DEF Next

LEMMA UnheldStep ==
    ASSUME NoManualRestock, IInv, Unheld, [Next]_vars
    PROVE  Unheld'
<1>t. TypeOK
  BY DEF IInv
<1>1. CASE UNCHANGED itemVars
  BY <1>1 DEF itemVars, Unheld
<1>2. ASSUME NEW v, NEW n, NEW o \in Orders, ReserveBatch(v, n, o)
      PROVE  Unheld'
  BY <1>t, <1>2, ReserveBatchStep
<1>3. ASSUME NEW w \in Workers, NEW i \in Items, ReleaseOne(w, i)
      PROVE  Unheld'
  BY <1>t, <1>3 DEF ReleaseOne, Unheld, TypeOK
<1>4. ASSUME NEW w \in Workers, NEW i \in Items, UpdateOne(w, i)
      PROVE  Unheld'
  <2>1. Target(job[w].msg) \notin {"IN_STORAGE"} \cup Gone
    BY DEF Target, Gone, Absent, Deleted
  <2>2. \A k \in Items : /\ orderId'[k] = orderId[k]
                         /\ status'[k] \in {status[k], Target(job[w].msg)}
    BY <1>t, <1>4 DEF UpdateOne, TypeOK
  <2> QED
    BY <2>1, <2>2 DEF Unheld
<1>5. CASE Admin
  <2>1. ASSUME NEW v \in Variants, NEW n, CreateProductItemBatch(v, n)
        PROVE  Unheld'
    BY <2>1 DEF CreateProductItemBatch, Unheld, Gone
  <2>2. ASSUME NEW i \in Items, NEW v \in Variants, NEW s \in AdminStatuses,
               UpdateProductItem(i, v, s)
        PROVE  Unheld'
    <3>1. s \notin {"IN_STORAGE"} \cup Gone
      BY InventoryAssumption DEF NoManualRestock, Status, Gone, Absent, Deleted
    <3> QED
      BY <1>t, <2>2, <3>1 DEF UpdateProductItem, Unheld, TypeOK
  <2>3. ASSUME NEW i \in Items, DeleteProductItem(i)
        PROVE  Unheld'
    BY <1>t, <2>3 DEF DeleteProductItem, Unheld, TypeOK
  <2>4. ASSUME NEW v \in Variants, NEW n, NEW o \in Orders,
               ReserveProductItemBatch(v, n, o)
        PROVE  Unheld'
    BY <1>2, <2>4 DEF ReserveProductItemBatch
  <2>5. ASSUME NEW v \in Variants, ProductVariantCreated(v)
        PROVE  Unheld'
    BY <2>5 DEF ProductVariantCreated, Unheld
  <2> QED
    BY <1>5, <2>1, <2>2, <2>3, <2>4, <2>5 DEF Admin
<1>6. CASE UNCHANGED vars
  BY <1>1, <1>6 DEF vars, itemVars
<1> QED
  BY <1>1, <1>2, <1>3, <1>4, <1>5, <1>6, WhoWritesItems

LEMMA InitUnheld == Init => Unheld
BY DEF Init, Unheld

(* In every execution, of any size and with any redelivery, an item that is *)
(* for sale is held by no order.                                            *)
THEOREM StockUnheld ==
    ASSUME NoManualRestock
    PROVE  Spec => []StockIsUnheld
<1>1. Init => IInv /\ Unheld
  BY InitIInv, InitUnheld
<1>2. IInv /\ Unheld /\ [Next]_vars => (IInv /\ Unheld)'
  BY NextIInv, UnheldStep
<1>3. Unheld => StockIsUnheld
  BY DEF Unheld, StockIsUnheld
<1> QED
  BY <1>1, <1>2, <1>3, PTL DEF Spec

(* No step takes an item from the order that holds it and gives it to       *)
(* another: reservations find only unheld items, however they interleave    *)
(* with the releases.                                                       *)
THEOREM ItemsDoNotChangeHands ==
    ASSUME NoManualRestock
    PROVE  Spec => NoItemChangesHands
<1> DEFINE Keeps == \A i \in Items : orderId[i] # None /\ orderId'[i] # None
                                     => orderId'[i] = orderId[i]
<1>1. Init => IInv /\ Unheld
  BY InitIInv, InitUnheld
<1>2. IInv /\ Unheld /\ [Next]_vars => (IInv /\ Unheld)'
  BY NextIInv, UnheldStep
<1>3. IInv /\ Unheld /\ [Next]_vars => [Keeps]_vars
  <2> SUFFICES ASSUME IInv, Unheld, Next PROVE Keeps
    OBVIOUS
  <2>t. TypeOK
    BY DEF IInv
  <2>1. CASE UNCHANGED itemVars
    BY <2>1 DEF itemVars
  <2>2. ASSUME NEW v, NEW n, NEW o \in Orders, ReserveBatch(v, n, o)
        PROVE  Keeps
    BY <2>t, <2>2, ReserveBatchStep
  <2>3. ASSUME NEW w \in Workers, NEW i \in Items,
               ReleaseOne(w, i) \/ UpdateOne(w, i)
        PROVE  Keeps
    BY <2>t, <2>3 DEF ReleaseOne, UpdateOne, TypeOK
  <2>4. CASE Admin
    BY <2>t, <2>2, <2>4 DEF Admin, CreateProductItemBatch, UpdateProductItem,
       DeleteProductItem, ReserveProductItemBatch, ProductVariantCreated, TypeOK
  <2> QED
    BY <2>1, <2>2, <2>3, <2>4, WhoWritesItems
<1> QED
  BY <1>1, <1>2, <1>3, PTL DEF Spec, NoItemChangesHands

-----------------------------------------------------------------------------
(* UnheldIsStock is kept by every step that starts in a state of the right  *)
(* type: a status is written only where the order id is not None, is set    *)
(* with it, or comes from an employee.                                      *)
LEMMA UnheldIsStockStep ==
    ASSUME IInv, UnheldIsStock, [Next]_vars
    PROVE  UnheldIsStock'
<1>t. TypeOK
  BY DEF IInv
<1>1. CASE UNCHANGED itemVars
  BY <1>1 DEF itemVars, UnheldIsStock
<1>2. ASSUME NEW v, NEW n, NEW o \in Orders, ReserveBatch(v, n, o)
      PROVE  UnheldIsStock'
  <2>1. PICK S \in SUBSET Available(v) : Reserve(S, o)
    BY <1>2 DEF ReserveBatch
  <2>2. \A i \in Items : /\ status'[i] = IF i \in S THEN "RESERVED" ELSE status[i]
                         /\ orderId'[i] = IF i \in S THEN o ELSE orderId[i]
    BY <2>1 DEF Reserve
  <2>3. o # None
    BY InventoryAssumption
  <2> QED
    BY <2>2, <2>3 DEF UnheldIsStock
<1>3. ASSUME NEW w \in Workers, NEW i \in Items, ReleaseOne(w, i)
      PROVE  UnheldIsStock'
  <2>1. status'[i] \in Gone \cup {"IN_STORAGE"}
    BY <1>t, <1>3 DEF ReleaseOne, TypeOK
  <2>2. \A k \in Items \ {i} : status'[k] = status[k] /\ orderId'[k] = orderId[k]
    BY <1>t, <1>3 DEF ReleaseOne, TypeOK
  <2>3. Gone \cap Status = {}
    BY DEF Gone, Absent, Deleted, Status
  <2> QED
    BY <2>1, <2>2, <2>3 DEF UnheldIsStock
<1>4. ASSUME NEW w \in Workers, NEW i \in Items, UpdateOne(w, i)
      PROVE  UnheldIsStock'
  <2>1. job[w].msg.order \in Orders
    BY <1>4 DEF UpdateOne, IInv, MessagesNameOrders
  <2>2. \A k \in Items : /\ orderId'[k] = orderId[k]
                         /\ orderId[k] = None => status'[k] = status[k]
    BY <1>t, <1>4, <2>1, InventoryAssumption DEF UpdateOne, TypeOK
  <2> QED
    BY <2>2 DEF UnheldIsStock
<1>5. CASE Admin
  <2>1. ASSUME NEW v \in Variants, NEW n, CreateProductItemBatch(v, n)
        PROVE  UnheldIsStock'
    BY <2>1 DEF CreateProductItemBatch, UnheldIsStock
  <2>2. ASSUME NEW i \in Items, NEW v \in Variants, NEW s \in AdminStatuses,
               UpdateProductItem(i, v, s)
        PROVE  UnheldIsStock'
    BY <1>t, <2>2 DEF UpdateProductItem, UnheldIsStock, TypeOK
  <2>3. ASSUME NEW i \in Items, DeleteProductItem(i)
        PROVE  UnheldIsStock'
    BY <1>t, <2>3 DEF DeleteProductItem, UnheldIsStock, TypeOK, Deleted, Status
  <2>4. ASSUME NEW v \in Variants, NEW n, NEW o \in Orders,
               ReserveProductItemBatch(v, n, o)
        PROVE  UnheldIsStock'
    BY <1>2, <2>4 DEF ReserveProductItemBatch
  <2>5. ASSUME NEW v \in Variants, ProductVariantCreated(v)
        PROVE  UnheldIsStock'
    BY <2>5 DEF ProductVariantCreated, UnheldIsStock
  <2> QED
    BY <1>5, <2>1, <2>2, <2>3, <2>4, <2>5 DEF Admin
<1>6. CASE UNCHANGED vars
  BY <1>1, <1>6 DEF vars, itemVars
<1> QED
  BY <1>1, <1>2, <1>3, <1>4, <1>5, <1>6, WhoWritesItems

(* No interleaving of releases, status updates, repeated deliveries and     *)
(* mutations strands a unit: an item that no order holds and whose status   *)
(* no employee can have set is for sale, for any number of items, orders    *)
(* and handler calls.                                                       *)
THEOREM NoUnitStranded == Spec => []UnheldIsStock
<1>1. Init => IInv /\ UnheldIsStock
  BY InitIInv DEF Init, UnheldIsStock, Absent, Status
<1>2. IInv /\ UnheldIsStock /\ [Next]_vars => (IInv /\ UnheldIsStock)'
  BY NextIInv, UnheldIsStockStep
<1> QED
  BY <1>1, <1>2, PTL DEF Spec

-----------------------------------------------------------------------------
(* Messages delivered once.  The two properties of inventory_once hold when *)
(* every message is handled once, nothing fails and no employee interferes: *)
(* this is the hypothesis of the theorems below.                            *)
Once == /\ MaxRedeliveries = 0 /\ Faults = FALSE
        /\ AdminNumbers = {} /\ AdminStatuses = {}

Created(o) == Msg("order-created", o)
MovingTopics == {"order-created"} \cup ReleaseTopics
Active(w) == job[w].pc # "idle"
MovesUnits(w) == Active(w) /\ job[w].msg.topic \in MovingTopics

(* No message that reserves or releases is handled twice, and each call     *)
(* does what its topic asks for.                                            *)
HandledOnce ==
    /\ inbox \subseteq sent
    /\ \A m \in sent : m.topic \in MovingTopics => m = Msg(m.topic, m.order)
    /\ \A w \in Workers : MovesUnits(w) => job[w].msg \in sent \ inbox
    /\ \A w, x \in Workers :
          MovesUnits(w) /\ MovesUnits(x) /\ job[w].msg = job[x].msg => w = x
    /\ \A w \in Workers :
          /\ job[w].pc = "reserve" => job[w].msg.topic = "order-created"
          /\ job[w].pc \in {"find", "release"} => job[w].msg.topic \in MovingTopics
          /\ job[w].pc = "update" => job[w].msg.topic \notin MovingTopics

(* An order is answered once, when its order-created call has gone through  *)
(* its lines, and only a successful one is released by a later step.        *)
AnswerHandled(o) ==
    Answered(o, "succeeded") \/ Answered(o, "failed")
       => Created(o) \in sent \ inbox
SuccessIsFinal(o) ==
    Answered(o, "succeeded") =>
       /\ ~Answered(o, "failed")
       /\ \A w \in Workers : Active(w) => job[w].msg # Created(o)
RefusedBeforeRelease(o) ==
    \A w \in Workers : job[w].msg = Created(o) =>
       /\ job[w].pc = "reserve" => ~Answered(o, "failed")
       /\ job[w].pc \in {"find", "release"} => Answered(o, "failed")
ReleasedAfterSuccess(o) ==
    /\ ReleaseSent(o) => Answered(o, "succeeded")
    /\ \A s, t \in ReleaseTopics :
          Msg(s, o) \in sent /\ Msg(t, o) \in sent => s = t

AnsweredOnce ==
    \A o \in Orders : /\ AnswerHandled(o) /\ SuccessIsFinal(o)
                      /\ RefusedBeforeRelease(o) /\ ReleasedAfterSuccess(o)

(* Units are held for a call that reserves them or for an answered success, *)
(* a release frees exactly what is held, and after it nothing is.           *)
HeldByCallOrSuccess(o) ==
    Held(o) # {} => \/ Answered(o, "succeeded")
                    \/ \E w \in Workers : Active(w) /\ job[w].msg = Created(o)
ReleaseIsComplete(o) ==
    \A w \in Workers : job[w].pc = "release" /\ job[w].msg.order = o
                          => job[w].todo = Held(o)
NothingAfterRelease(o) ==
    \A t \in ReleaseTopics :
       /\ Msg(t, o) \in sent \ inbox
       /\ \A w \in Workers : Active(w) => job[w].msg # Msg(t, o)
       => Held(o) = {}

HeldForAReason ==
    \A o \in Orders : /\ HeldByCallOrSuccess(o) /\ ReleaseIsComplete(o)
                      /\ NothingAfterRelease(o)

OnceInv == IInv /\ Unheld /\ HandledOnce /\ AnsweredOnce /\ HeldForAReason

LEMMA CreatedMoves ==
    ASSUME NEW o
    PROVE  Created(o).topic \in MovingTopics /\ Created(o).order = o
BY DEF Created, Msg, MovingTopics

(* Different topics or orders, different messages.                          *)
LEMMA MsgInjective ==
    ASSUME NEW s, NEW t, NEW o, NEW p
    PROVE  Msg(s, o) = Msg(t, p) <=> s = t /\ o = p
BY DEF Msg

(* A message joins the inbox: a new one, or one that moves no units.        *)
Joins(m) == Send(m) \/ (SendAgain(m) /\ m.topic \notin MovingTopics)

LEMMA JoiningMessage ==
    ASSUME NEW m, Joins(m)
    PROVE  /\ sent' = sent \cup {m} /\ inbox' = inbox \cup {m}
           /\ m.topic \in MovingTopics => m \notin sent
           /\ UNCHANGED <<status, variant, orderId, variants, job, results,
                          redeliveries>>
BY DEF Joins, Send, SendAgain

(* What the environment adds: a message never sent before, if it moves      *)
(* units; a release only of a successful order, and only the first one.     *)
LEMMA WhatIsSent ==
    ASSUME IInv, Environment
    PROVE  \E m \in Message :
              /\ Joins(m)
              /\ m.topic \in MovingTopics =>
                    m.order \in Orders /\ m = Msg(m.topic, m.order)
              /\ m.topic \in ReleaseTopics =>
                    /\ Answered(m.order, "succeeded")
                    /\ \A t \in ReleaseTopics :
                          t # m.topic => Msg(t, m.order) \notin sent
<1>s. ASSUME NEW m, Send(m) PROVE Joins(m)
  BY <1>s DEF Joins
<1>1. ASSUME NEW o \in Orders, OrderPlaced(o)
      PROVE  Send(Msg("order-created", o))
  BY <1>1 DEF OrderPlaced
<1>2. ASSUME NEW o \in Orders, SagaContinues(o)
      PROVE  \E t \in {"payment-enabled"} \cup ReleaseTopics :
                /\ Send(Msg(t, o))
                /\ Answered(o, "succeeded")
                /\ t \in ReleaseTopics => \A s \in ReleaseTopics :
                      s # t => Msg(s, o) \notin sent
  BY <1>2 DEF SagaContinues, Answered, ReleaseTopics
<1>3. ASSUME NEW o \in Orders, ShipmentContinues(o)
      PROVE  \E m \in Message : Joins(m) /\ m.topic \notin MovingTopics
  <2>1. CASE Send(Msg("shipment-created", o))
    BY <1>s, <2>1, MsgType DEF Topics, MovingTopics, ReleaseTopics
  <2>2. ASSUME NEW s \in ShipmentStatuses,
               Send([topic |-> "status-updated", order |-> o, status |-> s])
        PROVE  \E m \in Message : Joins(m) /\ m.topic \notin MovingTopics
    <3>1. [topic |-> "status-updated", order |-> o, status |-> s] \in Message
      BY DEF Message, Topics
    <3> QED
      BY <1>s, <2>2, <3>1 DEF MovingTopics, ReleaseTopics
  <2>3. ASSUME NEW m \in sent, SendAgain(m)
        PROVE  m \in Message /\ Joins(m) /\ m.topic \notin MovingTopics
    BY <2>3, InventoryAssumption
       DEF IInv, TypeOK, Joins, SendAgain, MovingTopics, ReleaseTopics
  <2> QED
    BY <1>3, <2>1, <2>2, <2>3 DEF ShipmentContinues
<1>4. CASE \E o \in Orders : OrderPlaced(o)
  BY <1>s, <1>4, <1>1, MsgType DEF Topics, MovingTopics, ReleaseTopics
<1>5. CASE \E o \in Orders : SagaContinues(o)
  <2>1. PICK o \in Orders, t \in {"payment-enabled"} \cup ReleaseTopics :
                /\ Send(Msg(t, o))
                /\ Answered(o, "succeeded")
                /\ t \in ReleaseTopics => \A s \in ReleaseTopics :
                      s # t => Msg(s, o) \notin sent
    BY <1>5, <1>2
  <2>2. Msg(t, o) \in Message /\ Msg(t, o).order = o /\ Msg(t, o).topic = t
    BY MsgType DEF Topics
  <2> QED
    BY <1>s, <2>1, <2>2
<1>6. CASE \E o \in Orders : ShipmentContinues(o)
  BY <1>6, <1>3 DEF MovingTopics
<1>7. CASE ReturnShipped
  BY <1>s, <1>7, MsgType DEF ReturnShipped, Topics, MovingTopics, ReleaseTopics
<1> QED
  BY <1>4, <1>5, <1>6, <1>7 DEF Environment

(* What a delivery does when there are no redeliveries: the message leaves  *)
(* the inbox, and a call starts that does what the topic asks for.          *)
Starts(w, m, j) ==
    /\ job[w].pc = "idle" /\ m \in inbox
    /\ inbox' = inbox \ {m}
    /\ job' = [job EXCEPT ![w] = j]
    /\ UNCHANGED <<status, variant, orderId, variants, sent, results>>
    /\ \/ j.pc = "idle" /\ m.topic \notin MovingTopics
       \/ j.pc = "update" /\ j.msg = m /\ m.topic \notin MovingTopics
       \/ j.pc = "find" /\ j.msg = m /\ m.topic \in ReleaseTopics
       \/ /\ j.pc = "reserve" /\ j.msg = m /\ m.topic = "order-created"
          /\ j.line = 1 /\ ~j.failed

LEMMA HandleStarts ==
    ASSUME Once, IInv, NEW w \in Workers, Handle(w)
    PROVE  \E m \in inbox, j \in Job : Starts(w, m, j)
<1>1. PICK m \in inbox :
          \/ OrderCreated(w, m) \/ PaymentEnabled(w, m) \/ PaymentFailed(w, m)
          \/ DiscountValidationFailed(w, m) \/ ShipmentCreated(w, m)
          \/ ShipmentStatusUpdated(w, m)
  BY DEF Handle
<1>2. m \in Message
  BY DEF IInv, TypeOK
<1>3. ASSUME NEW j, Accept(w, m, j)
      PROVE  /\ job[w].pc = "idle" /\ inbox' = inbox \ {m}
             /\ job' = [job EXCEPT ![w] = j]
             /\ UNCHANGED <<status, variant, orderId, variants, sent, results>>
  BY <1>3 DEF Accept, Once, IInv, TypeOK
<1>4. NewJob("reserve", m, {}).line = 1 /\ ~NewJob("reserve", m, {}).failed
  BY DEF NewJob
<1>5. CASE OrderCreated(w, m)
  BY <1>2, <1>3, <1>4, <1>5, NewJobType DEF OrderCreated, Starts
<1>6. CASE PaymentEnabled(w, m)
  BY <1>2, <1>3, <1>6, NewJobType
     DEF PaymentEnabled, Starts, MovingTopics, ReleaseTopics
<1>7. CASE PaymentFailed(w, m) \/ DiscountValidationFailed(w, m)
  BY <1>2, <1>3, <1>7, NewJobType
     DEF PaymentFailed, DiscountValidationFailed, Starts, ReleaseTopics
<1>8. CASE ShipmentCreated(w, m) \/ ShipmentStatusUpdated(w, m)
  <2>1. m.topic \notin MovingTopics
    BY <1>8 DEF ShipmentCreated, ShipmentStatusUpdated, MovingTopics, ReleaseTopics
  <2>2. Accept(w, m, IdleJob) \/ Accept(w, m, NewJob("update", m, Items))
    BY <1>8 DEF ShipmentCreated, ShipmentStatusUpdated
  <2> QED
    BY <1>2, <1>3, <2>1, <2>2, NewJobType, IdleJobType DEF Starts
<1> QED
  BY <1>1, <1>5, <1>6, <1>7, <1>8

(* The steps of Once: nothing fails, nobody interferes.                     *)
LEMMA OnceSteps ==
    ASSUME Once, IInv, Next
    PROVE  \/ Environment
           \/ \E w \in Workers, m \in inbox, j \in Job : Starts(w, m, j)
           \/ \E w \in Workers : Work(w) /\ ~ReleaseFails(w)
<1>1. ~Admin
  BY DEF Once, Admin
<1>2. \A w \in Workers : ~HandlerFails(w)
  BY DEF Once, HandlerFails, IInv, TypeOK
<1>3. \A w \in Workers : ~ReleaseFails(w)
  BY DEF Once, ReleaseFails
<1> QED
  BY <1>1, <1>2, <1>3, HandleStarts DEF Next

(* A call goes on with the message it has, or ends.                         *)
LEMMA WorkGoesOn ==
    ASSUME IInv, NEW w \in Workers, Work(w)
    PROVE  /\ UNCHANGED <<variants, inbox, sent>> /\ Active(w)
           /\ \E j \in Job :
                 /\ job' = [job EXCEPT ![w] = j]
                 /\ \/ j.pc = "idle"
                    \/ /\ j.msg = job[w].msg
                       /\ \/ j.pc = job[w].pc
                          \/ /\ job[w].pc = "reserve" /\ j.pc = "find"
                             /\ PublishReservationFailed(w)
                          \/ job[w].pc = "find" /\ j.pc = "release"
<1> DEFINE j == job[w]
<1>1. j \in Job
  BY DEF IInv, TypeOK
<1>2. UNCHANGED <<variants, inbox, sent>> /\ Active(w)
  BY DEF Work, ReserveLine, PublishReservationSucceeded, PublishReservationFailed,
         ReleaseFind, ReleaseFails, ReleaseOne, UpdateOne, Active
<1>3. CASE ReserveLine(w)
  <2>a. j.line + 1 \in Nat
    BY <1>1 DEF Job
  <2>b. \A n \in Nat : /\ [j EXCEPT !.line = n] \in Job
                       /\ [j EXCEPT !.line = n].msg = j.msg
                       /\ [j EXCEPT !.line = n].pc = j.pc
    BY <1>1 DEF Job
  <2>c. \A n \in Nat : [j EXCEPT !.line = n, !.failed = TRUE] \in Job
    BY <1>1, Zenon DEF Job
  <2>d. \A n \in Nat : /\ [j EXCEPT !.line = n, !.failed = TRUE].msg = j.msg
                       /\ [j EXCEPT !.line = n, !.failed = TRUE].pc = j.pc
    BY <1>1 DEF Job
  <2>e. \/ job' = [job EXCEPT ![w] = [j EXCEPT !.line = j.line + 1]]
        \/ job' = [job EXCEPT ![w] = [j EXCEPT !.line = j.line + 1, !.failed = TRUE]]
    BY <1>3 DEF ReserveLine, Goto
  <2> QED
    BY <1>2, <2>a, <2>b, <2>c, <2>d, <2>e
<1>4. CASE PublishReservationSucceeded(w) \/ ReleaseFails(w)
  BY <1>2, <1>4, IdleJobType DEF PublishReservationSucceeded, ReleaseFails, Done, Goto
<1>5. CASE PublishReservationFailed(w)
  <2>1. /\ [j EXCEPT !.pc = "find"] \in Job
        /\ [j EXCEPT !.pc = "find"].msg = j.msg
        /\ [j EXCEPT !.pc = "find"].pc = "find"
    BY <1>1 DEF Job
  <2>2. job[w].pc = "reserve" /\ job' = [job EXCEPT ![w] = [j EXCEPT !.pc = "find"]]
    BY <1>5 DEF PublishReservationFailed, Goto
  <2> QED
    BY <1>2, <1>5, <2>1, <2>2
<1>6. CASE ReleaseFind(w)
  <2>1. \A ids \in SUBSET Items :
           /\ [j EXCEPT !.pc = "release", !.todo = ids] \in Job
           /\ [j EXCEPT !.pc = "release", !.todo = ids].msg = j.msg
           /\ [j EXCEPT !.pc = "release", !.todo = ids].pc = "release"
    BY <1>1 DEF Job
  <2>2. \/ job' = [job EXCEPT ![w] = IdleJob]
        \/ \E ids \in SUBSET Items :
              job' = [job EXCEPT ![w] = [j EXCEPT !.pc = "release", !.todo = ids]]
    BY <1>6 DEF ReleaseFind, Done, Goto
  <2>3. j.pc = "find"
    BY <1>6 DEF ReleaseFind
  <2> QED
    BY <1>2, <2>1, <2>2, <2>3, IdleJobType
<1>7. ASSUME NEW i \in Items, ReleaseOne(w, i) \/ UpdateOne(w, i)
      PROVE  \/ job' = [job EXCEPT ![w] = IdleJob]
             \/ \E ids \in SUBSET Items :
                   job' = [job EXCEPT ![w] = [j EXCEPT !.todo = ids]]
  <2>1. j.todo \ {i} \in SUBSET Items
    BY <1>1 DEF Job
  <2> QED
    BY <1>7, <2>1 DEF ReleaseOne, UpdateOne, Done, Goto
<1>8. \A ids \in SUBSET Items : /\ [j EXCEPT !.todo = ids] \in Job
                                /\ [j EXCEPT !.todo = ids].msg = j.msg
                                /\ [j EXCEPT !.todo = ids].pc = j.pc
  BY <1>1 DEF Job
<1>9. CASE \E i \in Items : ReleaseOne(w, i) \/ UpdateOne(w, i)
  BY <1>2, <1>7, <1>8, <1>9, IdleJobType
<1> QED
  BY <1>3, <1>4, <1>5, <1>6, <1>9 DEF Work

LEMMA HandledOnceStep ==
    ASSUME Once, IInv, HandledOnce, Next
    PROVE  HandledOnce'
<1>t. job \in [Workers -> Job]
  BY DEF IInv, TypeOK
<1>1. CASE Environment
  <2>1. PICK m \in Message :
              /\ Joins(m)
              /\ m.topic \in MovingTopics => m = Msg(m.topic, m.order)
    BY <1>1, WhatIsSent
  <2>2. /\ m.topic \in MovingTopics => m \notin sent
        /\ sent' = sent \cup {m} /\ inbox' = inbox \cup {m} /\ job' = job
    BY <2>1, JoiningMessage
  <2> QED
    BY <2>1, <2>2 DEF HandledOnce, MovesUnits, Active
<1>2. ASSUME NEW w \in Workers, NEW m \in inbox, NEW j \in Job, Starts(w, m, j)
      PROVE  HandledOnce'
  <2>1. /\ inbox' = inbox \ {m} /\ sent' = sent
        /\ job'[w] = j /\ \A x \in Workers \ {w} : job'[x] = job[x]
    BY <1>2, <1>t DEF Starts
  <2>2. /\ j.pc # "idle" => j.msg = m
        /\ j.pc = "reserve" => m.topic = "order-created"
        /\ j.pc \in {"find", "release"} => m.topic \in MovingTopics
        /\ j.pc = "update" => m.topic \notin MovingTopics
    BY <1>2 DEF Starts, MovingTopics
  <2>3. m.topic \in MovingTopics =>
           \A x \in Workers : job[x].pc # "idle" => job[x].msg # m
    BY DEF HandledOnce, MovesUnits, Active
  <2> QED
    BY <2>1, <2>2, <2>3 DEF HandledOnce, MovesUnits, Active
<1>3. ASSUME NEW w \in Workers, Work(w)
      PROVE  HandledOnce'
  <2>1. PICK j \in Job :
                 /\ job' = [job EXCEPT ![w] = j]
                 /\ \/ j.pc = "idle"
                    \/ /\ j.msg = job[w].msg
                       /\ \/ j.pc = job[w].pc
                          \/ /\ job[w].pc = "reserve" /\ j.pc = "find"
                             /\ PublishReservationFailed(w)
                          \/ job[w].pc = "find" /\ j.pc = "release"
    BY <1>3, WorkGoesOn
  <2>2. job'[w] = j /\ \A x \in Workers \ {w} : job'[x] = job[x]
    BY <1>t, <2>1
  <2>3. UNCHANGED <<inbox, sent>> /\ Active(w)
    BY <1>3, WorkGoesOn
  <2> QED
    BY <2>1, <2>2, <2>3 DEF HandledOnce, MovesUnits, Active, MovingTopics
<1> QED
  BY <1>1, <1>2, <1>3, OnceSteps

(* The call that handles an order-created message, and its state, seen from *)
(* its place in the handler.                                                *)
LEMMA ReservingCall ==
    ASSUME IInv, HandledOnce, NEW w \in Workers, job[w].pc = "reserve"
    PROVE  /\ job[w].msg.order \in Orders
           /\ job[w].msg = Created(job[w].msg.order)
           /\ job[w].msg \in sent \ inbox
BY DEF IInv, MessagesNameOrders, HandledOnce, MovesUnits, Active, MovingTopics, Created

LEMMA AnsweredOnceStep ==
    ASSUME Once, IInv, HandledOnce, AnsweredOnce, Next, NEW o \in Orders
    PROVE  /\ AnswerHandled(o)' /\ SuccessIsFinal(o)'
           /\ RefusedBeforeRelease(o)' /\ ReleasedAfterSuccess(o)'
<1>t. job \in [Workers -> Job]
  BY DEF IInv, TypeOK
<1>i. /\ AnswerHandled(o) /\ SuccessIsFinal(o)
      /\ RefusedBeforeRelease(o) /\ ReleasedAfterSuccess(o)
  BY DEF AnsweredOnce
<1>1. CASE Environment
  <2>1. PICK m \in Message :
              /\ Joins(m)
              /\ m.topic \in MovingTopics =>
                    m.order \in Orders /\ m = Msg(m.topic, m.order)
              /\ m.topic \in ReleaseTopics =>
                    /\ Answered(m.order, "succeeded")
                    /\ \A t \in ReleaseTopics :
                          t # m.topic => Msg(t, m.order) \notin sent
    BY <1>1, WhatIsSent
  <2>2. /\ m.topic \in MovingTopics => m \notin sent
        /\ sent' = sent \cup {m} /\ inbox' = inbox \cup {m}
        /\ job' = job /\ results' = results
    BY <2>1, JoiningMessage
  <2>3. \A t : m = Msg(t, o) => m.topic = t /\ m.order = o
    BY DEF Msg
  <2>4. AnswerHandled(o)'
    BY <1>i, <2>2, <2>3 DEF AnswerHandled, Answered, Created, MovingTopics
  <2>5. SuccessIsFinal(o)' /\ RefusedBeforeRelease(o)'
    BY <1>i, <2>2 DEF SuccessIsFinal, RefusedBeforeRelease, Answered, Active
  <2>6. ReleasedAfterSuccess(o)'
    BY <1>i, <2>1, <2>2, <2>3 DEF ReleasedAfterSuccess, ReleaseSent, Answered
  <2> QED
    BY <2>4, <2>5, <2>6
<1>2. ASSUME NEW w \in Workers, NEW m \in inbox, NEW j \in Job, Starts(w, m, j)
      PROVE  /\ AnswerHandled(o)' /\ SuccessIsFinal(o)'
             /\ RefusedBeforeRelease(o)' /\ ReleasedAfterSuccess(o)'
  <2>1. /\ inbox' = inbox \ {m} /\ sent' = sent /\ results' = results
        /\ job'[w] = j /\ \A x \in Workers \ {w} : job'[x] = job[x]
    BY <1>2, <1>t DEF Starts
  <2>2. m = Created(o) => ~Answered(o, "succeeded") /\ ~Answered(o, "failed")
    BY <1>i DEF AnswerHandled
  <2>3. j.pc # "idle" /\ j.msg = Created(o) => j.pc = "reserve" /\ m = Created(o)
    BY <1>2 DEF Starts, Created, MovingTopics, ReleaseTopics, Msg
  <2>4. AnswerHandled(o)'
    BY <1>i, <2>1 DEF AnswerHandled, Answered
  <2>5. SuccessIsFinal(o)'
    BY <1>i, <2>1, <2>2, <2>3 DEF SuccessIsFinal, Answered, Active
  <2>6. RefusedBeforeRelease(o)'
    BY <1>i, <2>1, <2>2, <2>3 DEF RefusedBeforeRelease, Answered
  <2>7. ReleasedAfterSuccess(o)'
    BY <1>i, <2>1 DEF ReleasedAfterSuccess, ReleaseSent, Answered
  <2> QED
    BY <2>4, <2>5, <2>6, <2>7
<1>3. ASSUME NEW w \in Workers, Work(w)
      PROVE  /\ AnswerHandled(o)' /\ SuccessIsFinal(o)'
             /\ RefusedBeforeRelease(o)' /\ ReleasedAfterSuccess(o)'
  <2>1. PICK j \in Job :
                 /\ job' = [job EXCEPT ![w] = j]
                 /\ \/ j.pc = "idle"
                    \/ /\ j.msg = job[w].msg
                       /\ \/ j.pc = job[w].pc
                          \/ /\ job[w].pc = "reserve" /\ j.pc = "find"
                             /\ PublishReservationFailed(w)
                          \/ job[w].pc = "find" /\ j.pc = "release"
    BY <1>3, WorkGoesOn
  <2>2. job'[w] = j /\ \A x \in Workers \ {w} : job'[x] = job[x]
    BY <1>t, <2>1
  <2>3. UNCHANGED <<inbox, sent>> /\ Active(w)
    BY <1>3, WorkGoesOn
  <2>4. CASE UNCHANGED results /\ ~PublishReservationFailed(w)
    <3>1. AnswerHandled(o)' /\ ReleasedAfterSuccess(o)'
      BY <1>i, <2>3, <2>4 DEF AnswerHandled, ReleasedAfterSuccess, ReleaseSent, Answered
    <3>2. SuccessIsFinal(o)'
      BY <1>i, <2>1, <2>2, <2>3, <2>4 DEF SuccessIsFinal, Answered, Active
    <3>3. RefusedBeforeRelease(o)'
      BY <1>i, <2>1, <2>2, <2>3, <2>4 DEF RefusedBeforeRelease, Answered
    <3> QED
      BY <3>1, <3>2, <3>3
  <2>5. CASE PublishReservationSucceeded(w)
    <3> DEFINE p == job[w].msg.order
    <3>1. job[w].pc = "reserve" /\ j.pc = "idle"
          /\ results' = results \cup {[result |-> "succeeded", order |-> p]}
      BY <1>t, <2>1, <2>2, <2>5, IdleJobType
         DEF PublishReservationSucceeded, Publish, Once, Done, Goto
    <3>2. p \in Orders /\ job[w].msg = Created(p) /\ job[w].msg \in sent \ inbox
      BY <3>1, ReservingCall
    <3>3. ~Answered(p, "failed")
      BY <3>1, <3>2 DEF AnsweredOnce, RefusedBeforeRelease
    <3>4. \A x \in Workers : job'[x].pc # "idle" => job'[x].msg # Created(p)
      BY <2>1, <2>2, <3>1, <3>2, CreatedMoves DEF HandledOnce, MovesUnits, Active
    <3>5. /\ Answered(o, "succeeded")' <=> Answered(o, "succeeded") \/ o = p
          /\ Answered(o, "failed")' <=> Answered(o, "failed")
      BY <3>1 DEF Answered
    <3> HIDE DEF p
    <3>6. AnswerHandled(o)' /\ ReleasedAfterSuccess(o)'
      BY <1>i, <2>3, <3>2, <3>5 DEF AnswerHandled, ReleasedAfterSuccess, ReleaseSent
    <3>7. SuccessIsFinal(o)'
      BY <1>i, <2>1, <2>2, <3>1, <3>3, <3>4, <3>5 DEF SuccessIsFinal, Active
    <3>8. RefusedBeforeRelease(o)'
      BY <1>i, <2>2, <3>1, <3>5 DEF RefusedBeforeRelease
    <3> QED
      BY <3>6, <3>7, <3>8
  <2>6. CASE PublishReservationFailed(w)
    <3> DEFINE p == job[w].msg.order
    <3>0. results' = results \cup {[result |-> "failed", order |-> p]}
          /\ job[w].pc = "reserve"
      BY <2>6 DEF PublishReservationFailed, Publish, Once
    <3>1. j.pc = "find"
      <4>1. j = [job[w] EXCEPT !.pc = "find"]
        BY <1>t, <2>2, <2>6 DEF PublishReservationFailed, Goto
      <4> QED
        BY <1>t, <4>1 DEF Job
    <3>2. p \in Orders /\ job[w].msg = Created(p) /\ job[w].msg \in sent \ inbox
      BY <3>0, ReservingCall
    <3>3. ~Answered(p, "succeeded")
      BY <2>3, <3>2 DEF AnsweredOnce, SuccessIsFinal
    <3>4. \A x \in Workers \ {w} : job[x].pc # "idle" => job[x].msg # Created(p)
      BY <2>3, <3>0, <3>2, CreatedMoves DEF HandledOnce, MovesUnits, Active
    <3>5. /\ Answered(o, "succeeded")' <=> Answered(o, "succeeded")
          /\ Answered(o, "failed")' <=> Answered(o, "failed") \/ o = p
      BY <3>0 DEF Answered
    <3>6. o # p => job[w].msg # Created(o)
      BY <3>2 DEF Created, Msg
    <3> HIDE DEF p
    <3>7. AnswerHandled(o)' /\ ReleasedAfterSuccess(o)'
      BY <1>i, <2>3, <3>2, <3>5 DEF AnswerHandled, ReleasedAfterSuccess, ReleaseSent
    <3>8. SuccessIsFinal(o)'
      BY <1>i, <2>1, <2>2, <2>3, <3>3, <3>5 DEF SuccessIsFinal, Active
    <3>9. RefusedBeforeRelease(o)'
      BY <1>i, <2>1, <2>2, <3>1, <3>4, <3>5, <3>6 DEF RefusedBeforeRelease
    <3> QED
      BY <3>7, <3>8, <3>9
  <2>7. UNCHANGED results \/ PublishReservationSucceeded(w) \/ PublishReservationFailed(w)
    BY <1>3 DEF Work, ReserveLine, ReleaseFind, ReleaseFails, ReleaseOne, UpdateOne
  <2> QED
    BY <2>4, <2>5, <2>6, <2>7
<1> QED
  BY <1>1, <1>2, <1>3, OnceSteps


Moves(w) == job[w].pc \in {"reserve", "find", "release"}

(* At any time at most one call moves units of an order: the release of an  *)
(* order is published after its success, and the success ends the call that *)
(* reserves.                                                                *)
LEMMA OneAtATime ==
    ASSUME IInv, HandledOnce, AnsweredOnce, NEW w \in Workers, NEW x \in Workers,
           Moves(w), Moves(x), job[w].msg.order = job[x].msg.order
    PROVE  w = x
<1> DEFINE o == job[w].msg.order
<1>1. Active(w) /\ Active(x)
  BY DEF Moves, Active
<1>2. o \in Orders
  BY <1>1 DEF IInv, MessagesNameOrders, Active
<1>3. /\ job[w].msg.topic \in MovingTopics /\ job[x].msg.topic \in MovingTopics
      /\ job[w].msg \in sent /\ job[x].msg \in sent
  BY <1>1 DEF Moves, HandledOnce, MovesUnits, MovingTopics
<1>4. job[w].msg = Msg(job[w].msg.topic, o) /\ job[x].msg = Msg(job[x].msg.topic, o)
  BY <1>3 DEF HandledOnce
<1> HIDE DEF o
<1>5. ReleaseSent(o) => \A y \in Workers : Active(y) => job[y].msg # Created(o)
  BY <1>2 DEF AnsweredOnce, ReleasedAfterSuccess, SuccessIsFinal
<1>6. job[w].msg.topic = job[x].msg.topic
  BY <1>1, <1>2, <1>3, <1>4, <1>5
     DEF AnsweredOnce, ReleasedAfterSuccess, ReleaseSent, MovingTopics, Created
<1> QED
  BY <1>1, <1>3, <1>4, <1>6 DEF HandledOnce, MovesUnits

(* Steps of a call that reserve nothing for order o: what o holds shrinks   *)
(* at most, and the call that frees it knows what is left.                  *)
LEMMA CallKeepsReasons ==
    ASSUME IInv, NEW o \in Orders, NEW w \in Workers, NEW j \in Job,
           HeldByCallOrSuccess(o), ReleaseIsComplete(o), NothingAfterRelease(o),
           job' = [job EXCEPT ![w] = j], UNCHANGED <<inbox, sent>>,
           Answered(o, "succeeded") => Answered(o, "succeeded")',
           Held(o)' \subseteq Held(o),
           \A x \in Workers \ {w} : job[x].pc = "release" /\ job[x].msg.order = o
                                       => Held(o)' = Held(o),
           j.pc = "release" /\ j.msg.order = o => j.todo = Held(o)',
           \/ j.pc # "idle" /\ j.msg = job[w].msg
           \/ j.pc = "idle" /\ \A t \in MovingTopics : job[w].msg # Msg(t, o)
           \/ j.pc = "idle" /\ Answered(o, "succeeded")' /\ job[w].pc = "reserve"
              /\ job[w].msg = Created(o)
           \/ j.pc = "idle" /\ Held(o)' = {}
    PROVE  /\ HeldByCallOrSuccess(o)' /\ ReleaseIsComplete(o)'
           /\ NothingAfterRelease(o)'
<1>1. job'[w] = j /\ \A x \in Workers \ {w} : job'[x] = job[x]
  BY DEF IInv, TypeOK
<1>2. ReleaseIsComplete(o)'
  BY <1>1 DEF ReleaseIsComplete
<1>3. HeldByCallOrSuccess(o)'
  BY <1>1 DEF HeldByCallOrSuccess, Active, Created, MovingTopics
<1>4. NothingAfterRelease(o)'
  <2> SUFFICES ASSUME NEW t \in ReleaseTopics, Msg(t, o) \in sent \ inbox,
                      \A x \in Workers : job'[x].pc # "idle" => job'[x].msg # Msg(t, o)
               PROVE  Held(o)' = {}
    BY DEF NothingAfterRelease, Active
  <2>1. Created(o) # Msg(t, o)
    BY DEF Created, Msg, ReleaseTopics
  <2>2. CASE Held(o)' = {}
    BY <2>2
  <2>3. CASE Held(o)' # {}
    <3>1. job[w].pc # "idle" => job[w].msg # Msg(t, o)
      BY <1>1, <2>1, <2>3 DEF MovingTopics
    <3>2. \A x \in Workers : job[x].pc # "idle" => job[x].msg # Msg(t, o)
      BY <1>1, <3>1
    <3> QED
      BY <3>2 DEF NothingAfterRelease, Active
  <2> QED
    BY <2>2, <2>3
<1> QED
  BY <1>2, <1>3, <1>4

(* A reservation adds unheld units to one order and touches no other.       *)
LEMMA ReserveBatchHolds ==
    ASSUME TypeOK, Unheld, NEW v, NEW n, NEW p \in Orders, ReserveBatch(v, n, p)
    PROVE  \E S \in SUBSET Available(v) :
              /\ Cardinality(S) = Found(v, n) /\ Found(v, n) >= n
              /\ Held(p)' = Held(p) \cup S /\ Held(p) \cap S = {}
              /\ variant' = variant
              /\ \A o \in Orders \ {p} : Held(o)' = Held(o)
<1>1. PICK S \in SUBSET Available(v) : Cardinality(S) = Found(v, n) /\ Reserve(S, p)
  BY DEF ReserveBatch
<1>2. \A i \in S : i \in Items /\ orderId[i] = None
  BY DEF Available, Unheld
<1>3. \A i \in Items : orderId'[i] = IF i \in S THEN p ELSE orderId[i]
  BY <1>1 DEF Reserve
<1>4. None \notin Orders
  BY InventoryAssumption
<1>5. Held(p)' = Held(p) \cup S /\ Held(p) \cap S = {}
  BY <1>2, <1>3, <1>4 DEF Held
<1>6. \A o \in Orders \ {p} : Held(o)' = Held(o)
  BY <1>2, <1>3, <1>4 DEF Held
<1> QED
  BY <1>1, <1>5, <1>6 DEF Reserve, ReserveBatch

LEMMA HeldForAReasonStep ==
    ASSUME Once, OnceInv, Next, NEW o \in Orders
    PROVE  /\ HeldByCallOrSuccess(o)' /\ ReleaseIsComplete(o)'
           /\ NothingAfterRelease(o)'
<1>inv. IInv /\ TypeOK /\ Unheld /\ HandledOnce /\ AnsweredOnce
  BY DEF OnceInv, IInv
<1>t. job \in [Workers -> Job]
  BY <1>inv DEF TypeOK
<1>i. HeldByCallOrSuccess(o) /\ ReleaseIsComplete(o) /\ NothingAfterRelease(o)
  BY DEF OnceInv, HeldForAReason
<1>1. CASE Environment
  <2>1. PICK m \in Message : Joins(m)
    BY <1>1, <1>inv, WhatIsSent
  <2>2. /\ UNCHANGED <<orderId, job, results>>
        /\ \A t \in ReleaseTopics :
              Msg(t, o) \in (sent \ inbox)' => Msg(t, o) \in sent \ inbox
    BY <2>1, JoiningMessage
  <2> QED
    BY <1>i, <2>2 DEF HeldByCallOrSuccess, ReleaseIsComplete, NothingAfterRelease,
                      Held, Answered, Active
<1>2. ASSUME NEW w \in Workers, NEW m \in inbox, NEW j \in Job, Starts(w, m, j)
      PROVE  /\ HeldByCallOrSuccess(o)' /\ ReleaseIsComplete(o)'
             /\ NothingAfterRelease(o)'
  <2>1. /\ inbox' = inbox \ {m} /\ UNCHANGED <<orderId, sent, results>>
        /\ job'[w] = j /\ job[w].pc = "idle" /\ j.pc # "release"
        /\ \A x \in Workers \ {w} : job'[x] = job[x]
    BY <1>2, <1>t DEF Starts
  <2>2. HeldByCallOrSuccess(o)' /\ ReleaseIsComplete(o)'
    BY <1>i, <2>1 DEF HeldByCallOrSuccess, ReleaseIsComplete, Held, Answered, Active
  <2>3. ASSUME NEW t \in ReleaseTopics, m = Msg(t, o)
        PROVE  j.pc # "idle" /\ j.msg = m
    <3>1. m.topic = t
      BY <2>3 DEF Msg
    <3> QED
      BY <1>2, <3>1 DEF Starts, MovingTopics
  <2>4. NothingAfterRelease(o)'
    BY <1>i, <2>1, <2>3 DEF NothingAfterRelease, Held, Active
  <2> QED
    BY <2>2, <2>4
<1>3. ASSUME NEW w \in Workers, Work(w), ~ReleaseFails(w)
      PROVE  /\ HeldByCallOrSuccess(o)' /\ ReleaseIsComplete(o)'
             /\ NothingAfterRelease(o)'
  <2>p. PICK p \in Orders : p = job[w].msg.order
    BY <1>3, <1>inv, WorkGoesOn DEF IInv, MessagesNameOrders, Active
  <2>1. PICK j \in Job :
                 /\ job' = [job EXCEPT ![w] = j]
                 /\ \/ j.pc = "idle"
                    \/ /\ j.msg = job[w].msg
                       /\ \/ j.pc = job[w].pc
                          \/ /\ job[w].pc = "reserve" /\ j.pc = "find"
                             /\ PublishReservationFailed(w)
                          \/ job[w].pc = "find" /\ j.pc = "release"
    BY <1>3, <1>inv, WorkGoesOn
  <2>2. /\ job'[w] = j /\ UNCHANGED <<inbox, sent>> /\ Active(w)
        /\ \A x \in Workers \ {w} : job'[x] = job[x]
    BY <1>3, <1>t, <1>inv, <2>1, WorkGoesOn
  <2>k. job[w] \in Job
    BY <1>t
  <2>3. o # p => \A t \in MovingTopics : job[w].msg # Msg(t, o)
    BY <2>p DEF Msg
  <2>4. Moves(w) => \A x \in Workers \ {w} :
                       ~(job[x].pc = "release" /\ job[x].msg.order = p)
    BY <2>p, <1>inv, OneAtATime DEF Moves
  <2>a. CASE ReserveLine(w) /\ UNCHANGED itemVars
    <3>1. j.pc = "reserve" /\ j.msg = job[w].msg /\ results' = results
      <4>1. \/ j = [job[w] EXCEPT !.line = job[w].line + 1]
            \/ j = [job[w] EXCEPT !.line = job[w].line + 1, !.failed = TRUE]
        BY <1>t, <2>a, <2>2 DEF ReserveLine, Goto
      <4>2. j.pc = job[w].pc /\ j.msg = job[w].msg
        BY <2>k, <4>1 DEF Job
      <4> QED
        BY <2>a, <4>2 DEF ReserveLine
    <3> QED
      BY <1>inv, <1>i, <2>1, <2>2, <2>a, <3>1, CallKeepsReasons
         DEF itemVars, Held, Answered
  <2>b. CASE ReserveLine(w) /\ ~UNCHANGED itemVars
    <3>1. j.pc = "reserve" /\ j.msg = job[w].msg /\ results' = results
          /\ job[w].pc = "reserve"
      <4>1. \/ j = [job[w] EXCEPT !.line = job[w].line + 1]
            \/ j = [job[w] EXCEPT !.line = job[w].line + 1, !.failed = TRUE]
        BY <1>t, <2>b, <2>2 DEF ReserveLine, Goto
      <4>2. j.pc = job[w].pc /\ j.msg = job[w].msg
        BY <2>k, <4>1 DEF Job
      <4> QED
        BY <2>b, <4>2 DEF ReserveLine
    <3>2. PICK v, n : ReserveBatch(v, n, p)
      BY <2>p, <2>b DEF ReserveLine
    <3>3. o # p => Held(o)' = Held(o)
      BY <1>inv, <2>2, <3>2, ReserveBatchHolds
    <3>4. CASE o # p
      BY <1>inv, <1>i, <2>1, <2>2, <3>1, <3>3, <3>4, CallKeepsReasons DEF Answered
    <3>5. CASE o = p
      <4>1. job[w].msg = Created(o)
        BY <2>p, <1>inv, <3>1, <3>5, ReservingCall
      <4>2. HeldByCallOrSuccess(o)'
        BY <2>2, <3>1, <4>1 DEF HeldByCallOrSuccess, Active
      <4>3. ReleaseIsComplete(o)'
        BY <2>2, <2>4, <3>1, <3>5 DEF ReleaseIsComplete, Moves
      <4>4. ~ReleaseSent(o)
        BY <1>inv, <2>2, <4>1 DEF AnsweredOnce, SuccessIsFinal, ReleasedAfterSuccess
      <4>5. NothingAfterRelease(o)'
        BY <2>2, <4>4 DEF NothingAfterRelease, ReleaseSent
      <4> QED
        BY <4>2, <4>3, <4>5
    <3> QED
      BY <3>4, <3>5
  <2>c. CASE PublishReservationSucceeded(w)
    <3>1. /\ j.pc = "idle" /\ job[w].pc = "reserve" /\ UNCHANGED orderId
          /\ results' = results \cup {[result |-> "succeeded", order |-> p]}
      BY <2>p, <1>t, <2>1, <2>2, <2>c, IdleJobType
         DEF PublishReservationSucceeded, Publish, Once, Done, Goto
    <3>2. /\ Held(o)' = Held(o)
          /\ Answered(o, "succeeded") => Answered(o, "succeeded")'
          /\ o = p => Answered(o, "succeeded")'
      BY <3>1 DEF Held, Answered
    <3>3. job[w].msg = Created(p)
      BY <2>p, <1>inv, <3>1, ReservingCall
    <3> QED
      BY <1>inv, <1>i, <2>1, <2>2, <2>3, <3>1, <3>2, <3>3, CallKeepsReasons
  <2>d. CASE PublishReservationFailed(w)
    <3>1. /\ j = [job[w] EXCEPT !.pc = "find"]
          /\ results \subseteq results' /\ UNCHANGED orderId
      BY <1>t, <2>2, <2>d DEF PublishReservationFailed, Goto, Publish, Once
    <3>2. j.pc = "find" /\ j.msg = job[w].msg
      BY <2>k, <3>1 DEF Job
    <3>3. /\ Held(o)' = Held(o)
          /\ Answered(o, "succeeded") => Answered(o, "succeeded")'
      BY <3>1 DEF Held, Answered
    <3> QED
      BY <1>inv, <1>i, <2>1, <2>2, <3>2, <3>3, CallKeepsReasons
  <2>e. CASE ReleaseFind(w)
    <3>1. /\ UNCHANGED <<orderId, results>> /\ job[w].pc = "find"
          /\ \/ Held(p) = {} /\ j = IdleJob
             \/ j = [job[w] EXCEPT !.pc = "release", !.todo = Held(p)]
      BY <2>p, <1>t, <2>2, <2>e DEF ReleaseFind, Goto, Done, Held
    <3>2. /\ Held(o)' = Held(o)
          /\ Answered(o, "succeeded") => Answered(o, "succeeded")'
      BY <3>1 DEF Held, Answered
    <3>3. CASE Held(p) = {} /\ j = IdleJob
      <4>1. j.pc = "idle"
        BY <3>3, IdleJobType
      <4> QED
        BY <1>inv, <1>i, <2>1, <2>2, <2>3, <3>2, <3>3, <4>1, CallKeepsReasons
    <3>4. CASE j = [job[w] EXCEPT !.pc = "release", !.todo = Held(p)]
      <4>1. j.pc = "release" /\ j.msg = job[w].msg /\ j.todo = Held(p)
        BY <2>k, <3>4 DEF Job
      <4> QED
        BY <2>p, <1>inv, <1>i, <2>1, <2>2, <3>2, <4>1, CallKeepsReasons
    <3> QED
      BY <3>1, <3>3, <3>4
  <2>f. ASSUME NEW i \in Items, ReleaseOne(w, i)
        PROVE  /\ HeldByCallOrSuccess(o)' /\ ReleaseIsComplete(o)'
               /\ NothingAfterRelease(o)'
    <3>1. /\ results' = results /\ job[w].pc = "release" /\ i \in job[w].todo
          /\ orderId' = [orderId EXCEPT ![i] = None]
          /\ \/ job[w].todo = {i} /\ j = IdleJob
             \/ j = [job[w] EXCEPT !.todo = job[w].todo \ {i}]
      BY <1>t, <2>2, <2>f DEF ReleaseOne, Goto, Done
    <3>2. job[w].todo = Held(p)
      BY <2>p, <2>2, <3>1 DEF OnceInv, HeldForAReason, ReleaseIsComplete
    <3>3. Held(p)' = Held(p) \ {i} /\ (o # p => Held(o)' = Held(o))
      <4>1. p # None /\ o # None
        BY <2>2, InventoryAssumption
      <4>2. \A k \in Items : orderId'[k] = IF k = i THEN None ELSE orderId[k]
        BY <1>inv, <3>1 DEF TypeOK
      <4>3. orderId[i] = p
        BY <3>1, <3>2 DEF Held
      <4> QED
        BY <4>1, <4>2, <4>3 DEF Held
    <3>4. Answered(o, "succeeded") => Answered(o, "succeeded")'
      BY <3>1 DEF Answered
    <3>n. /\ Held(o)' \subseteq Held(o)
          /\ \A x \in Workers \ {w} : job[x].pc = "release" /\ job[x].msg.order = o
                                       => Held(o)' = Held(o)
      BY <2>4, <3>1, <3>3 DEF Moves
    <3>5. CASE job[w].todo = {i} /\ j = IdleJob
      <4>1. j.pc = "idle" /\ Held(p)' = {}
        BY <3>2, <3>3, <3>5, IdleJobType
      <4> QED
        BY <1>inv, <1>i, <2>1, <2>2, <2>3, <3>3, <3>4, <3>n, <4>1, CallKeepsReasons
    <3>6. CASE j = [job[w] EXCEPT !.todo = job[w].todo \ {i}]
      <4>1. j.pc = "release" /\ j.msg = job[w].msg /\ j.todo = Held(p)'
        BY <2>k, <3>1, <3>2, <3>3, <3>6 DEF Job
      <4> QED
        BY <2>p, <1>inv, <1>i, <2>1, <2>2, <3>3, <3>4, <3>n, <4>1, CallKeepsReasons
    <3> QED
      BY <3>1, <3>5, <3>6
  <2>g. ASSUME NEW i \in Items, UpdateOne(w, i)
        PROVE  /\ HeldByCallOrSuccess(o)' /\ ReleaseIsComplete(o)'
               /\ NothingAfterRelease(o)'
    <3>1. /\ UNCHANGED <<orderId, results>> /\ job[w].pc = "update"
          /\ \/ j = IdleJob
             \/ j = [job[w] EXCEPT !.todo = job[w].todo \ {i}]
      BY <1>t, <2>2, <2>g DEF UpdateOne, Goto, Done
    <3>2. /\ Held(o)' = Held(o)
          /\ Answered(o, "succeeded") => Answered(o, "succeeded")'
      BY <3>1 DEF Held, Answered
    <3>3. j.pc = "idle" \/ (j.pc = "update" /\ j.msg = job[w].msg)
      BY <2>k, <3>1, IdleJobType DEF Job
    <3>4. \A t \in MovingTopics : job[w].msg # Msg(t, o)
      BY <1>inv, <3>1 DEF HandledOnce, Msg
    <3> QED
      BY <1>inv, <1>i, <2>1, <2>2, <3>2, <3>3, <3>4, CallKeepsReasons
  <2> QED
    BY <1>3, <2>a, <2>b, <2>c, <2>d, <2>e, <2>f, <2>g DEF Work
<1> QED
  BY <1>1, <1>2, <1>3, <1>inv, OnceSteps

LEMMA InitOnce == Init => HandledOnce /\ AnsweredOnce /\ HeldForAReason
<1> SUFFICES ASSUME Init PROVE HandledOnce /\ AnsweredOnce /\ HeldForAReason
  OBVIOUS
<1>1. \A w \in Workers : job[w].pc = "idle"
  BY IdleJobType DEF Init
<1>2. \A o \in Orders : Held(o) = {}
  BY InventoryAssumption DEF Init, Held
<1>3. HandledOnce
  BY <1>1 DEF Init, HandledOnce, MovesUnits, Active
<1>4. AnsweredOnce
  BY <1>1 DEF Init, AnsweredOnce, AnswerHandled, SuccessIsFinal,
     RefusedBeforeRelease, ReleasedAfterSuccess, Answered, ReleaseSent
<1>5. HeldForAReason
  BY <1>1, <1>2 DEF HeldForAReason, HeldByCallOrSuccess, ReleaseIsComplete,
     NothingAfterRelease
<1> QED
  BY <1>3, <1>4, <1>5

LEMMA OnceInvStep == Once /\ OnceInv /\ [Next]_vars => OnceInv'
<1> SUFFICES ASSUME Once, OnceInv, [Next]_vars PROVE OnceInv'
  OBVIOUS
<1>1. NoManualRestock
  BY DEF Once, NoManualRestock
<1>2. IInv' /\ Unheld'
  BY <1>1, NextIInv, UnheldStep DEF OnceInv
<1>3. CASE UNCHANGED vars
  <2>1. HandledOnce'
    BY <1>3 DEF OnceInv, HandledOnce, MovesUnits, Active, vars
  <2>2. AnsweredOnce'
    BY <1>3 DEF OnceInv, AnsweredOnce, AnswerHandled, SuccessIsFinal,
       RefusedBeforeRelease, ReleasedAfterSuccess, Answered, ReleaseSent, Active, vars
  <2>3. HeldForAReason'
    <3>1. \A o : Held(o)' = Held(o) /\ Answered(o, "succeeded")' = Answered(o, "succeeded")
      BY <1>3 DEF Held, Answered, vars
    <3> QED
      BY <1>3, <3>1 DEF OnceInv, HeldForAReason, HeldByCallOrSuccess,
         ReleaseIsComplete, NothingAfterRelease, Active, vars
  <2> QED
    BY <1>2, <2>1, <2>2, <2>3 DEF OnceInv
<1>4. CASE Next
  <2>1. HandledOnce'
    BY <1>4, HandledOnceStep DEF OnceInv
  <2>2. AnsweredOnce'
    BY <1>4, AnsweredOnceStep DEF OnceInv, AnsweredOnce
  <2>3. HeldForAReason'
    BY <1>4, HeldForAReasonStep DEF HeldForAReason
  <2> QED
    BY <1>2, <2>1, <2>2, <2>3 DEF OnceInv
<1> QED
  BY <1>3, <1>4

LEMMA OnceInvSettles == OnceInv => RefusedOrReleasedHoldsNothing
<1> SUFFICES ASSUME OnceInv, NEW o \in Orders
             PROVE  /\ ~(Answered(o, "succeeded") /\ Answered(o, "failed"))
                    /\ (\/ Answered(o, "failed")
                        \/ ReleaseSent(o) /\ \A t \in ReleaseTopics : Msg(t, o) \notin inbox)
                       /\ ~Busy(o) => Held(o) = {}
  BY DEF RefusedOrReleasedHoldsNothing
<1>1. /\ HeldByCallOrSuccess(o) /\ NothingAfterRelease(o) /\ SuccessIsFinal(o)
  BY DEF OnceInv, HeldForAReason, AnsweredOnce
<1>2. \A t : Msg(t, o).order = o
  BY DEF Msg
<1>3. ~Busy(o) => \A w \in Workers, t \in Topics : Active(w) => job[w].msg # Msg(t, o)
  BY <1>2 DEF Busy, Active
<1> QED
  BY <1>1, <1>3 DEF HeldByCallOrSuccess, NothingAfterRelease, SuccessIsFinal,
     ReleaseSent, Created, Topics, ReleaseTopics

LEMMA OnceInvHolds == ASSUME Once PROVE Spec => []OnceInv
<1>1. Init => OnceInv
  BY InitIInv, InitUnheld, InitOnce DEF OnceInv
<1>2. OnceInv /\ [Next]_vars => OnceInv'
  BY OnceInvStep
<1> QED
  BY <1>1, <1>2, PTL DEF Spec

(* For any number of orders, items and concurrent calls, when every message *)
(* is handled once: the saga gets one answer per order, and an order that   *)
(* was refused, or released later, holds no unit once its calls are through.*)
THEOREM OrdersReleaseTheirUnits ==
    ASSUME Once
    PROVE  Spec => []RefusedOrReleasedHoldsNothing
BY OnceInvHolds, OnceInvSettles, PTL

-----------------------------------------------------------------------------
(* An assumption on the orders: every order item asks for at least one      *)
(* unit.  A count of 0 reads as no limit, and a negative one as its         *)
(* absolute value (Found), so such a line reserves something else than it   *)
(* asks for.                                                                *)
PositiveCounts ==
    \A o \in Orders : \A k \in DOMAIN Lines[o] : Lines[o][k].count > 0

(* The units of variant v that the lines of o before line k ask for.        *)
OrderedBefore(o, v, k) ==
    UNION {{n} \X (1 .. Lines[o][n].count) :
           n \in {l \in DOMAIN Lines[o] : l < k /\ Lines[o][l].variant = v}}
HeldOf(o, v) == {i \in Held(o) : variant[i] = v}

(* A call that reserves, and has met no error, holds the units of the lines *)
(* it has gone through; a successful order holds those of all its lines.    *)
Reserving(w, o) ==
    job[w].pc = "reserve" /\ job[w].msg = Created(o) /\ ~job[w].failed
LinesReserved(o, v) ==
    /\ \A w \in Workers : Reserving(w, o) =>
          /\ job[w].line \in 1 .. Len(Lines[o]) + 1
          /\ IsFiniteSet(OrderedBefore(o, v, job[w].line))
          /\ Cardinality(HeldOf(o, v)) = Cardinality(OrderedBefore(o, v, job[w].line))
    /\ Answered(o, "succeeded") /\ ~ReleaseSent(o) =>
          Cardinality(HeldOf(o, v)) = Cardinality(Ordered(o, v))

LinesInv == OnceInv /\ \A o \in Orders, v \in Variants : LinesReserved(o, v)

LEMMA DisjointUnion ==
    ASSUME NEW S, NEW T, IsFiniteSet(S), IsFiniteSet(T), S \cap T = {}
    PROVE  /\ IsFiniteSet(S \cup T)
           /\ Cardinality(S \cup T) = Cardinality(S) + Cardinality(T)
<1>1. Cardinality(S) \in Nat /\ Cardinality(T) \in Nat
  BY FS_CardinalityType
<1>2. Cardinality(S \cap T) = 0
  BY FS_EmptySet
<1>3. /\ IsFiniteSet(S \cup T)
      /\ Cardinality(S \cup T)
            = Cardinality(S) + Cardinality(T) - Cardinality(S \cap T)
  BY FS_Union
<1> QED
  BY <1>1, <1>2, <1>3

LEMMA UnitsOfLine ==
    ASSUME NEW k, NEW c \in Nat
    PROVE  IsFiniteSet({k} \X (1 .. c)) /\ Cardinality({k} \X (1 .. c)) = c
<1>1. IsFiniteSet({k}) /\ Cardinality({k}) = 1
  BY FS_Singleton
<1>2. IsFiniteSet(1 .. c) /\ Cardinality(1 .. c) = IF 1 > c THEN 0 ELSE c - 1 + 1
  BY FS_Interval
<1>3. Cardinality(1 .. c) = c
  BY <1>2
<1>4. /\ IsFiniteSet({k} \X (1 .. c))
      /\ Cardinality({k} \X (1 .. c)) = Cardinality({k}) * Cardinality(1 .. c)
  BY <1>1, <1>2, FS_Product
<1> QED
  BY <1>1, <1>3, <1>4

(* Line k adds its count to the units ordered before it, if it is of the    *)
(* variant, and nothing otherwise.                                          *)
LEMMA OrderedNext ==
    ASSUME NEW o \in Orders, NEW v, NEW k \in DOMAIN Lines[o],
           IsFiniteSet(OrderedBefore(o, v, k)), Lines[o][k].count > 0
    PROVE  /\ IsFiniteSet(OrderedBefore(o, v, k + 1))
           /\ Cardinality(OrderedBefore(o, v, k + 1)) =
                 Cardinality(OrderedBefore(o, v, k))
                 + IF Lines[o][k].variant = v THEN Lines[o][k].count ELSE 0
<1> DEFINE c == Lines[o][k].count
           T == {k} \X (1 .. c)
<1>0. Lines[o] \in Seq(Line)
  BY InventoryAssumption
<1>1. k \in Nat /\ c \in Int /\ c > 0 /\ DOMAIN Lines[o] \subseteq Nat
  <2>1. DOMAIN Lines[o] = 1 .. Len(Lines[o]) /\ Len(Lines[o]) \in Nat
    BY <1>0
  <2>2. Lines[o][k] \in Line
    BY <1>0, <2>1
  <2> QED
    BY <2>1, <2>2 DEF Line
<1>2. {l \in DOMAIN Lines[o] : l < k + 1 /\ Lines[o][l].variant = v}
        = {l \in DOMAIN Lines[o] : l < k /\ Lines[o][l].variant = v}
          \cup {l \in {k} : Lines[o][l].variant = v}
  BY <1>1
<1>3. CASE Lines[o][k].variant # v
  <2>1. OrderedBefore(o, v, k + 1) = OrderedBefore(o, v, k)
    BY <1>2, <1>3 DEF OrderedBefore
  <2>2. Cardinality(OrderedBefore(o, v, k)) \in Nat
    BY FS_CardinalityType
  <2> QED
    BY <1>3, <2>1, <2>2
<1>4. CASE Lines[o][k].variant = v
  <2>1. OrderedBefore(o, v, k + 1) = OrderedBefore(o, v, k) \cup T
    BY <1>2, <1>4 DEF OrderedBefore
  <2>2. OrderedBefore(o, v, k) \cap T = {}
    BY <1>1 DEF OrderedBefore
  <2>3. IsFiniteSet(T) /\ Cardinality(T) = c
    <3>1. c \in Nat
      BY <1>1
    <3> HIDE DEF c
    <3> QED
      BY <3>1, UnitsOfLine
  <2> HIDE DEF T, c
  <2>5. /\ IsFiniteSet(OrderedBefore(o, v, k) \cup T)
        /\ Cardinality(OrderedBefore(o, v, k) \cup T)
              = Cardinality(OrderedBefore(o, v, k)) + c
    BY <2>2, <2>3, DisjointUnion
  <2> QED
    BY <1>4, <2>1, <2>5 DEF c
<1> QED
  BY <1>3, <1>4

LEMMA OrderedEnds ==
    ASSUME NEW o \in Orders, NEW v
    PROVE  /\ OrderedBefore(o, v, 1) = {}
           /\ OrderedBefore(o, v, Len(Lines[o]) + 1) = Ordered(o, v)
<1>1. Lines[o] \in Seq(Line)
  BY InventoryAssumption
<1>2. /\ {l \in DOMAIN Lines[o] : l < 1 /\ Lines[o][l].variant = v} = {}
      /\ {l \in DOMAIN Lines[o] : l < Len(Lines[o]) + 1 /\ Lines[o][l].variant = v}
            = {l \in DOMAIN Lines[o] : Lines[o][l].variant = v}
  BY <1>1
<1> QED
  BY <1>2 DEF OrderedBefore, Ordered

(* Find returns a positive count of documents, or too few.                  *)
LEMMA FoundIsCount ==
    ASSUME NEW v, NEW n \in Int, n > 0, Found(v, n) >= n
    PROVE  Found(v, n) = n
<1>1. IsFiniteSet(Available(v))
  BY InventoryAssumption, FS_Subset DEF Available
<1>2. Cardinality(Available(v)) \in Nat
  BY <1>1, FS_CardinalityType
<1> QED
  BY <1>2 DEF Found

(* Steps that leave what the order holds of the variant alone, and start no *)
(* reservation for the order.                                               *)
LEMMA LinesKept ==
    ASSUME NEW o \in Orders, NEW v \in Variants, LinesReserved(o, v),
           HeldOf(o, v)' = HeldOf(o, v),
           Answered(o, "succeeded")' => Answered(o, "succeeded"),
           ReleaseSent(o) => ReleaseSent(o)',
           \A w \in Workers : Reserving(w, o)' =>
              Reserving(w, o) /\ job'[w].line = job[w].line
    PROVE  LinesReserved(o, v)'
<1>1. ASSUME NEW w \in Workers, Reserving(w, o)'
      PROVE  /\ job'[w].line \in 1 .. Len(Lines[o]) + 1
             /\ IsFiniteSet(OrderedBefore(o, v, job'[w].line))
             /\ Cardinality(HeldOf(o, v)')
                   = Cardinality(OrderedBefore(o, v, job'[w].line))
  BY <1>1 DEF LinesReserved
<1>2. ASSUME Answered(o, "succeeded")', ~ReleaseSent(o)'
      PROVE  Cardinality(HeldOf(o, v)') = Cardinality(Ordered(o, v))
  BY <1>2 DEF LinesReserved
<1> QED
  BY <1>1, <1>2 DEF LinesReserved, OrderedBefore, Ordered

(* A line that is reserved: the order gets as many units of its variant as  *)
(* it asks for, and no other.                                               *)
LEMMA LineReserved ==
    ASSUME TypeOK, Unheld, PositiveCounts, NEW o \in Orders, NEW v \in Variants,
           NEW k \in 1 .. Len(Lines[o]), IsFiniteSet(OrderedBefore(o, v, k)),
           ReserveBatch(Lines[o][k].variant, Lines[o][k].count, o),
           Cardinality(HeldOf(o, v)) = Cardinality(OrderedBefore(o, v, k))
    PROVE  /\ IsFiniteSet(OrderedBefore(o, v, k + 1))
           /\ Cardinality(HeldOf(o, v)') = Cardinality(OrderedBefore(o, v, k + 1))
<1> DEFINE u == Lines[o][k].variant
           c == Lines[o][k].count
<1>0. Lines[o] \in Seq(Line)
  BY InventoryAssumption
<1>1. k \in DOMAIN Lines[o] /\ Lines[o][k] \in Line
  BY <1>0
<1>2. c \in Int /\ c > 0
  BY <1>1 DEF Line, PositiveCounts
<1>3. PICK S \in SUBSET Available(u) :
              /\ Cardinality(S) = Found(u, c) /\ Found(u, c) >= c
              /\ Held(o)' = Held(o) \cup S /\ Held(o) \cap S = {}
              /\ variant' = variant
  BY ReserveBatchHolds
<1>4. Cardinality(S) = c
  <2> HIDE DEF c, u
  <2> QED
    BY <1>2, <1>3, FoundIsCount
<1>5. IsFiniteSet(HeldOf(o, v)) /\ IsFiniteSet(S)
  <2>1. HeldOf(o, v) \subseteq Items /\ S \subseteq Items
    BY DEF HeldOf, Held, Available
  <2> QED
    BY <2>1, InventoryAssumption, FS_Subset
<1>6. /\ IsFiniteSet(OrderedBefore(o, v, k + 1))
      /\ Cardinality(OrderedBefore(o, v, k + 1)) =
            Cardinality(OrderedBefore(o, v, k)) + IF u = v THEN c ELSE 0
  BY <1>1, <1>2, OrderedNext
<1>7. Cardinality(OrderedBefore(o, v, k)) \in Nat
  BY FS_CardinalityType
<1>8. CASE u = v
  <2>1. HeldOf(o, v)' = HeldOf(o, v) \cup S /\ HeldOf(o, v) \cap S = {}
    BY <1>3, <1>8 DEF HeldOf, Available
  <2>2. Cardinality(HeldOf(o, v) \cup S) = Cardinality(HeldOf(o, v)) + Cardinality(S)
    BY <1>5, <2>1, DisjointUnion
  <2> QED
    BY <1>4, <1>6, <1>8, <2>1, <2>2
<1>9. CASE u # v
  <2>1. HeldOf(o, v)' = HeldOf(o, v)
    BY <1>3, <1>9 DEF HeldOf, Available
  <2> QED
    BY <1>6, <1>7, <1>9, <2>1
<1> QED
  BY <1>8, <1>9

LEMMA LinesReservedStep ==
    ASSUME Once, PositiveCounts, LinesInv, Next, NEW o \in Orders, NEW v \in Variants
    PROVE  LinesReserved(o, v)'
<1>inv. /\ OnceInv /\ IInv /\ TypeOK /\ Unheld /\ HandledOnce /\ AnsweredOnce
        /\ LinesReserved(o, v)
  BY DEF LinesInv, OnceInv, IInv
<1>t. job \in [Workers -> Job]
  BY <1>inv DEF TypeOK
<1>1. CASE Environment
  <2>1. PICK m \in Message : Joins(m)
    BY <1>1, <1>inv, WhatIsSent
  <2>2. UNCHANGED <<orderId, variant, job, results>> /\ sent \subseteq sent'
    BY <2>1, JoiningMessage
  <2>3. /\ HeldOf(o, v)' = HeldOf(o, v)
        /\ Answered(o, "succeeded")' => Answered(o, "succeeded")
        /\ ReleaseSent(o) => ReleaseSent(o)'
        /\ \A w \in Workers : Reserving(w, o)' = Reserving(w, o)
    BY <2>2 DEF HeldOf, Held, Answered, ReleaseSent, Reserving
  <2> QED
    BY <1>inv, <2>2, <2>3, LinesKept
<1>2. ASSUME NEW w \in Workers, NEW m \in inbox, NEW j \in Job, Starts(w, m, j)
      PROVE  LinesReserved(o, v)'
  <2>1. /\ UNCHANGED <<orderId, variant, sent, results>>
        /\ job'[w] = j /\ \A x \in Workers \ {w} : job'[x] = job[x]
    BY <1>2, <1>t DEF Starts
  <2>2. /\ HeldOf(o, v)' = HeldOf(o, v) /\ Held(o)' = Held(o)
        /\ Answered(o, "succeeded")' => Answered(o, "succeeded")
        /\ ReleaseSent(o) => ReleaseSent(o)'
    BY <2>1 DEF HeldOf, Held, Answered, ReleaseSent
  <2>3. \A x \in Workers \ {w} : Reserving(x, o)' = Reserving(x, o)
    BY <2>1 DEF Reserving
  <2>4. CASE ~Reserving(w, o)'
    BY <1>inv, <2>1, <2>2, <2>3, <2>4, LinesKept
  <2>5. CASE Reserving(w, o)'
    <3>1. m = Created(o) /\ j.line = 1
      BY <1>2, <2>1, <2>5 DEF Reserving, Starts
    <3>2. \A x \in Workers : Active(x) => job[x].msg # Created(o)
      BY <1>inv, <3>1, CreatedMoves DEF HandledOnce, MovesUnits
    <3>3. ~Answered(o, "succeeded")
      BY <1>inv, <3>1 DEF AnsweredOnce, AnswerHandled
    <3>4. Held(o) = {}
      BY <1>inv, <3>2, <3>3 DEF OnceInv, HeldForAReason, HeldByCallOrSuccess
    <3>5. HeldOf(o, v)' = {}
      BY <2>2, <3>4 DEF HeldOf
    <3>6. OrderedBefore(o, v, 1) = {} /\ Len(Lines[o]) \in Nat
      BY OrderedEnds, InventoryAssumption
    <3>7. \A x \in Workers \ {w} : ~Reserving(x, o)'
      BY <2>3, <3>2 DEF Reserving, Active
    <3>8. 1 \in 1 .. Len(Lines[o]) + 1
      BY <3>6
    <3>9. IsFiniteSet({}) /\ Cardinality({}) = 0
      BY FS_EmptySet
    <3> QED
      BY <2>1, <2>2, <3>1, <3>3, <3>5, <3>6, <3>7, <3>8, <3>9 DEF LinesReserved
  <2> QED
    BY <2>4, <2>5
<1>3. ASSUME NEW w \in Workers, Work(w), ~ReleaseFails(w)
      PROVE  LinesReserved(o, v)'
  <2>p. PICK p \in Orders : p = job[w].msg.order
    BY <1>3, <1>inv, WorkGoesOn DEF IInv, MessagesNameOrders, Active
  <2>1. PICK j \in Job : job' = [job EXCEPT ![w] = j]
    BY <1>3, <1>inv, WorkGoesOn
  <2>2. /\ job'[w] = j /\ UNCHANGED <<inbox, sent>> /\ Active(w)
        /\ \A x \in Workers \ {w} : job'[x] = job[x]
    BY <1>3, <1>t, <1>inv, <2>1, WorkGoesOn
  <2>k. job[w] \in Job
    BY <1>t
  <2>3. /\ \A x \in Workers \ {w} : Reserving(x, o)' = Reserving(x, o)
        /\ ReleaseSent(o) => ReleaseSent(o)'
    BY <2>2 DEF Reserving, ReleaseSent
  <2>4. UNCHANGED <<orderId, variant>> => HeldOf(o, v)' = HeldOf(o, v)
    BY DEF HeldOf, Held
  <2>5. job[w].msg = Created(o) => o = p
    BY <2>p DEF Created, Msg
  <2>a. CASE ReserveLine(w) /\ UNCHANGED itemVars /\ j.failed
    <3>1. results' = results /\ ~Reserving(w, o)'
      BY <2>2, <2>a DEF ReserveLine, Reserving
    <3> QED
      BY <1>inv, <2>2, <2>3, <2>4, <2>a, <3>1, LinesKept DEF itemVars, Answered
  <2>b. CASE ReserveLine(w) /\ ~(UNCHANGED itemVars /\ j.failed)
    <3> DEFINE l == Lines[p][job[w].line]
    <3>1. /\ job[w].pc = "reserve" /\ results' = results /\ job[w].line <= Len(Lines[p])
          /\ \/ /\ ReserveBatch(l.variant, l.count, p)
                /\ \/ j = [job[w] EXCEPT !.line = job[w].line + 1]
                   \/ j = [job[w] EXCEPT !.line = job[w].line + 1, !.failed = TRUE]
             \/ /\ j = [job[w] EXCEPT !.line = job[w].line + 1, !.failed = TRUE]
                /\ UNCHANGED itemVars
      BY <1>t, <2>p, <2>2, <2>b DEF ReserveLine, Goto
    <3>a. ~(j = [job[w] EXCEPT !.line = job[w].line + 1, !.failed = TRUE]
            /\ UNCHANGED itemVars)
      BY <2>b, <2>k DEF Job
    <3>2. /\ ReserveBatch(l.variant, l.count, p)
          /\ j.line = job[w].line + 1 /\ (~j.failed => ~job[w].failed)
          /\ j.msg = job[w].msg /\ j.pc = "reserve"
      BY <2>k, <3>1, <3>a DEF Job
    <3>3. job[w].msg = Created(p)
      BY <1>inv, <2>p, <3>1, ReservingCall
    <3>4. ~Answered(p, "succeeded")
      BY <1>inv, <2>2, <3>3 DEF AnsweredOnce, SuccessIsFinal
    <3>5. Answered(o, "succeeded")' = Answered(o, "succeeded")
      BY <3>1 DEF Answered
    <3>6. CASE o # p
      <4>1. Held(o)' = Held(o) /\ variant' = variant
        BY <1>inv, <3>2, <3>6, ReserveBatchHolds
      <4>2. HeldOf(o, v)' = HeldOf(o, v)
        BY <4>1 DEF HeldOf
      <4>3. ~Reserving(w, o)'
        BY <2>2, <2>5, <3>2, <3>6 DEF Reserving
      <4> QED
        BY <1>inv, <2>2, <2>3, <3>5, <4>2, <4>3, LinesKept
    <3>7. CASE o = p
      <4>1. \A x \in Workers \ {w} : ~Reserving(x, o)'
        BY <1>inv, <2>2, <2>3, <3>3, <3>7, CreatedMoves
           DEF Reserving, HandledOnce, MovesUnits, Active
      <4>2. ASSUME ~job[w].failed
            PROVE  /\ job'[w].line \in 1 .. Len(Lines[o]) + 1
                   /\ IsFiniteSet(OrderedBefore(o, v, job'[w].line))
                   /\ Cardinality(HeldOf(o, v)')
                         = Cardinality(OrderedBefore(o, v, job'[w].line))
        <5>1. Reserving(w, o)
          BY <3>1, <3>3, <3>7, <4>2 DEF Reserving
        <5>2. /\ job[w].line \in 1 .. Len(Lines[o]) + 1 /\ Len(Lines[o]) \in Nat
              /\ IsFiniteSet(OrderedBefore(o, v, job[w].line))
              /\ Cardinality(HeldOf(o, v)) = Cardinality(OrderedBefore(o, v, job[w].line))
          BY <1>inv, <5>1, InventoryAssumption DEF LinesReserved
        <5>3. job[w].line \in 1 .. Len(Lines[o])
          BY <3>1, <3>7, <5>2
        <5>4. /\ IsFiniteSet(OrderedBefore(o, v, job[w].line + 1))
              /\ Cardinality(HeldOf(o, v)')
                    = Cardinality(OrderedBefore(o, v, job[w].line + 1))
          BY <1>inv, <3>2, <3>7, <5>2, <5>3, LineReserved
        <5>5. job[w].line + 1 \in 1 .. Len(Lines[o]) + 1
          BY <5>2, <5>3
        <5> QED
          BY <2>2, <3>2, <5>4, <5>5
      <4>3. Reserving(w, o)' => ~job[w].failed
        BY <2>2, <3>2 DEF Reserving
      <4> QED
        BY <3>4, <3>5, <3>7, <4>1, <4>2, <4>3 DEF LinesReserved, OrderedBefore
    <3> QED
      BY <3>6, <3>7
  <2>c. CASE PublishReservationSucceeded(w)
    <3>1. /\ j.pc = "idle" /\ job[w].pc = "reserve" /\ UNCHANGED <<orderId, variant>>
          /\ ~job[w].failed /\ job[w].line > Len(Lines[p])
          /\ results' = results \cup {[result |-> "succeeded", order |-> p]}
      BY <1>t, <2>p, <2>1, <2>2, <2>c, IdleJobType
         DEF PublishReservationSucceeded, Publish, Once, Done, Goto
    <3>2. ~Reserving(w, o)'
      BY <2>2, <3>1 DEF Reserving
    <3>3. job[w].msg = Created(p)
      BY <1>inv, <2>p, <3>1, ReservingCall
    <3>4. CASE o # p
      BY <1>inv, <2>2, <2>3, <2>4, <3>1, <3>2, <3>4, LinesKept DEF Answered
    <3>5. CASE o = p
      <4>1. Reserving(w, o)
        BY <3>1, <3>3, <3>5 DEF Reserving
      <4>2. /\ job[w].line \in 1 .. Len(Lines[o]) + 1 /\ Len(Lines[o]) \in Nat
            /\ Cardinality(HeldOf(o, v)) = Cardinality(OrderedBefore(o, v, job[w].line))
        BY <1>inv, <4>1, InventoryAssumption DEF LinesReserved
      <4>3. job[w].line = Len(Lines[o]) + 1
        BY <3>1, <3>5, <4>2
      <4>4. Cardinality(HeldOf(o, v)') = Cardinality(Ordered(o, v))
        BY <2>4, <3>1, <4>2, <4>3, OrderedEnds
      <4>5. \A x \in Workers \ {w} : ~Reserving(x, o)'
        BY <1>inv, <2>2, <2>3, <3>3, <3>5, CreatedMoves
           DEF Reserving, HandledOnce, MovesUnits, Active
      <4> QED
        BY <3>2, <4>4, <4>5 DEF LinesReserved, Ordered
    <3> QED
      BY <3>4, <3>5
  <2>d. CASE PublishReservationFailed(w)
    <3>1. /\ j = [job[w] EXCEPT !.pc = "find"] /\ UNCHANGED <<orderId, variant>>
          /\ results' = results \cup {[result |-> "failed", order |-> p]}
      BY <1>t, <2>p, <2>2, <2>d DEF PublishReservationFailed, Goto, Publish, Once
    <3>2. ~Reserving(w, o)'
      BY <2>k, <2>2, <3>1 DEF Reserving, Job
    <3> QED
      BY <1>inv, <2>2, <2>3, <2>4, <3>1, <3>2, LinesKept DEF Answered
  <2>e. CASE ReleaseFind(w) \/ \E i \in Items : UpdateOne(w, i)
    <3>1. /\ UNCHANGED <<orderId, variant, results>> /\ job[w].pc # "reserve"
      BY <2>e DEF ReleaseFind, UpdateOne
    <3>2. j.pc # "reserve"
      <4>1. \/ j = IdleJob
            \/ \E ids : j = [job[w] EXCEPT !.pc = "release", !.todo = ids]
            \/ \E ids : j = [job[w] EXCEPT !.todo = ids]
        <5>1. CASE ReleaseFind(w)
          BY <1>t, <2>2, <5>1 DEF ReleaseFind, Goto, Done
        <5>2. ASSUME NEW i \in Items, UpdateOne(w, i)
              PROVE  j = IdleJob \/ j = [job[w] EXCEPT !.todo = job[w].todo \ {i}]
          BY <1>t, <2>2, <5>2 DEF UpdateOne, Goto, Done
        <5> QED
          BY <2>e, <5>1, <5>2
      <4> QED
        BY <2>k, <3>1, <4>1, IdleJobType DEF Job
    <3>3. ~Reserving(w, o)'
      BY <2>2, <3>2 DEF Reserving
    <3> QED
      BY <1>inv, <2>2, <2>3, <2>4, <3>1, <3>3, LinesKept DEF Answered
  <2>f. ASSUME NEW i \in Items, ReleaseOne(w, i)
        PROVE  LinesReserved(o, v)'
    <3>1. /\ results' = results /\ variant' = variant /\ job[w].pc = "release"
          /\ i \in job[w].todo /\ orderId' = [orderId EXCEPT ![i] = None]
          /\ \/ j = IdleJob
             \/ j = [job[w] EXCEPT !.todo = job[w].todo \ {i}]
      BY <1>t, <2>2, <2>f DEF ReleaseOne, Goto, Done
    <3>2. ~Reserving(w, o)'
      <4>1. j.pc # "reserve"
        BY <2>k, <3>1, IdleJobType DEF Job
      <4> QED
        BY <2>2, <4>1 DEF Reserving
    <3>3. orderId[i] = p
      <4>1. job[w].todo = Held(p)
        BY <1>inv, <2>p, <3>1 DEF OnceInv, HeldForAReason, ReleaseIsComplete
      <4> QED
        BY <3>1, <4>1 DEF Held
    <3>4. CASE o # p
      <4>1. \A k \in Items : orderId'[k] = o <=> orderId[k] = o
        BY <1>inv, <3>1, <3>3, <3>4, InventoryAssumption DEF TypeOK
      <4>2. HeldOf(o, v)' = HeldOf(o, v)
        BY <3>1, <4>1 DEF HeldOf, Held
      <4> QED
        BY <1>inv, <2>2, <2>3, <3>1, <3>2, <4>2, LinesKept DEF Answered
    <3>5. CASE o = p
      <4>1. \A x \in Workers \ {w} : ~Reserving(x, o)'
        <5>1. ASSUME NEW x \in Workers, Reserving(x, o)
              PROVE  x = w
          <6>1. job[x].msg.order = job[w].msg.order
            BY <2>p, <3>5, <5>1 DEF Reserving, Created, Msg
          <6> QED
            BY <1>inv, <3>1, <5>1, <6>1, OneAtATime DEF Moves, Reserving
        <5> QED
          BY <2>3, <5>1
      <4>2. job[w].msg = Created(p) \/ ReleaseSent(p)
        <5>1. job[w].msg \in sent /\ job[w].msg.topic \in MovingTopics
          BY <1>inv, <2>2, <3>1 DEF HandledOnce, MovesUnits
        <5>2. job[w].msg = Msg(job[w].msg.topic, p)
          BY <1>inv, <2>p, <5>1 DEF HandledOnce
        <5> QED
          BY <5>1, <5>2 DEF MovingTopics, Created, ReleaseSent
      <4>3. Answered(p, "succeeded") => ReleaseSent(p)
        BY <1>inv, <2>2, <4>2 DEF AnsweredOnce, SuccessIsFinal
      <4>4. ~(Answered(o, "succeeded") /\ ~ReleaseSent(o))'
        BY <2>3, <3>1, <3>5, <4>3 DEF Answered
      <4> QED
        BY <3>2, <4>1, <4>4 DEF LinesReserved
    <3> QED
      BY <3>4, <3>5
  <2> QED
    BY <1>3, <2>a, <2>b, <2>c, <2>d, <2>e, <2>f DEF Work
<1> QED
  BY <1>1, <1>2, <1>3, <1>inv, OnceSteps

LEMMA LinesInvStep == Once /\ PositiveCounts /\ LinesInv /\ [Next]_vars => LinesInv'
<1> SUFFICES ASSUME Once, PositiveCounts, LinesInv, [Next]_vars PROVE LinesInv'
  OBVIOUS
<1>1. OnceInv'
  BY OnceInvStep DEF LinesInv
<1>2. CASE Next
  BY <1>1, <1>2, LinesReservedStep DEF LinesInv
<1>3. CASE UNCHANGED vars
  <2>1. \A o \in Orders, v \in Variants : LinesReserved(o, v)'
    <3> SUFFICES ASSUME NEW o \in Orders, NEW v \in Variants
                 PROVE  LinesReserved(o, v)'
      OBVIOUS
    <3>1. /\ HeldOf(o, v)' = HeldOf(o, v) /\ job' = job
          /\ Answered(o, "succeeded")' => Answered(o, "succeeded")
          /\ ReleaseSent(o) => ReleaseSent(o)'
          /\ \A w \in Workers : Reserving(w, o)' = Reserving(w, o)
      BY <1>3 DEF vars, HeldOf, Held, Answered, ReleaseSent, Reserving
    <3> QED
      BY <3>1, LinesKept DEF LinesInv
  <2> QED
    BY <1>1, <2>1 DEF LinesInv
<1> QED
  BY <1>2, <1>3

LEMMA LinesInvHolds ==
    ASSUME Once, PositiveCounts
    PROVE  Spec => []LinesInv
<1>1. Init => LinesInv
  <2> SUFFICES ASSUME Init PROVE LinesInv
    OBVIOUS
  <2>1. OnceInv
    BY InitIInv, InitUnheld, InitOnce DEF OnceInv
  <2>2. \A w \in Workers : job[w].pc = "idle"
    BY IdleJobType DEF Init
  <2>3. \A o \in Orders, v \in Variants : LinesReserved(o, v)
    BY <2>2 DEF Init, LinesReserved, Reserving, Answered
  <2> QED
    BY <2>1, <2>3 DEF LinesInv
<1>2. LinesInv /\ [Next]_vars => LinesInv'
  BY LinesInvStep
<1> QED
  BY <1>1, <1>2, PTL DEF Spec

(* For any number of orders, items and concurrent calls, when every message *)
(* is handled once and every line asks for at least one unit: an order      *)
(* whose reservation succeeded holds exactly the units it asked for,        *)
(* variant by variant, until its release is published.                      *)
THEOREM SucceededOrdersHoldTheirLines ==
    ASSUME Once, PositiveCounts
    PROVE  Spec => []SucceededOrderHoldsItsLines
<1>1. LinesInv => SucceededOrderHoldsItsLines
  BY DEF LinesInv, LinesReserved, SucceededOrderHoldsItsLines, HeldOf
<1> QED
  BY <1>1, LinesInvHolds, PTL

(* Without employees, no unit ever changes its variant.                     *)
LEMMA VariantsStay == ASSUME Once PROVE Spec => [](variant = Stock)
<1>1. Init => variant = Stock
  BY DEF Init
<1>2. IInv /\ variant = Stock /\ [Next]_vars => (variant = Stock)'
  <2> SUFFICES ASSUME IInv, [Next]_vars PROVE UNCHANGED variant
    OBVIOUS
  <2>1. CASE UNCHANGED vars
    BY <2>1 DEF vars
  <2>2. CASE Next
    <3>1. ~Admin
      BY DEF Once, Admin
    <3>2. CASE UNCHANGED itemVars
      BY <3>2 DEF itemVars
    <3>3. ASSUME NEW v, NEW n, NEW o, ReserveBatch(v, n, o) PROVE UNCHANGED variant
      BY <3>3 DEF ReserveBatch, Reserve
    <3>4. ASSUME NEW w, NEW i, ReleaseOne(w, i) \/ UpdateOne(w, i)
          PROVE  UNCHANGED variant
      BY <3>4 DEF ReleaseOne, UpdateOne
    <3> QED
      BY <2>2, <3>1, <3>2, <3>3, <3>4, WhoWritesItems
  <2> QED
    BY <2>1, <2>2
<1>3. Init => IInv
  BY InitIInv
<1>4. IInv /\ [Next]_vars => IInv'
  BY NextIInv
<1> QED
  BY <1>1, <1>2, <1>3, <1>4, PTL DEF Spec
=============================================================================
