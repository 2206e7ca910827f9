------------------------------- MODULE Return --------------------------------
(***************************************************************************)
(* The return service: it collects what order/created, shipment/created    *)
(* and shipment/status-updated say of an order item, and lets the buyer    *)
(* return delivered items against a refund.                                *)
(*                                                                         *)
(* A handler runs one statement after the other without a transaction and  *)
(* without order among the events; a failing one answers with an error and *)
(* is repeated.  createReturn is a READ COMMITTED transaction: it reads    *)
(* the items, reads the shipments, and writes; what it writes shows at the *)
(* commit.  A day is the unit of time.                                     *)
(***************************************************************************)
EXTENDS Shop, SequencesExt

CONSTANTS
    RetOrders,      \* order ids
    Parcels,        \* shipments of orders; those of returns are ignored
    BuyerOf,        \* BuyerOf[o]: the user of the order
    RetItemsOf,     \* RetItemsOf[o]: its items, a sequence
    ParcelOrder,    \* ParcelOrder[s]: the order of the shipment
    ParcelItems,    \* ParcelItems[s]: its items, a sequence
    VersionTables,  \* contents ProductVariantVersionEntity can have; in
                    \*   production it is empty: no handler fills it
    MaxDay,         \* bound: days that pass
    MaxReturns,     \* bound: returns created
    MaxRetFaults    \* bound: failing statements and repeated events

RetItems == UNION {ToSet(RetItemsOf[o]) : o \in RetOrders}

(* Rows of OrderItemEntity: priced when amount and product variant version  *)
(* are known, the shipment, and the return, 0: none.                        *)
ItemRows == [priced : BOOLEAN, sentWith : Parcels \cup {None}, returnedWith : Nat]
(* Rows of ShipmentEntity: the day of the delivery, None before it.         *)
ParcelRows == [deliveredAt : Nat \cup {None}]

ASSUME ReturnAssumption ==
    /\ BuyerOf \in [RetOrders -> Users]
    /\ RetItemsOf \in [RetOrders -> Seq(RetItems)]
    /\ ParcelOrder \in [Parcels -> RetOrders]
    /\ ParcelItems \in [Parcels -> Seq(RetItems)]
    /\ \A s \in Parcels : ToSet(ParcelItems[s]) \subseteq
                             ToSet(RetItemsOf[ParcelOrder[s]])
    /\ \A o, p \in RetOrders : o # p =>
          ToSet(RetItemsOf[o]) \cap ToSet(RetItemsOf[p]) = {}
    /\ \A t \in VersionTables : \A i \in DOMAIN t : t[i] \in Int \cup {None}
    /\ {MaxDay, MaxReturns, MaxRetFaults} \subseteq Nat
    /\ None \notin Parcels \cup Int /\ None \notin ItemRows /\ None \notin ParcelRows

VARIABLES
    retOrders,    \* rows of OrderEntity
    retItem,      \* retItem[i]: row of OrderItemEntity, or None
    retParcel,    \* retParcel[s]: row of ShipmentEntity, or None
    returnDays,   \* returnDays[i]: canBeReturnedForDays of the item's version,
                  \*   None: always; no entry: the version has no row
    returned,     \* the returns, in the order of their commits
    retAnnounced, \* returns whose return/created was published
    retInbox,     \* events the handler has still to take
    retJob,       \* retJob[e]: the items the handler of e has still to upsert
    retReq,       \* retReq[r]: the createReturn in progress
    retDay,       \* today
    retCut,       \* events whose handler stopped after its first insert (history)
    retShared,    \* items two open transactions had loaded (history)
    retFaults     \* failing statements and repeated events so far

retTables == <<retOrders, retItem, retParcel, returnDays>>
retEvents == <<retInbox, retJob, retCut>>
retVars == <<retOrders, retItem, retParcel, returnDays, returned, retAnnounced,
             retInbox, retJob, retReq, retDay, retCut, retShared, retFaults>>

-----------------------------------------------------------------------------
OrderCreated(o) == <<"order/created", o>>
ShipmentCreated(s) == <<"shipment/created", s>>
ShipmentDelivered(s) == <<"shipment/status-updated", s>>
RetEvents == {OrderCreated(o) : o \in RetOrders}
             \cup {ShipmentCreated(s) : s \in Parcels}
             \cup {ShipmentDelivered(s) : s \in Parcels}

OrderOf(i) == CHOOSE o \in RetOrders : i \in ToSet(RetItemsOf[o])
Row(i) == retItem[i] # None
NewRow == [priced |-> FALSE, sentWith |-> None, returnedWith |-> 0]

(* A createReturn: its items, the shipments they were loaded with, and now. *)
RetIdle == [pc |-> "idle", items |-> {}, with |-> [i \in {} |-> None], day |-> 0]

ReturnTypeOK ==
    /\ retOrders \subseteq RetOrders
    /\ \A i \in RetItems : Row(i) =>
          /\ OrderOf(i) \in retOrders
          /\ retItem[i].priced \in BOOLEAN
          /\ retItem[i].sentWith = None \/ retParcel[retItem[i].sentWith] # None
          /\ retItem[i].returnedWith \in 0 .. Len(returned)
    /\ \A s \in Parcels : retParcel[s] # None =>
          retParcel[s].deliveredAt \in (0 .. retDay) \cup {None}
    /\ returnDays \in VersionTables
    /\ \A n \in DOMAIN returned :
          returned[n].items \subseteq ToSet(RetItemsOf[returned[n].order])
    /\ retAnnounced \subseteq DOMAIN returned
    /\ retInbox \subseteq RetEvents
    /\ retJob \in [RetEvents -> Seq(RetItems)]
    /\ \A r \in Requests :
          /\ retReq[r].pc \in {"idle", "validate", "write", "publish"}
          /\ retReq[r].items \subseteq RetItems
          /\ DOMAIN retReq[r].with \subseteq retReq[r].items
          /\ retReq[r].day \in 0 .. retDay
    /\ retDay \in 0 .. MaxDay
    /\ retCut \subseteq RetEvents /\ retShared \subseteq RetItems
    /\ retFaults \in 0 .. MaxRetFaults

ReturnInit ==
    /\ retOrders = {}
    /\ retItem = [i \in RetItems |-> None]
    /\ retParcel = [s \in Parcels |-> None]
    /\ returnDays \in VersionTables
    /\ returned = <<>> /\ retAnnounced = {}
    /\ retInbox = RetEvents
    /\ retJob = [e \in RetEvents |-> <<>>]
    /\ retReq = [r \in Requests |-> RetIdle]
    /\ retDay = 0
    /\ retCut = {} /\ retShared = {}
    /\ retFaults = 0

-----------------------------------------------------------------------------
(* The broker delivers the events in any order, sooner or later, and an     *)
(* event that was taken may come again.                                     *)
RepeatEvent(e) ==
    /\ e \notin retInbox /\ retJob[e] = <<>>
    /\ retFaults < MaxRetFaults /\ retFaults' = retFaults + 1
    /\ retInbox' = retInbox \cup {e}
    /\ UNCHANGED <<retTables, returned, retAnnounced, retJob, retReq, retDay,
                   retCut, retShared>>

NextDay ==
    /\ retDay < MaxDay /\ retDay' = retDay + 1
    /\ UNCHANGED <<retTables, returned, retAnnounced, retEvents, retReq,
                   retShared, retFaults>>

-----------------------------------------------------------------------------
(* The handlers.  The first insert takes the event from the broker; an      *)
(* event whose row exists fails on the primary key, and stays there.        *)
RetFrame == UNCHANGED <<returnDays, returned, retAnnounced, retReq, retDay, retShared>>

HandleOrderCreated(o) ==
    /\ OrderCreated(o) \in retInbox /\ o \notin retOrders
    /\ retOrders' = retOrders \cup {o}
    /\ retInbox' = retInbox \ {OrderCreated(o)}
    /\ retJob' = [retJob EXCEPT ![OrderCreated(o)] = RetItemsOf[o]]
    /\ UNCHANGED <<retItem, retParcel, retCut, retFaults>>
    /\ RetFrame

(* InsertPriceOnly: on conflict the row is left as it is.                   *)
InsertPriceOnly(o) ==
    LET todo == retJob[OrderCreated(o)] IN
    /\ todo # <<>>
    /\ retItem' = [retItem EXCEPT ![Head(todo)] =
                      IF Row(Head(todo)) THEN @ ELSE [NewRow EXCEPT !.priced = TRUE]]
    /\ retJob' = [retJob EXCEPT ![OrderCreated(o)] = Tail(todo)]
    /\ UNCHANGED <<retOrders, retParcel, retInbox, retCut, retFaults>>
    /\ RetFrame

(* Amount and product variant version come together: priced.                *)
UpsertOrderItemFromOrder(o) ==
    LET todo == retJob[OrderCreated(o)] IN
    /\ todo # <<>>
    /\ retItem' = [retItem EXCEPT ![Head(todo)] =
                      [(IF Row(Head(todo)) THEN @ ELSE NewRow)
                          EXCEPT !.priced = TRUE]]
    /\ retJob' = [retJob EXCEPT ![OrderCreated(o)] = Tail(todo)]
    /\ UNCHANGED <<retOrders, retParcel, retInbox, retCut, retFaults>>
    /\ RetFrame

(* A shipment is announced as PENDING.                                      *)
HandleShipmentCreated(s) ==
    /\ ShipmentCreated(s) \in retInbox /\ retParcel[s] = None
    /\ retParcel' = [retParcel EXCEPT ![s] = [deliveredAt |-> None]]
    /\ retInbox' = retInbox \ {ShipmentCreated(s)}
    /\ retJob' = [retJob EXCEPT ![ShipmentCreated(s)] = ParcelItems[s]]
    /\ UNCHANGED <<retOrders, retItem, retCut, retFaults>>
    /\ RetFrame

(* UpsertWithoutOrder: the table has no foreign key.                        *)
UpsertWithoutOrder(s) ==
    LET todo == retJob[ShipmentCreated(s)] IN
    /\ todo # <<>>
    /\ retItem' = [retItem EXCEPT ![Head(todo)] =
                      [(IF Row(Head(todo)) THEN @ ELSE NewRow)
                          EXCEPT !.sentWith = s]]
    /\ retJob' = [retJob EXCEPT ![ShipmentCreated(s)] = Tail(todo)]
    /\ UNCHANGED <<retOrders, retParcel, retInbox, retCut, retFaults>>
    /\ RetFrame

UpsertOrderItemFromShipment(s) ==
    LET todo == retJob[ShipmentCreated(s)] IN
    /\ todo # <<>>
    /\ ParcelOrder[s] \in retOrders
    /\ retItem' = [retItem EXCEPT ![Head(todo)] =
                      [(IF Row(Head(todo)) THEN @ ELSE NewRow)
                          EXCEPT !.sentWith = s]]
    /\ retJob' = [retJob EXCEPT ![ShipmentCreated(s)] = Tail(todo)]
    /\ UNCHANGED <<retOrders, retParcel, retInbox, retCut, retFaults>>
    /\ RetFrame

(* A handler gives up after its first insert: the event goes back to the    *)
(* broker.                                                                  *)
GiveUp(e) ==
    /\ retInbox' = retInbox \cup {e}
    /\ retJob' = [retJob EXCEPT ![e] = <<>>]
    /\ retCut' = retCut \cup {e}
    /\ UNCHANGED retTables
    /\ RetFrame

(* The foreign key: the order of the shipment has no row yet.               *)
OrderUnknown(s) ==
    /\ retJob[ShipmentCreated(s)] # <<>>
    /\ ParcelOrder[s] \notin retOrders
    /\ GiveUp(ShipmentCreated(s))
    /\ UNCHANGED retFaults

HandlerFails(e) ==
    /\ retJob[e] # <<>>
    /\ retFaults < MaxRetFaults /\ retFaults' = retFaults + 1
    /\ GiveUp(e)

(* Only DELIVERED is acted on; an unknown shipment is an error, and the     *)
(* event stays with the broker.                                             *)
HandleShipmentStatusUpdated(s) ==
    /\ ShipmentDelivered(s) \in retInbox /\ retParcel[s] # None
    /\ retParcel' = [retParcel EXCEPT ![s] = [deliveredAt |-> retDay]]
    /\ retInbox' = retInbox \ {ShipmentDelivered(s)}
    /\ UNCHANGED <<retOrders, retItem, retJob, retCut, retFaults>>
    /\ RetFrame

-----------------------------------------------------------------------------
(* createReturn.                                                            *)
ReqFrame == UNCHANGED <<retTables, retEvents, retDay>>
Ask(r, q) == retReq' = [retReq EXCEPT ![r] = q]

(* AnyItems: what was returned before is not looked at.                     *)
AnyItems(items) == items # {}
NoneReturned(items) == \A i \in items : retItem[i].returnedWith = 0

(* The items are loaded, all exist and have their data, none was returned,  *)
(* and the caller bought the first of them.                                 *)
LoadItems(r, u, items) ==
    /\ retReq[r].pc = "idle"
    /\ items # {} /\ \A i \in items : Row(i)
    /\ \E i \in items : BuyerOf[OrderOf(i)] = u
    /\ NoneReturned(items)
    /\ \A i \in items : retItem[i].sentWith # None /\ retItem[i].priced
    /\ Ask(r, [pc |-> "validate", items |-> items, day |-> retDay,
               with |-> [i \in items |-> retItem[i].sentWith]])
    /\ retShared' = retShared \cup
          UNION {items \cap retReq[x].items : x \in Requests}
    /\ UNCHANGED <<returned, retAnnounced, retFaults>>
    /\ ReqFrame

(* A version without a row, or a number of days that is not positive,       *)
(* refuses the return.                                                      *)
CanBeReturnedLater(i, delivered, now) ==
    /\ i \in DOMAIN returnDays
    /\ returnDays[i] # None => now - delivered <= returnDays[i]
CanBeReturned(i, delivered, now) ==
    /\ i \in DOMAIN returnDays
    /\ returnDays[i] # None =>
          returnDays[i] > 0 /\ now - delivered <= returnDays[i]

ValidateReturn(r) ==
    LET q == retReq[r] IN
    /\ q.pc = "validate"
    /\ \A i \in q.items :
          LET delivered == retParcel[q.with[i]].deliveredAt
          IN  delivered # None /\ CanBeReturned(i, delivered, q.day)
    /\ \A i, j \in q.items : OrderOf(i) = OrderOf(j)
    /\ Ask(r, [RetIdle EXCEPT !.pc = "write", !.items = q.items, !.day = q.day])
    /\ UNCHANGED <<returned, retAnnounced, retShared, retFaults>>
    /\ ReqFrame

(* TriggersOff: the triggers compare the orders only.                       *)
TriggersOff(i, order, now) == OrderOf(i) = order

(* check_return_order_match and check_return_within_period look at the      *)
(* rows as they are when the item is linked.                                *)
TriggersPass(i, order, now) ==
    LET delivered == retParcel[retItem[i].sentWith].deliveredAt
    IN  /\ OrderOf(i) = order
        /\ delivered # None
        /\ returnDays[i] # None => now - delivered <= returnDays[i]

(* The return is inserted with the sum of the amounts and the items are     *)
(* linked to it, whatever they are linked to by now.                        *)
CommitReturn(r) ==
    LET q == retReq[r]
        order == OrderOf(CHOOSE i \in q.items : TRUE)
    IN  /\ q.pc = "write"
        /\ Len(returned) < MaxReturns
        /\ \A i \in q.items : TriggersPass(i, order, q.day)
        /\ returned' = Append(returned, [order |-> order, items |-> q.items,
                                         day |-> q.day])
        /\ retItem' = [i \in RetItems |->
              IF i \in q.items
              THEN [retItem[i] EXCEPT !.returnedWith = Len(returned) + 1]
              ELSE retItem[i]]
        /\ Ask(r, [RetIdle EXCEPT !.pc = "publish", !.items = q.items])
        /\ UNCHANGED <<retOrders, retParcel, returnDays, retAnnounced, retEvents, retDay,
                       retShared, retFaults>>

(* return/created, after the commit.                                        *)
PublishReturnCreated(r) ==
    LET q == retReq[r] IN
    /\ q.pc = "publish"
    /\ \E n \in DOMAIN returned :
          /\ returned[n].items = q.items /\ n \notin retAnnounced
          /\ retAnnounced' = retAnnounced \cup {n}
    /\ Ask(r, RetIdle)
    /\ UNCHANGED <<returned, retShared, retFaults>>
    /\ ReqFrame

(* A check refuses the request, a statement fails (two transactions that    *)
(* link the same items in different orders: a deadlock), or the broker does *)
(* not take the event.  An open transaction is rolled back.                 *)
RequestEnds(r) ==
    /\ retReq[r].pc \in {"validate", "write"}
    /\ Ask(r, RetIdle)
    /\ UNCHANGED <<returned, retAnnounced, retShared, retFaults>>
    /\ ReqFrame

PublishFails(r) ==
    /\ retReq[r].pc = "publish"
    /\ retFaults < MaxRetFaults /\ retFaults' = retFaults + 1
    /\ Ask(r, RetIdle)
    /\ UNCHANGED <<returned, retAnnounced, retShared>>
    /\ ReqFrame

-----------------------------------------------------------------------------
HandleOrder(o) == HandleOrderCreated(o) \/ UpsertOrderItemFromOrder(o)
HandleShipment(s) ==
    \/ HandleShipmentCreated(s)
    \/ UpsertOrderItemFromShipment(s)
    \/ OrderUnknown(s)

CreateReturn(r) ==
    \/ \E u \in Users, items \in SUBSET RetItems : LoadItems(r, u, items)
    \/ ValidateReturn(r) \/ CommitReturn(r) \/ PublishReturnCreated(r)
    \/ RequestEnds(r) \/ PublishFails(r)

ReturnNext ==
    \/ \E e \in RetEvents : RepeatEvent(e) \/ HandlerFails(e)
    \/ NextDay
    \/ \E o \in RetOrders : HandleOrder(o)
    \/ \E s \in Parcels : HandleShipment(s) \/ HandleShipmentStatusUpdated(s)
    \/ \E r \in Requests : CreateReturn(r)

(* The orders and their shipments are announced, the broker keeps           *)
(* delivering, and a handler that was started runs on.                      *)
ReturnFairness ==
    /\ \A o \in RetOrders : WF_retVars(HandleOrder(o))
    /\ \A s \in Parcels : WF_retVars(HandleShipment(s))

ReturnSpec == ReturnInit /\ [][ReturnNext]_retVars /\ ReturnFairness

-----------------------------------------------------------------------------
(* An item is in two returns, and refunded twice, only if the transactions  *)
(* of both had loaded it before either committed: nothing is locked, and    *)
(* the check of returnedWithId keeps out only the others.                   *)
ReturnedOnce ==
    \A m, n \in DOMAIN returned :
        m # n => returned[m].items \cap returned[n].items \subseteq retShared

(* A return that is committed is for items which at that moment count as    *)
(* delivered and within their period, also when a second shipment of an     *)
(* item is announced between the validation and the commit (the triggers),  *)
(* and for items that can be returned at all (the validation: the triggers  *)
(* accept zero days).                                                       *)
RefundsDelivered ==
    \A n \in DOMAIN returned' \ DOMAIN returned :
        \A i \in returned'[n].items :
           LET s == retParcel[retItem[i].sentWith]
           IN  /\ s.deliveredAt # None
               /\ returnDays[i] # None =>
                     /\ returnDays[i] # 0
                     /\ returned'[n].day <= s.deliveredAt + returnDays[i]

(* Every return that is committed is due (RefundsDelivered).                *)
RefundedWasDelivered == [][RefundsDelivered]_retVars

(* Every item that was shipped gets the data of its order and its shipment, *)
(* whichever event comes first and whichever handler inserts its row:       *)
(* unless a handler was cut short, by a fault or by the foreign key, and    *)
(* then the primary key fails every repetition.                             *)
ItemsCatchUp ==
    \A s \in Parcels : \A i \in ToSet(ParcelItems[s]) :
        <>(\/ Row(i) /\ retItem[i].priced /\ retItem[i].sentWith # None
           \/ OrderCreated(ParcelOrder[s]) \in retCut
           \/ ShipmentCreated(s) \in retCut)
=============================================================================
