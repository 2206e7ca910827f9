------------------------------ MODULE Shipment -------------------------------
(***************************************************************************)
(* The shipment service: the last step of the order saga, which turns a    *)
(* paid order into one shipment per shipment method, the shipment of a     *)
(* return, and the status callback of the external shipment provider.      *)
(*                                                                         *)
(* A worker is one delivery of payment-enabled or return/created, a        *)
(* callback one POST of the provider.  The saga runs without a             *)
(* transaction: every database call, every POST to the provider and every  *)
(* publish is a step, and what was written stays when a later step fails.  *)
(* An event stays with the broker until its handler succeeds.              *)
(***************************************************************************)
EXTENDS Integers, SequencesExt

CONSTANTS
    Orders,           \* order ids
    Returns,          \* return ids
    OrderItems,       \* OrderItems[o]: the item ids of the order, a sequence
    ReturnItems,      \* ReturnItems[r]: the item ids of the return
    MethodOf,         \* MethodOf[i]: shipment method the item is ordered with
    VersionOf,        \* VersionOf[i]: its product variant version
    QuantityOf,       \* QuantityOf[i]: its quantity, any Int of a cart
    AddressOf,        \* AddressOf[o]: shipment address of the order
    Grams,            \* Grams[v]: weight of a product variant version
    Fee,              \* Fee[m]: baseFees, feesPerItem and feesPerKg
    VendorAddresses,  \* ids of vendor addresses, the destination of returns
    KnownMethods, KnownVersions, KnownAddresses, \* rows from before the start
    Archivable,       \* methods employees may archive
    Retries,          \* values experiments give PROVIDER_RETRIES
    Reported,         \* statuses the provider reports
    Workers,          \* deliveries that can be in progress together
    Callbacks,        \* provider callbacks that can be in progress together
    None,             \* no owner, no address
    MaxCallbacks,     \* bound: provider callbacks
    MaxFaults         \* bound: calls that fail, acknowledgements included

(* validShipmentStatuses.                                                   *)
Statuses == {"PENDING", "IN_PROGRESS", "DELIVERED", "FAILED"}

Items == DOMAIN MethodOf
Methods == DOMAIN Fee
Versions == DOMAIN Grams
Addresses == VendorAddresses \cup {AddressOf[o] : o \in Orders}
Owners == Orders \cup Returns

ASSUME ShipmentAssumption ==
    /\ Orders \cap Returns = {}
    /\ OrderItems \in [Orders -> Seq(Items)]
    /\ ReturnItems \in [Returns -> SUBSET Items]
    /\ MethodOf \in [Items -> Methods]
    /\ VersionOf \in [Items -> Versions]
    /\ QuantityOf \in [Items -> Int]
    /\ Grams \in [Versions -> Nat]
    /\ Fee \in [Methods -> [base : Int, perItem : Int, perKg : Int]]
    /\ KnownMethods \subseteq Methods
    /\ KnownVersions \subseteq Versions
    /\ KnownAddresses \subseteq Addresses
    /\ Archivable \subseteq Methods
    /\ Retries \subseteq Int
    /\ Reported \subseteq Statuses
    /\ None \notin Owners \cup Addresses
    /\ {MaxCallbacks, MaxFaults} \subseteq Nat

VARIABLES
    methods,     \* methods[m]: "NONE", "ACTIVE" or "ARCHIVED"
    announced,   \* shipment-method/created and /archived events
    versions,    \* product variant versions of the replica
    addresses,   \* address ids of the replica
    vendor,      \* the vendor address that was inserted last, or None
    retries,     \* PROVIDER_RETRIES of the experiment configuration
    inbox,       \* owners whose event the broker still has to deliver
    sent,        \* owners whose event was published
    worker,      \* worker[w]: the delivery w is handling
    shipment,    \* the shipments: ids are positions in the order of insertion
    sentWith,    \* sentWith[i]: sentWithId of the item's row, 0 if no row
    joined,      \* join rows: shipment id and item id
    accepted,    \* shipments the provider was told of
    created,     \* ids of shipment/created events
    failed,      \* shipment/creation-failed events: owner and items
    callback,    \* callback[c]: the status update c is handling
    updated,     \* shipment/status-updated events: id, items and status
    doubtful,    \* shipments cut off by a failing call at or after the POST
    deliveries,  \* deliveries[x]: times the event of owner x was delivered
    callbacks, faults  \* provider callbacks and failed calls so far

replicas == <<methods, announced, versions, addresses, vendor, retries>>
tables == <<shipment, sentWith, joined>>
outside == <<accepted, created, failed, doubtful>>
callbackVars == <<callback, updated, callbacks>>
vars == <<methods, announced, versions, addresses, vendor, retries, inbox,
          sent, worker, shipment, sentWith, joined, accepted, created, failed,
          callback, updated, doubtful, deliveries, callbacks, faults>>

-----------------------------------------------------------------------------
Ids == 1 .. Len(shipment)

(* A delivery: the owner of the shipments to create, the method and the     *)
(* items of the current group, the methods of the groups still to do, the   *)
(* address, the id of the group's row, the items the current loop has not   *)
(* reached, and the POSTs that may still be repeated.                       *)
Deliveries ==
    [pc : {"idle", "check", "save", "items", "join", "weigh", "post",
           "publish", "fail"},
     owner : Owners \cup {None}, method : Methods \cup {None},
     rest : SUBSET Methods, address : Addresses \cup {None},
     items : SUBSET Items, id : Nat, todo : SUBSET Items, left : Int]
Idle == [pc |-> "idle", owner |-> None, method |-> None, rest |-> {},
         address |-> None, items |-> {}, id |-> 0, todo |-> {}, left |-> 0]
ShipmentRows ==
    [owner : Owners, method : Methods, address : Addresses,
     status : Statuses, items : SUBSET Items]
CallbackCalls ==
    [pc : {"idle", "read", "publish"}, id : Nat, status : Statuses,
     items : SUBSET Items]
IdleCallback == [pc |-> "idle", id |-> 0, status |-> "PENDING", items |-> {}]

TypeOK ==
    /\ methods \in [Methods -> {"NONE", "ACTIVE", "ARCHIVED"}]
    /\ announced \subseteq {"created", "archived"} \X Methods
    /\ versions \subseteq Versions
    /\ addresses \subseteq Addresses
    /\ vendor \in Addresses \cup {None}
    /\ retries \in Int
    /\ inbox \subseteq sent /\ sent \subseteq Owners
    /\ worker \in [Workers -> Deliveries]
    /\ \A w \in Workers : /\ worker[w].todo \subseteq worker[w].items
                          /\ worker[w].id \in 0 .. Len(shipment)
    /\ shipment \in Seq(ShipmentRows)
    /\ sentWith \in [Items -> 0 .. Len(shipment)]
    /\ joined \subseteq Ids \X Items
    /\ accepted \cup created \cup doubtful \subseteq Ids
    /\ failed \subseteq [owner : Owners, items : SUBSET Items]
    /\ callback \in [Callbacks -> CallbackCalls]
    /\ \A c \in Callbacks : callback[c].id \in 0 .. Len(shipment)
    /\ updated \subseteq [id : Ids, items : SUBSET Items, status : Statuses]
    /\ deliveries \in [Owners -> Nat]
    /\ {callbacks, faults} \subseteq Nat

Init ==
    /\ methods = [m \in Methods |->
                     IF m \in KnownMethods THEN "ACTIVE" ELSE "NONE"]
    /\ announced = {"created"} \X KnownMethods
    /\ versions = KnownVersions
    /\ addresses = KnownAddresses
    /\ vendor \in IF KnownAddresses \cap VendorAddresses = {} THEN {None}
                  ELSE KnownAddresses \cap VendorAddresses
    /\ retries \in Retries
    /\ inbox = {} /\ sent = {}
    /\ worker = [w \in Workers |-> Idle]
    /\ shipment = <<>>
    /\ sentWith = [i \in Items |-> 0]
    /\ joined = {}
    /\ accepted = {} /\ created = {} /\ failed = {}
    /\ callback = [c \in Callbacks |-> IdleCallback]
    /\ updated = {}
    /\ doubtful = {}
    /\ deliveries = [x \in Owners |-> 0]
    /\ callbacks = 0 /\ faults = 0

-----------------------------------------------------------------------------
(* Replicas, shipment methods and configuration.  A replica event that is   *)
(* delivered again fails on the primary key and changes nothing.            *)
ReplicasFrame == UNCHANGED <<inbox, sent, worker, tables, outside,
                             callbackVars, deliveries>>

AddressCreated(a) ==
    /\ a \notin addresses
    /\ addresses' = addresses \cup {a}
    /\ vendor' = IF a \in VendorAddresses THEN a ELSE vendor
    /\ UNCHANGED <<methods, announced, versions, retries, faults>>
    /\ ReplicasFrame

ProductVariantVersionCreated(v) ==
    /\ v \notin versions
    /\ versions' = versions \cup {v}
    /\ UNCHANGED <<methods, announced, addresses, vendor, retries, faults>>
    /\ ReplicasFrame

(* An event is published after the write; if that fails, the row stays.     *)
Announce(e) ==
    \/ announced' = announced \cup {e} /\ UNCHANGED faults
    \/ faults < MaxFaults /\ faults' = faults + 1 /\ UNCHANGED announced

CreateShipmentMethod(m) ==
    /\ methods[m] = "NONE"
    /\ methods' = [methods EXCEPT ![m] = "ACTIVE"]
    /\ Announce(<<"created", m>>)
    /\ UNCHANGED <<versions, addresses, vendor, retries>>
    /\ ReplicasFrame

ArchiveShipmentMethod(m) ==
    /\ methods[m] # "NONE"
    /\ methods' = [methods EXCEPT ![m] = "ARCHIVED"]
    /\ Announce(<<"archived", m>>)
    /\ UNCHANGED <<versions, addresses, vendor, retries>>
    /\ ReplicasFrame

(* POST /ecs/variables: the minimum of the definition is not enforced.      *)
SetVariables(n) ==
    /\ retries' = n
    /\ UNCHANGED <<methods, announced, versions, addresses, vendor, faults>>
    /\ ReplicasFrame

-----------------------------------------------------------------------------
(* The events of the payment and return services.  A return is accepted     *)
(* once the shipments of its items were reported delivered.                 *)
Delivered(i) ==
    \E e \in updated : e.status = "DELIVERED" /\ i \in e.items
                       /\ shipment[e.id].owner \in Orders

Publish(x) ==
    /\ x \notin sent
    /\ sent' = sent \cup {x}
    /\ inbox' = inbox \cup {x}
    /\ UNCHANGED <<replicas, worker, tables, outside, callbackVars,
                   deliveries, faults>>

PaymentEnabled(o) == Publish(o)
ReturnCreated(r) ==
    /\ ReturnItems[r] # {}
    /\ \A i \in ReturnItems[r] : Delivered(i)
    /\ Publish(r)

-----------------------------------------------------------------------------
(* Fee and weight.                                                          *)
MethodKnown(m) == methods[m] # "NONE"
Sum(items, val) == MapThenSumSet(LAMBDA i : val[i], items)

(* calculateQuantityAndWeight succeeds.                                     *)
Weighable(items) ==
    \A i \in items : QuantityOf[i] > 0 /\ VersionOf[i] \in versions

(* calculateFees: the weight part alone is cut to an integer.               *)
CalculateFees(m, items) ==
    LET quantity == Sum(items, QuantityOf)
        grams == Sum(items, [i \in items |->
                              QuantityOf[i] * Grams[VersionOf[i]]])
    IN  Fee[m].base + quantity * Fee[m].perItem
                    + (grams * Fee[m].perKg) \div 1000

(* findLeastExpensiveShipmentMethod: archived methods count, and the table  *)
(* has no order.                                                            *)
LeastExpensive(items) ==
    LET known == {m \in Methods : MethodKnown(m)}
    IN  {m \in known : \A n \in known :
                          CalculateFees(m, items) <= CalculateFees(n, items)}

(* createShipmentForOrder groups the items by method and takes the methods  *)
(* in the order in which they are first met.                                *)
MethodsOf(o) == {MethodOf[i] : i \in Range(OrderItems[o])}
FirstMet(o, m) == Min({n \in DOMAIN OrderItems[o] : MethodOf[OrderItems[o][n]] = m})
NextMethods(o, ms) ==
    {m \in ms : \A n \in ms : FirstMet(o, m) <= FirstMet(o, n)}

(* GroupUpTo: a group takes the items of earlier groups along.              *)
GroupUpTo(o, m) ==
    {i \in Range(OrderItems[o]) : MethodOf[i] = m \/ sentWith[i] # 0}
Group(o, m) == {i \in Range(OrderItems[o]) : MethodOf[i] = m}

(* The work on the next of the groups that are left.                        *)
BeginGroup(o, m, left) ==
    [Idle EXCEPT !.pc = "check", !.owner = o, !.method = m, !.rest = left \ {m},
                 !.address = AddressOf[o], !.items = Group(o, m)]
(* The loop over the methods: it goes on with one that is left, or ends; an *)
(* order without items ends it at once.                                     *)
LoopOver(o, left) ==
    IF left = {} THEN {Idle} ELSE {BeginGroup(o, m, left) : m \in NextMethods(o, left)}

-----------------------------------------------------------------------------
Goto(w, j) == worker' = [worker EXCEPT ![w] = j]

(* The event stays with the broker until its handler succeeds.              *)
Accept(w, x, j) ==
    /\ worker[w].pc = "idle"
    /\ x \in inbox
    /\ inbox' = inbox \ {x}
    /\ deliveries' = [deliveries EXCEPT ![x] = @ + 1]
    /\ Goto(w, j)
    /\ UNCHANGED <<replicas, sent, tables, outside, callbackVars, faults>>

OnPaymentEnabled(w, o) == \E j \in LoopOver(o, MethodsOf(o)) : Accept(w, o, j)

(* createShipmentForReturn up to createShipment.  While no vendor address,  *)
(* no method or none of the items' rows and weights is known, the handler   *)
(* answers with an error and the event is delivered again.                  *)
OnReturnCreated(w, r) ==
    LET items == {i \in ReturnItems[r] : sentWith[i] # 0}
    IN  /\ vendor # None /\ items # {} /\ Weighable(items)
        /\ \E m \in LeastExpensive(items) :
              Accept(w, r, [Idle EXCEPT !.pc = "check", !.owner = r, !.method = m,
                               !.address = vendor, !.items = items])

(* The acknowledgement of a handler is lost or late: the event is delivered *)
(* again, perhaps while the first delivery is in progress.                  *)
RepeatDelivery(x) ==
    /\ x \in sent \ inbox
    /\ faults < MaxFaults /\ faults' = faults + 1
    /\ inbox' = inbox \cup {x}
    /\ UNCHANGED <<replicas, sent, worker, tables, outside, callbackVars,
                   deliveries>>

-----------------------------------------------------------------------------
(* createShipment and tryCreateShipment, for one group.                     *)
At(w, pc) == Goto(w, [worker[w] EXCEPT !.pc = pc])

CheckInput(w) ==
    LET j == worker[w] IN
    /\ j.pc = "check"
    /\ At(w, IF j.address \in addresses /\ MethodKnown(j.method)
             THEN "save" ELSE "fail")
    /\ UNCHANGED <<replicas, inbox, sent, tables, outside, callbackVars,
                   deliveries, faults>>

SaveShipment(w) ==
    LET j == worker[w] IN
    /\ j.pc = "save"
    /\ shipment' = Append(shipment,
                      [owner |-> j.owner, method |-> j.method,
                       address |-> j.address, status |-> "PENDING",
                       items |-> j.items])
    /\ Goto(w, [j EXCEPT !.id = Len(shipment) + 1, !.todo = j.items,
                         !.pc = IF j.owner \in Orders THEN "items" ELSE "join"])
    /\ UNCHANGED <<replicas, inbox, sent, sentWith, joined, outside,
                   callbackVars, deliveries, faults>>

(* Item i is done.  The items of a group come in any order; the loop over   *)
(* them ends with the last one.                                             *)
NextItem(w, i, last) ==
    LET j == worker[w] IN
    Goto(w, IF j.todo = {i} THEN [j EXCEPT !.todo = j.items, !.pc = last]
            ELSE [j EXCEPT !.todo = j.todo \ {i}])

(* UpsertOrderItemAnew: the conflict updates the row.                       *)
UpsertOrderItemAnew(w, i) ==
    LET j == worker[w] IN
    /\ j.pc = "items" /\ i \in j.todo
    /\ sentWith' = [sentWith EXCEPT ![i] = j.id]
    /\ NextItem(w, i, "join")
    /\ UNCHANGED <<replicas, inbox, sent, shipment, joined, outside,
                   callbackVars, deliveries, faults>>

(* upsertOrderItems, on conflict nothing: the first shipment is kept.       *)
UpsertOrderItem(w, i) ==
    LET j == worker[w] IN
    /\ j.pc = "items" /\ i \in j.todo
    /\ sentWith' = [sentWith EXCEPT ![i] = IF @ = 0 THEN j.id ELSE @]
    /\ NextItem(w, i, "join")
    /\ UNCHANGED <<replicas, inbox, sent, shipment, joined, outside,
                   callbackVars, deliveries, faults>>

JoinOrderItem(w, i) ==
    LET j == worker[w] IN
    /\ j.pc = "join" /\ i \in j.todo
    /\ joined' = joined \cup {<<j.id, i>>}
    /\ NextItem(w, i, "weigh")
    /\ UNCHANGED <<replicas, inbox, sent, shipment, sentWith, outside,
                   callbackVars, deliveries, faults>>

(* WeighLate: the provider is told before the items are checked.            *)
WeighLate(w) ==
    LET j == worker[w] IN
    /\ j.pc = "weigh"
    /\ accepted' = accepted \cup {j.id}
    /\ At(w, IF Weighable(j.items) THEN "publish" ELSE "fail")
    /\ UNCHANGED <<replicas, inbox, sent, tables, created, failed, doubtful,
                   callbackVars, deliveries, faults>>

(* sendToProvider up to the POST; the number of repetitions is read now.    *)
Weigh(w) ==
    LET j == worker[w] IN
    /\ j.pc = "weigh"
    /\ Goto(w, IF Weighable(j.items)
               THEN [j EXCEPT !.pc = "post", !.left = retries]
               ELSE [j EXCEPT !.pc = "fail"])
    /\ UNCHANGED <<replicas, inbox, sent, tables, outside, callbackVars,
                   deliveries, faults>>

Post(w) ==
    LET j == worker[w] IN
    /\ j.pc = "post"
    /\ accepted' = accepted \cup {j.id}
    /\ At(w, "publish")
    /\ UNCHANGED <<replicas, inbox, sent, tables, created, failed, doubtful,
                   callbackVars, deliveries, faults>>

(* PostGivesUp: the last failure is taken for a success.                    *)
PostGivesUp(w, reached) ==
    LET j == worker[w] IN
    /\ j.pc = "post"
    /\ faults < MaxFaults /\ faults' = faults + 1
    /\ accepted' = IF reached THEN accepted \cup {j.id} ELSE accepted
    /\ Goto(w, IF j.left > 0 THEN [j EXCEPT !.left = j.left - 1]
               ELSE [j EXCEPT !.pc = "publish"])
    /\ UNCHANGED <<replicas, inbox, sent, tables, created, failed, doubtful,
                   callbackVars, deliveries>>

(* A POST that fails, whether it reached the provider or not, is repeated   *)
(* retries times, and then ends the creation.                               *)
PostFails(w, reached) ==
    LET j == worker[w] IN
    /\ j.pc = "post"
    /\ faults < MaxFaults /\ faults' = faults + 1
    /\ accepted' = IF reached THEN accepted \cup {j.id} ELSE accepted
    /\ doubtful' = doubtful \cup {j.id}
    /\ Goto(w, IF j.left > 0 THEN [j EXCEPT !.left = j.left - 1]
               ELSE [j EXCEPT !.pc = "fail"])
    /\ UNCHANGED <<replicas, inbox, sent, tables, created, failed,
                   callbackVars, deliveries>>

(* NextGroupInLoop: the loops over the items are not begun anew.            *)
NextGroupInLoop(w) ==
    LET j == worker[w] IN
    \/ j.rest = {} /\ Goto(w, Idle)
    \/ \E m \in NextMethods(j.owner, j.rest) :
          Goto(w, [j EXCEPT !.pc = "check", !.method = m, !.rest = j.rest \ {m},
                            !.items = Group(j.owner, m)])

(* The next group of the order, or the end of the delivery.                 *)
NextGroup(w) == \E j \in LoopOver(worker[w].owner, worker[w].rest) : Goto(w, j)

Answer(j) == [owner |-> j.owner, items |-> j.items]

PublishShipmentCreated(w) ==
    LET j == worker[w] IN
    /\ j.pc = "publish"
    /\ created' = created \cup {j.id}
    /\ NextGroup(w)
    /\ UNCHANGED <<replicas, inbox, sent, tables, accepted, failed, doubtful,
                   callbackVars, deliveries, faults>>

PublishShipmentCreationFailed(w) ==
    LET j == worker[w] IN
    /\ j.pc = "fail"
    /\ failed' = failed \cup {Answer(j)}
    /\ NextGroup(w)
    /\ UNCHANGED <<replicas, inbox, sent, tables, accepted, created, doubtful,
                   callbackVars, deliveries, faults>>

(* A database call fails: the group is answered with creation-failed, and   *)
(* nothing is rolled back.                                                  *)
CallFails(w) ==
    /\ worker[w].pc \in {"check", "save", "items", "join", "weigh"}
    /\ faults < MaxFaults /\ faults' = faults + 1
    /\ At(w, "fail")
    /\ UNCHANGED <<replicas, inbox, sent, tables, outside, callbackVars,
                   deliveries>>

(* The publish of the created event fails, whether the broker has it or     *)
(* not: the group is answered with creation-failed as well.                 *)
PublishCreatedFails(w, reached) ==
    LET j == worker[w] IN
    /\ j.pc = "publish"
    /\ faults < MaxFaults /\ faults' = faults + 1
    /\ created' = IF reached THEN created \cup {j.id} ELSE created
    /\ doubtful' = doubtful \cup {j.id}
    /\ At(w, "fail")
    /\ UNCHANGED <<replicas, inbox, sent, tables, accepted, failed,
                   callbackVars, deliveries>>

(* DeliveryFailsSilently: the error is logged and the event acknowledged.   *)
DeliveryFailsSilently(w) ==
    /\ worker[w].pc # "idle"
    /\ faults < MaxFaults /\ faults' = faults + 1
    /\ Goto(w, Idle)
    /\ UNCHANGED <<replicas, inbox, sent, tables, outside, callbackVars,
                   deliveries>>

(* The failed event cannot be published either, or the process dies: the    *)
(* whole event is delivered again.                                          *)
DeliveryFails(w) ==
    LET j == worker[w] IN
    /\ j.pc # "idle"
    /\ faults < MaxFaults /\ faults' = faults + 1
    /\ inbox' = inbox \cup {j.owner}
    /\ Goto(w, Idle)
    /\ doubtful' = IF j.pc \in {"post", "publish"}
                   THEN doubtful \cup {j.id} ELSE doubtful
    /\ UNCHANGED <<replicas, sent, tables, accepted, created, failed,
                   callbackVars, deliveries>>

-----------------------------------------------------------------------------
(* POST /shipment/{id}/status: the provider reports on a shipment it knows. *)
(* Any status may follow any other.                                         *)
CallbackFrame == UNCHANGED <<replicas, inbox, sent, worker, sentWith, joined,
                             outside, deliveries>>

UpdateShipmentStatus(c, s, status) ==
    /\ callback[c].pc = "idle"
    /\ s \in accepted
    /\ callbacks < MaxCallbacks /\ callbacks' = callbacks + 1
    /\ shipment' = [shipment EXCEPT ![s].status = status]
    /\ callback' = [callback EXCEPT ![c] =
                       [pc |-> "read", id |-> s, status |-> status, items |-> {}]]
    /\ UNCHANGED <<updated, faults>>
    /\ CallbackFrame

(* ReadSentItems: the items whose own row names the shipment.               *)
ReadSentItems(c) ==
    LET k == callback[c] IN
    /\ k.pc = "read"
    /\ callback' = [callback EXCEPT ![c] =
                       [k EXCEPT !.pc = "publish",
                                 !.items = {i \in Items : sentWith[i] = k.id}]]
    /\ UNCHANGED <<shipment, updated, callbacks, faults>>
    /\ CallbackFrame

ReadOrderItems(c) ==
    LET k == callback[c] IN
    /\ k.pc = "read"
    /\ callback' = [callback EXCEPT ![c] =
                       [k EXCEPT !.pc = "publish",
                                 !.items = {i \in Items : <<k.id, i>> \in joined}]]
    /\ UNCHANGED <<shipment, updated, callbacks, faults>>
    /\ CallbackFrame

PublishShipmentStatusUpdated(c) ==
    LET k == callback[c] IN
    /\ k.pc = "publish"
    /\ updated' = updated \cup
                     {[id |-> k.id, items |-> k.items, status |-> k.status]}
    /\ callback' = [callback EXCEPT ![c] = IdleCallback]
    /\ UNCHANGED <<shipment, callbacks, faults>>
    /\ CallbackFrame

(* The provider gets an error, or the broker loses the event.               *)
CallbackFails(c) ==
    /\ callback[c].pc # "idle"
    /\ faults < MaxFaults /\ faults' = faults + 1
    /\ callback' = [callback EXCEPT ![c] = IdleCallback]
    /\ UNCHANGED <<shipment, updated, callbacks>>
    /\ CallbackFrame

-----------------------------------------------------------------------------
Replicate ==
    \/ \E a \in Addresses : AddressCreated(a)
    \/ \E v \in Versions : ProductVariantVersionCreated(v)
    \/ \E m \in Methods : CreateShipmentMethod(m)

Admin ==
    \/ \E m \in Archivable : ArchiveShipmentMethod(m)
    \/ \E n \in Retries : SetVariables(n)

Environment ==
    \/ \E o \in Orders : PaymentEnabled(o)
    \/ \E r \in Returns : ReturnCreated(r)
    \/ \E x \in Owners : RepeatDelivery(x)

Handle(w) ==
    \/ \E o \in Orders : OnPaymentEnabled(w, o)
    \/ \E r \in Returns : OnReturnCreated(w, r)

Create(w) ==
    \/ CheckInput(w)
    \/ SaveShipment(w)
    \/ \E i \in worker[w].todo : UpsertOrderItem(w, i) \/ JoinOrderItem(w, i)
    \/ Weigh(w)
    \/ Post(w)
    \/ PublishShipmentCreated(w)
    \/ PublishShipmentCreationFailed(w)

Fail(w) ==
    \/ \E reached \in BOOLEAN : PostFails(w, reached)
    \/ CallFails(w)
    \/ \E reached \in BOOLEAN : PublishCreatedFails(w, reached)
    \/ DeliveryFails(w)

Report(c) == ReadOrderItems(c) \/ PublishShipmentStatusUpdated(c)

Next ==
    \/ Replicate
    \/ Admin
    \/ Environment
    \/ \E w \in Workers : Handle(w) \/ Create(w) \/ Fail(w)
    \/ \E c \in Callbacks :
          \/ \E s \in accepted, status \in Reported :
                UpdateShipmentStatus(c, s, status)
          \/ Report(c)
          \/ CallbackFails(c)

Spec == Init /\ [][Next]_vars

(* The broker keeps delivering, a handler that was started runs on, and     *)
(* the events that fill the replicas arrive in the end.                     *)
FairSpec ==
    /\ Spec
    /\ \A w \in Workers : WF_vars(Handle(w)) /\ WF_vars(Create(w))
    /\ \A c \in Callbacks : WF_vars(Report(c))
    /\ WF_vars(Replicate)

-----------------------------------------------------------------------------
(* A shipment/created event is the truth: the items have their rows, the    *)
(* join rows are complete and the provider knows the shipment, whatever     *)
(* failed before and however often the POST was repeated                    *)
(* (tryCreateShipment, Send).                                               *)
CreatedIsComplete ==
    \A s \in created :
        /\ s \in accepted
        /\ \A i \in shipment[s].items : sentWith[i] # 0 /\ <<s, i>> \in joined

(* A status-updated event names every item of its shipment, also when the   *)
(* provider calls back before tryCreateShipment is through: the inventory   *)
(* and return services act on the items it names.                           *)
UpdateNamesAllItems ==
    \A e \in updated : e.items = shipment[e.id].items

(* What the service announces is true.                                      *)
AnnouncementsAreTrue == CreatedIsComplete /\ UpdateNamesAllItems

(* An item keeps the shipment it was first sent with, and that is one of    *)
(* its own order and method, never the shipment of a return: what createOr- *)
(* derItem writes on conflict, over repeated deliveries and returns.        *)
SentWithItsOrder ==
    [][/\ \A i \in Items : sentWith[i] # 0 => sentWith'[i] = sentWith[i]
       /\ \A i \in Items : sentWith'[i] # 0 =>
             LET s == shipment'[sentWith'[i]]
             IN  s.owner \in Orders /\ s.method = MethodOf[i]
                 /\ i \in Range(OrderItems[s.owner])]_vars

(* A payment-enabled event that is delivered once sends every item once,    *)
(* whatever fails: the groups of createShipmentForOrder are disjoint and a  *)
(* failed one is not tried again.                                           *)
SentOnce ==
    \A s, t \in Ids :
        LET o == shipment[s].owner IN
        s # t /\ o \in Orders /\ shipment[t].owner = o /\ deliveries[o] = 1
            => shipment[s].items \cap shipment[t].items = {}

(* A creation-failed event makes the order service refund the items.  While *)
(* the event of the order is delivered once, they are refunded although the *)
(* provider has them only if a call failed at or after the POST: no check   *)
(* that can fail comes after it (tryCreateShipment).                        *)
RefundedIsNotSent ==
    \A f \in failed : \A s \in accepted :
        /\ shipment[s].owner = f.owner /\ deliveries[f.owner] = 1
        /\ shipment[s].items \cap f.items # {}
        => s \in doubtful

(* Every group of a paid order, and every return whose items were sent, is  *)
(* answered with created or creation-failed in the end: a handler that      *)
(* fails is repeated, and the returns wait for their replicas.              *)
Answered(x, items) ==
    \/ \E s \in created : shipment[s].owner = x /\ shipment[s].items = items
    \/ [owner |-> x, items |-> items] \in failed

OwnersAnswered ==
    /\ \A o \in Orders : \A m \in MethodsOf(o) :
          o \in sent ~> Answered(o, Group(o, m))
    /\ \A r \in Returns : r \in sent ~> Answered(r, ReturnItems[r])
=============================================================================
