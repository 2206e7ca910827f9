---------------------------- MODULE ShipmentProofs ---------------------------
(***************************************************************************)
(* The shipment saga for any number of orders, returns, methods and        *)
(* deliveries in progress, with any number of failing calls and repeated   *)
(* events: what it announces is true, what it refunds was not sent, and    *)
(* items are sent once and with their own order.                           *)
(***************************************************************************)
EXTENDS Shipment, TLAPS

-----------------------------------------------------------------------------

(* What the rows say.  The shipment of an order has the items of one group, *)
(* an item's row names a shipment of its order, and a join row an item of   *)
(* its shipment.                                                            *)
RowsOK ==
    /\ \A s \in Ids : shipment[s].owner \in Orders =>
          shipment[s].items = Group(shipment[s].owner, shipment[s].method)
    /\ \A i \in Items : sentWith[i] # 0 =>
          shipment[sentWith[i]].owner \in Orders /\ i \in shipment[sentWith[i]].items
    /\ \A s \in Ids, i \in Items : <<s, i>> \in joined => i \in shipment[s].items

(* The provider is told of a shipment when its rows are complete, and the   *)
(* created event comes after that.                                          *)
AcceptedOK ==
    /\ created \subseteq accepted
    /\ \A s \in accepted : \A i \in shipment[s].items :
          <<s, i>> \in joined /\ sentWith[i] # 0

(* The provider calls back about shipments it was told of.                  *)
CallbackOK ==
    /\ \A c \in Callbacks :
          /\ callback[c].pc # "idle" => callback[c].id \in accepted
          /\ callback[c].pc = "publish" =>
                callback[c].items = shipment[callback[c].id].items
    /\ UpdateNamesAllItems

(* A delivery in progress works on a group of its owner.                    *)
GroupOK(w) ==
    LET j == worker[w] IN
    j.pc # "idle" =>
        /\ j.owner \in Owners /\ j.owner \in sent
        /\ j.method \in Methods /\ j.address \in Addresses
        /\ j.owner \in Orders => j.items = Group(j.owner, j.method)
        /\ j.owner \in Returns => j.rest = {} /\ \A i \in j.items : sentWith[i] # 0
        /\ \A m \in j.rest : j.items \cap Group(j.owner, m) = {}

(* Its row is that of the group, and the items before todo are done.        *)
ProgressOK(w) ==
    LET j == worker[w] IN
    /\ j.pc = "idle" => j.id = 0
    /\ j.pc \in {"check", "save"} => j.id = 0
    /\ j.pc \in {"items", "join", "weigh", "post", "publish"} => j.id # 0
    /\ j.id # 0 => /\ shipment[j.id].owner = j.owner
                   /\ shipment[j.id].method = j.method
                   /\ shipment[j.id].items = j.items
    /\ j.pc = "items" => /\ j.owner \in Orders
                         /\ \A i \in j.items \ j.todo : sentWith[i] # 0
    /\ j.pc \in {"join", "weigh", "post", "publish"} =>
          \A i \in j.items : sentWith[i] # 0
    /\ j.pc = "join" => \A i \in j.items \ j.todo : <<j.id, i>> \in joined
    /\ j.pc \in {"weigh", "post", "publish"} => \A i \in j.items : <<j.id, i>> \in joined

(* The provider knows of the row from the POST on only, and a creation that *)
(* fails with the row at the provider was cut off by a failing call.        *)
TellingOK(w) ==
    LET j == worker[w] IN
    /\ j.pc \in {"items", "join", "weigh"} => j.id \notin accepted
    /\ j.pc \in {"post", "fail"} /\ j.id \in accepted => j.id \in doubtful
    /\ j.pc = "publish" => j.id \in accepted

DistinctIds ==
    \A w, u \in Workers : w # u /\ worker[w].id # 0 => worker[w].id # worker[u].id

(* Work on an owner, a row and an answer come from a delivery of its event, *)
(* and two deliveries in progress are two deliveries.                       *)
CountedOK ==
    /\ \A w \in Workers : worker[w].pc # "idle" => deliveries[worker[w].owner] >= 1
    /\ \A w, u \in Workers :
          /\ w # u /\ worker[w].pc # "idle" /\ worker[u].pc # "idle"
          /\ worker[w].owner = worker[u].owner
          => deliveries[worker[w].owner] > 1
    /\ \A s \in Ids : deliveries[shipment[s].owner] >= 1
    /\ \A f \in failed : deliveries[f.owner] >= 1

(* While the event was delivered once, the group in progress and those to   *)
(* come share no item with another row or with an answer of the owner.      *)
ApartOK(w) ==
    LET j == worker[w] IN
    j.pc # "idle" /\ deliveries[j.owner] = 1 =>
        /\ \A s \in Ids : shipment[s].owner = j.owner =>
              /\ s # j.id => shipment[s].items \cap j.items = {}
              /\ \A m \in j.rest : shipment[s].items \cap Group(j.owner, m) = {}
        /\ \A f \in failed : f.owner = j.owner =>
              /\ f.items \cap j.items = {}
              /\ \A m \in j.rest : f.items \cap Group(j.owner, m) = {}

RowsApart ==
    \A s, t \in Ids :
        /\ s # t /\ shipment[t].owner = shipment[s].owner
        /\ deliveries[shipment[s].owner] = 1
        => shipment[s].items \cap shipment[t].items = {}

WorkOK == \A w \in Workers : GroupOK(w) /\ ProgressOK(w) /\ TellingOK(w) /\ ApartOK(w)

Inv ==
    /\ TypeOK /\ RowsOK /\ AcceptedOK /\ CallbackOK /\ WorkOK /\ DistinctIds
    /\ CountedOK /\ RowsApart /\ RefundedIsNotSent

-----------------------------------------------------------------------------
(* The parts of the invariant, and its proof from them.                     *)
LEMMA InvParts ==
    ASSUME Inv
    PROVE  /\ TypeOK /\ RowsOK /\ AcceptedOK /\ CallbackOK /\ WorkOK /\ DistinctIds
           /\ CountedOK /\ RowsApart /\ RefundedIsNotSent
BY DEF Inv

(* Rows, deliveries and calls have their fields.                            *)
LEMMA DeliveryFields ==
    ASSUME TypeOK, NEW w \in Workers
    PROVE  /\ worker[w] \in Deliveries
           /\ worker[w].owner \in Owners \cup {None}
           /\ worker[w].rest \subseteq Methods /\ worker[w].items \subseteq Items
           /\ worker[w].todo \subseteq worker[w].items
           /\ worker[w].id \in Nat /\ worker[w].id <= Len(shipment)
           /\ worker[w].id # 0 => worker[w].id \in Ids
<1>1. worker[w] \in Deliveries /\ worker[w].id \in 0 .. Len(shipment)
      /\ worker[w].todo \subseteq worker[w].items /\ Len(shipment) \in Nat
  BY DEF TypeOK
<1> QED
  BY <1>1 DEF Deliveries, Ids

LEMMA RowFields ==
    ASSUME TypeOK, NEW s \in Ids
    PROVE  /\ shipment[s] \in ShipmentRows /\ s \in Nat /\ s # 0 /\ s <= Len(shipment)
           /\ shipment[s].owner \in Owners /\ shipment[s].items \subseteq Items
<1>1. shipment[s] \in ShipmentRows
  BY DEF TypeOK, Ids
<1>2. s \in Nat /\ s # 0 /\ s <= Len(shipment)
  BY DEF TypeOK, Ids
<1> QED
  BY <1>1, <1>2 DEF ShipmentRows

LEMMA CallFields ==
    ASSUME TypeOK, NEW c \in Callbacks
    PROVE  /\ callback[c] \in CallbackCalls /\ callback[c].status \in Statuses
           /\ callback[c].id \in 0 .. Len(shipment) /\ callback[c].items \subseteq Items
BY DEF TypeOK, CallbackCalls

(* Groups are items, and two of them share none.                            *)
LEMMA GroupItems ==
    ASSUME NEW o \in Orders, NEW m
    PROVE  Group(o, m) \subseteq Items
<1>1. OrderItems[o] \in Seq(Items)
  BY ShipmentAssumption
<1>2. Range(OrderItems[o]) \subseteq Items
  BY <1>1 DEF Range
<1> QED
  BY <1>2 DEF Group

LEMMA GroupsApart ==
    ASSUME NEW o, NEW m, NEW n, m # n
    PROVE  Group(o, m) \cap Group(o, n) = {}
BY DEF Group

LEMMA InitInv == Init => Inv
<1> SUFFICES ASSUME Init PROVE Inv
  OBVIOUS
<1>1. /\ shipment = <<>> /\ Len(shipment) = 0 /\ Ids = {}
      /\ <<>> \in Seq(ShipmentRows)
  BY DEF Init, Ids
<1>2. /\ \A w \in Workers : worker[w] = Idle
      /\ \A c \in Callbacks : callback[c] = IdleCallback
  BY DEF Init
<1>3. Idle \in Deliveries /\ Idle.pc = "idle" /\ Idle.id = 0 /\ Idle.todo \subseteq Idle.items
  BY DEF Idle, Deliveries
<1>4. IdleCallback \in CallbackCalls /\ IdleCallback.pc = "idle" /\ IdleCallback.id = 0
  BY DEF IdleCallback, CallbackCalls, Statuses
<1>5. methods \in [Methods -> {"NONE", "ACTIVE", "ARCHIVED"}]
  BY DEF Init
<1>6. announced \subseteq {"created", "archived"} \X Methods
  BY ShipmentAssumption DEF Init
<1>7. addresses \subseteq Addresses /\ vendor \in Addresses \cup {None}
  BY ShipmentAssumption DEF Init, Addresses
<1>8. worker \in [Workers -> Deliveries] /\ callback \in [Callbacks -> CallbackCalls]
  BY <1>3, <1>4 DEF Init
<1>9. versions \subseteq Versions /\ retries \in Int
  BY ShipmentAssumption DEF Init
<1>10. TypeOK
  <2>1. /\ inbox \subseteq sent /\ sent \subseteq Owners
        /\ sentWith \in [Items -> 0 .. Len(shipment)]
        /\ joined \subseteq Ids \X Items /\ accepted \cup created \cup doubtful \subseteq Ids
        /\ failed \subseteq [owner : Owners, items : SUBSET Items]
        /\ updated \subseteq [id : Ids, items : SUBSET Items, status : Statuses]
        /\ deliveries \in [Owners -> Nat] /\ {callbacks, faults} \subseteq Nat
    BY <1>1 DEF Init
  <2>2. /\ \A w \in Workers : /\ worker[w].todo \subseteq worker[w].items
                              /\ worker[w].id \in 0 .. Len(shipment)
        /\ \A c \in Callbacks : callback[c].id \in 0 .. Len(shipment)
    BY <1>1, <1>2, <1>3, <1>4
  <2> QED
    BY <1>1, <1>5, <1>6, <1>7, <1>8, <1>9, <2>1, <2>2 DEF TypeOK
<1>11. RowsOK /\ AcceptedOK /\ RowsApart /\ RefundedIsNotSent
  BY <1>1 DEF Init, RowsOK, AcceptedOK, RowsApart, RefundedIsNotSent
<1>12. CallbackOK
  BY <1>2, <1>4 DEF Init, CallbackOK, UpdateNamesAllItems
<1>13. WorkOK
  BY <1>2, <1>3 DEF WorkOK, GroupOK, ProgressOK, TellingOK, ApartOK
<1>14. DistinctIds /\ CountedOK
  BY <1>1, <1>2, <1>3 DEF Init, DistinctIds, CountedOK
<1> QED
  BY <1>10, <1>11, <1>12, <1>13, <1>14 DEF Inv

-----------------------------------------------------------------------------
(* What a step may do without touching a delivery.                          *)
LEMMA QuietKeeps ==
    ASSUME Inv, TypeOK', sent \subseteq sent',
           UNCHANGED <<worker, shipment, sentWith, joined, accepted, created, failed,
                       callback, updated, doubtful, deliveries>>
    PROVE  Inv'
<1>1. RowsOK' /\ AcceptedOK' /\ CallbackOK' /\ RowsApart' /\ RefundedIsNotSent'
  BY DEF Inv, RowsOK, AcceptedOK, CallbackOK, UpdateNamesAllItems, RowsApart,
         RefundedIsNotSent, Ids, Group
<1>2. DistinctIds' /\ CountedOK'
  BY DEF Inv, DistinctIds, CountedOK, Ids
<1>3. ASSUME NEW w \in Workers
      PROVE  GroupOK(w)' /\ ProgressOK(w)' /\ TellingOK(w)' /\ ApartOK(w)'
  <2>1. GroupOK(w) /\ ProgressOK(w) /\ TellingOK(w) /\ ApartOK(w)
    BY DEF Inv, WorkOK
  <2>2. GroupOK(w)'
    BY <2>1 DEF GroupOK, Group
  <2>3. ProgressOK(w)' /\ TellingOK(w)'
    BY <2>1 DEF ProgressOK, TellingOK
  <2>4. ApartOK(w)'
    BY <2>1 DEF ApartOK, Group, Ids
  <2> QED
    BY <2>2, <2>3, <2>4
<1> QED
  BY <1>1, <1>2, <1>3 DEF Inv, WorkOK

(* A step of delivery w that leaves the rows of shipments alone: it may     *)
(* tell the provider of its own row, answer for its own group, and go on    *)
(* with the same owner or end.                                              *)
StepOf(w) ==
    /\ worker[w].pc # "idle"
    /\ \A u \in Workers \ {w} : worker'[u] = worker[u]
    /\ worker'[w].pc = "idle" \/ worker'[w].owner = worker[w].owner
    /\ worker'[w].id \in {0, worker[w].id}
    /\ UNCHANGED <<shipment, deliveries, callback, updated>>
    /\ \A i \in Items : sentWith[i] # 0 => sentWith'[i] # 0
    /\ joined \subseteq joined' /\ doubtful \subseteq doubtful' /\ sent \subseteq sent'
    /\ accepted \subseteq accepted' /\ accepted' \subseteq accepted \cup {worker[w].id}
    /\ failed' \subseteq failed \cup {Answer(worker[w])}

(* The other deliveries do not notice it.                                   *)
LEMMA OthersGoOn ==
    ASSUME Inv, TypeOK', NEW w \in Workers, StepOf(w), NEW u \in Workers \ {w}
    PROVE  GroupOK(u)' /\ ProgressOK(u)' /\ TellingOK(u)' /\ ApartOK(u)'
<1>1. GroupOK(u) /\ ProgressOK(u) /\ TellingOK(u) /\ ApartOK(u)
  BY DEF Inv, WorkOK
<1>2. worker'[u] = worker[u] /\ shipment' = shipment /\ deliveries' = deliveries
  BY DEF StepOf
<1>3. worker[u].items \subseteq Items
  BY DeliveryFields DEF Inv
<1>4. GroupOK(u)'
  BY <1>1, <1>2, <1>3 DEF StepOf, GroupOK, Group
<1>5. ProgressOK(u)'
  BY <1>1, <1>2, <1>3 DEF StepOf, ProgressOK
<1>6. TellingOK(u)'
  <2>1. worker[u].id # 0 => worker[u].id # worker[w].id
    BY DEF Inv, DistinctIds
  <2>2. worker[u].id \in accepted' => worker[u].id \in accepted
    <3>1. accepted' \subseteq Ids /\ \A s \in Ids : s # 0
      BY <1>2 DEF TypeOK, Ids
    <3> QED
      BY <2>1, <3>1 DEF StepOf
  <2> QED
    BY <1>1, <1>2, <2>2 DEF StepOf, TellingOK
<1>7. ApartOK(u)'
  <2>1. SUFFICES ASSUME worker[u].pc # "idle", deliveries[worker[u].owner] = 1,
                        NEW f \in failed', f.owner = worker[u].owner
                 PROVE  f \in failed
    BY <1>1, <1>2, <2>1 DEF ApartOK, Ids, Group
  <2>2. CASE f = Answer(worker[w])
    <3>1. worker[w].owner = worker[u].owner /\ worker[w].pc # "idle"
      BY <2>1, <2>2 DEF Answer, StepOf
    <3>2. deliveries[worker[u].owner] > 1
      BY <2>1, <3>1 DEF Inv, CountedOK
    <3> QED
      BY <2>1, <3>2
  <2> QED
    BY <2>1, <2>2 DEF StepOf
<1> QED
  BY <1>4, <1>5, <1>6, <1>7

LEMMA StepOfKeeps ==
    ASSUME Inv, TypeOK', NEW w \in Workers, StepOf(w),
           GroupOK(w)', ProgressOK(w)', TellingOK(w)', ApartOK(w)',
           RowsOK', AcceptedOK', RefundedIsNotSent'
    PROVE  Inv'
<1>1. WorkOK'
  BY OthersGoOn DEF WorkOK
<1>2. CallbackOK'
  BY DEF Inv, CallbackOK, UpdateNamesAllItems, StepOf
<1>3. RowsApart'
  BY DEF Inv, RowsApart, StepOf, Ids
<1>4. DistinctIds'
  BY DEF Inv, DistinctIds, StepOf
<1>5. CountedOK'
  <2>1. /\ \A u \in Workers : worker'[u].pc # "idle" =>
              worker[u].pc # "idle" /\ worker'[u].owner = worker[u].owner
        /\ shipment' = shipment /\ deliveries' = deliveries /\ worker[w].pc # "idle"
    BY DEF StepOf
  <2>2. \A f \in failed' : f \in failed \/ f.owner = worker[w].owner
    BY DEF StepOf, Answer
  <2> QED
    BY <2>1, <2>2 DEF Inv, CountedOK, Ids
<1> QED
  BY <1>1, <1>2, <1>3, <1>4, <1>5 DEF Inv

(* A step within a group, and the end of a delivery.                        *)
SameGroup(w) ==
    /\ worker'[w].owner = worker[w].owner /\ worker'[w].method = worker[w].method
    /\ worker'[w].rest = worker[w].rest /\ worker'[w].address = worker[w].address
    /\ worker'[w].items = worker[w].items /\ worker'[w].id = worker[w].id

LEMMA SameGroupGoesOn ==
    ASSUME Inv, NEW w \in Workers, StepOf(w), SameGroup(w), failed' = failed
    PROVE  GroupOK(w)' /\ ApartOK(w)'
<1>1. GroupOK(w) /\ ApartOK(w) /\ worker[w].items \subseteq Items
  BY DeliveryFields DEF Inv, WorkOK
<1>2. /\ worker[w].pc # "idle" /\ UNCHANGED <<shipment, deliveries>> /\ sent \subseteq sent'
      /\ \A i \in Items : sentWith[i] # 0 => sentWith'[i] # 0
  BY DEF StepOf
<1>3. GroupOK(w)'
  BY <1>1, <1>2 DEF SameGroup, GroupOK, Group
<1>4. ApartOK(w)'
  BY <1>1, <1>2 DEF SameGroup, ApartOK, Group, Ids
<1> QED
  BY <1>3, <1>4

LEMMA EndOfDelivery ==
    ASSUME NEW w \in Workers, worker'[w] = Idle
    PROVE  GroupOK(w)' /\ ProgressOK(w)' /\ TellingOK(w)' /\ ApartOK(w)'
BY DEF Idle, GroupOK, ProgressOK, TellingOK, ApartOK

-----------------------------------------------------------------------------
(* The replicas, the configuration and the events of the other services.    *)
LEMMA ReplicasKeep ==
    ASSUME Inv, ReplicasFrame, faults' \in Nat, retries' \in Int,
           methods' \in [Methods -> {"NONE", "ACTIVE", "ARCHIVED"}],
           announced' \subseteq {"created", "archived"} \X Methods,
           versions' \subseteq Versions, addresses' \subseteq Addresses,
           vendor' \in Addresses \cup {None}
    PROVE  Inv'
<1>1. UNCHANGED <<inbox, sent, worker, shipment, sentWith, joined, accepted, created,
                  failed, doubtful, callback, updated, callbacks, deliveries>>
  BY DEF ReplicasFrame, tables, outside, callbackVars
<1>2. TypeOK'
  BY <1>1 DEF Inv, TypeOK, Ids
<1> QED
  BY <1>1, <1>2, QuietKeeps

LEMMA ReplicateKeeps == ASSUME Inv, Replicate \/ Admin PROVE Inv'
<1>1. /\ methods \in [Methods -> {"NONE", "ACTIVE", "ARCHIVED"}]
      /\ announced \subseteq {"created", "archived"} \X Methods
      /\ versions \subseteq Versions /\ addresses \subseteq Addresses
      /\ vendor \in Addresses \cup {None} /\ retries \in Int /\ faults \in Nat
  BY DEF Inv, TypeOK
<1>2. ASSUME NEW a \in Addresses, AddressCreated(a) PROVE Inv'
  BY <1>1, <1>2, ReplicasKeep DEF AddressCreated
<1>3. ASSUME NEW v \in Versions, ProductVariantVersionCreated(v) PROVE Inv'
  BY <1>1, <1>3, ReplicasKeep DEF ProductVariantVersionCreated
<1>4. ASSUME NEW e \in {"created", "archived"} \X Methods, Announce(e)
      PROVE  announced' \subseteq {"created", "archived"} \X Methods /\ faults' \in Nat
  BY <1>1, <1>4 DEF Announce
<1>5. ASSUME NEW m \in Methods, CreateShipmentMethod(m) PROVE Inv'
  <2>1. methods' \in [Methods -> {"NONE", "ACTIVE", "ARCHIVED"}]
    BY <1>1, <1>5 DEF CreateShipmentMethod
  <2>2. announced' \subseteq {"created", "archived"} \X Methods /\ faults' \in Nat
    BY <1>4, <1>5 DEF CreateShipmentMethod
  <2>3. UNCHANGED <<versions, addresses, vendor, retries>> /\ ReplicasFrame
    BY <1>5 DEF CreateShipmentMethod
  <2> QED
    BY <1>1, <2>1, <2>2, <2>3, ReplicasKeep
<1>6. ASSUME NEW m \in Archivable, ArchiveShipmentMethod(m) PROVE Inv'
  <2>0. m \in Methods
    BY ShipmentAssumption
  <2>1. methods' \in [Methods -> {"NONE", "ACTIVE", "ARCHIVED"}]
    BY <1>1, <1>6 DEF ArchiveShipmentMethod
  <2>2. announced' \subseteq {"created", "archived"} \X Methods /\ faults' \in Nat
    BY <1>4, <1>6, <2>0 DEF ArchiveShipmentMethod
  <2>3. UNCHANGED <<versions, addresses, vendor, retries>> /\ ReplicasFrame
    BY <1>6 DEF ArchiveShipmentMethod
  <2> QED
    BY <1>1, <2>1, <2>2, <2>3, ReplicasKeep
<1>7. ASSUME NEW n \in Retries, SetVariables(n) PROVE Inv'
  <2>1. n \in Int
    BY ShipmentAssumption
  <2> QED
    BY <1>1, <1>7, <2>1, ReplicasKeep DEF SetVariables
<1> QED
  BY <1>2, <1>3, <1>5, <1>6, <1>7 DEF Replicate, Admin

LEMMA EnvironmentKeeps == ASSUME Inv, Environment PROVE Inv'
<1>1. ASSUME NEW x \in Owners, Publish(x) PROVE Inv'
  <2>1. UNCHANGED <<methods, announced, versions, addresses, vendor, retries, worker,
                    shipment, sentWith, joined, accepted, created, failed, doubtful,
                    callback, updated, callbacks, deliveries, faults>>
    BY <1>1 DEF Publish, replicas, tables, outside, callbackVars
  <2>2. sent' = sent \cup {x} /\ inbox' = inbox \cup {x}
    BY <1>1 DEF Publish
  <2>3. TypeOK'
    BY <2>1, <2>2 DEF Inv, TypeOK, Ids
  <2> QED
    BY <2>1, <2>2, <2>3, QuietKeeps
<1>2. ASSUME NEW x \in Owners, RepeatDelivery(x) PROVE Inv'
  <2>1. UNCHANGED <<methods, announced, versions, addresses, vendor, retries, sent, worker,
                    shipment, sentWith, joined, accepted, created, failed, doubtful,
                    callback, updated, callbacks, deliveries>>
    BY <1>2 DEF RepeatDelivery, replicas, tables, outside, callbackVars
  <2>2. x \in sent /\ inbox' = inbox \cup {x} /\ faults' = faults + 1
    BY <1>2 DEF RepeatDelivery
  <2>3. TypeOK'
    BY <2>1, <2>2 DEF Inv, TypeOK, Ids
  <2> QED
    BY <2>1, <2>3, QuietKeeps
<1> QED
  BY <1>1, <1>2 DEF Environment, PaymentEnabled, ReturnCreated, Owners

-----------------------------------------------------------------------------
(* A delivery begins.  If it is the first one of its event, nothing of the  *)
(* owner is there yet.                                                      *)
LEMMA AcceptKeeps ==
    ASSUME Inv, NEW w \in Workers, NEW x \in Owners, NEW j \in Deliveries,
           Accept(w, x, j), j.id = 0, j.todo = {},
           \/ j.pc = "idle"
           \/ /\ j.pc = "check" /\ j.owner = x
              /\ j.method \in Methods /\ j.address \in Addresses
              /\ x \in Orders => j.items = Group(x, j.method)
              /\ x \in Returns => j.rest = {} /\ \A i \in j.items : sentWith[i] # 0
              /\ \A m \in j.rest : j.items \cap Group(x, m) = {}
    PROVE  Inv'
<1>1. /\ TypeOK /\ RowsOK /\ AcceptedOK /\ CallbackOK /\ WorkOK /\ DistinctIds
      /\ CountedOK /\ RowsApart /\ RefundedIsNotSent
  BY InvParts
<1>2. UNCHANGED <<methods, announced, versions, addresses, vendor, retries, sent,
                  shipment, sentWith, joined, accepted, created, failed, doubtful,
                  callback, updated, callbacks, faults>>
  BY DEF Accept, replicas, tables, outside, callbackVars
<1>3. /\ worker[w].pc = "idle" /\ x \in inbox /\ inbox' = inbox \ {x}
      /\ deliveries' = [deliveries EXCEPT ![x] = @ + 1]
      /\ worker' = [worker EXCEPT ![w] = j]
  BY DEF Accept, Goto
<1>4. worker'[w] = j /\ \A u \in Workers \ {w} : worker'[u] = worker[u]
  BY <1>1, <1>3 DEF TypeOK
<1>5. /\ deliveries \in [Owners -> Nat] /\ deliveries' \in [Owners -> Nat]
      /\ deliveries'[x] = deliveries[x] + 1
      /\ \A y \in Owners \ {x} : deliveries'[y] = deliveries[y]
  BY <1>1, <1>3 DEF TypeOK
<1>6. \A y \in Owners : deliveries'[y] = 1 /\ deliveries[y] # 1 => y = x /\ deliveries[x] = 0
  BY <1>5
<1>7. \A y \in Owners : deliveries[y] >= 1 => deliveries'[y] >= 1 /\ (y = x => deliveries'[y] > 1)
  BY <1>5
<1>8. \A y \in Owners : deliveries[y] > 1 => deliveries'[y] > 1
  BY <1>5
<1>9. TypeOK'
  <2>1. worker' \in [Workers -> Deliveries]
    BY <1>1, <1>3 DEF TypeOK
  <2>2. \A u \in Workers : /\ worker'[u].todo \subseteq worker'[u].items
                           /\ worker'[u].id \in 0 .. Len(shipment)
    <3>1. Len(shipment) \in Nat
      BY <1>1 DEF TypeOK
    <3> QED
      BY <1>1, <1>4, <3>1 DEF TypeOK
  <2> QED
    BY <1>1, <1>2, <1>3, <1>5, <2>1, <2>2 DEF TypeOK, Ids
<1>10. \A s \in Ids : shipment[s].owner \in Owners /\ deliveries[shipment[s].owner] >= 1
  BY <1>1, RowFields DEF CountedOK
<1>11. \A f \in failed : f.owner \in Owners /\ deliveries[f.owner] >= 1
  BY <1>1 DEF CountedOK, TypeOK
<1>12. \A u \in Workers : worker[u].pc # "idle" =>
          worker[u].owner \in Owners /\ deliveries[worker[u].owner] >= 1
  BY <1>1 DEF CountedOK, WorkOK, GroupOK
<1>13. RowsOK' /\ AcceptedOK' /\ CallbackOK'
  BY <1>1, <1>2 DEF RowsOK, AcceptedOK, CallbackOK, UpdateNamesAllItems, Ids, Group
<1>14. \A y \in Owners : deliveries[y] >= 1 /\ deliveries'[y] = 1 => deliveries[y] = 1
  BY <1>5
<1>15. RowsApart'
  BY <1>1, <1>2, <1>10, <1>14 DEF RowsApart, Ids
<1>16. RefundedIsNotSent'
  BY <1>1, <1>2, <1>11, <1>14 DEF RefundedIsNotSent
<1>17. DistinctIds'
  BY <1>1, <1>4 DEF DistinctIds
<1>18. CountedOK'
  <2>1. \A u \in Workers : worker'[u].pc # "idle" => deliveries'[worker'[u].owner] >= 1
    BY <1>4, <1>5, <1>7, <1>12
  <2>2. \A u, v \in Workers :
            /\ u # v /\ worker'[u].pc # "idle" /\ worker'[v].pc # "idle"
            /\ worker'[u].owner = worker'[v].owner
            => deliveries'[worker'[u].owner] > 1
    <3>1. SUFFICES ASSUME NEW u \in Workers, NEW v \in Workers, u # v,
                          worker'[u].pc # "idle", worker'[v].pc # "idle",
                          worker'[u].owner = worker'[v].owner
                   PROVE  deliveries'[worker'[u].owner] > 1
      OBVIOUS
    <3>2. CASE u = w
      BY <1>4, <1>7, <1>12, <3>1, <3>2
    <3>3. CASE v = w
      BY <1>4, <1>7, <1>12, <3>1, <3>3
    <3>4. CASE u # w /\ v # w
      BY <1>1, <1>4, <1>8, <1>12, <3>1, <3>4 DEF CountedOK
    <3> QED
      BY <3>2, <3>3, <3>4
  <2>3. /\ \A s \in Ids : deliveries'[shipment[s].owner] >= 1
        /\ \A f \in failed : deliveries'[f.owner] >= 1
    BY <1>7, <1>10, <1>11
  <2> QED
    BY <1>2, <2>1, <2>2, <2>3 DEF CountedOK, Ids
<1>19. ASSUME NEW u \in Workers \ {w}
       PROVE  GroupOK(u)' /\ ProgressOK(u)' /\ TellingOK(u)' /\ ApartOK(u)'
  <2>1. GroupOK(u) /\ ProgressOK(u) /\ TellingOK(u) /\ ApartOK(u) /\ worker'[u] = worker[u]
    BY <1>1, <1>4 DEF WorkOK
  <2>2. GroupOK(u)'
    BY <1>2, <2>1 DEF GroupOK, Group
  <2>3. ProgressOK(u)' /\ TellingOK(u)'
    BY <1>2, <2>1 DEF ProgressOK, TellingOK
  <2>4. ApartOK(u)'
    BY <1>2, <1>12, <1>14, <2>1 DEF ApartOK, Group, Ids
  <2> QED
    BY <2>2, <2>3, <2>4
<1>20. x \in sent
  BY <1>1, <1>3 DEF TypeOK
<1>21. GroupOK(w)'
  BY <1>2, <1>4, <1>20 DEF GroupOK, Group
<1>22. ProgressOK(w)'
  BY <1>4 DEF ProgressOK
<1>23. TellingOK(w)'
  BY <1>4 DEF TellingOK
<1>24. ApartOK(w)'
  <2>1. SUFFICES ASSUME j.pc # "idle", deliveries'[j.owner] = 1
                 PROVE  /\ \A s \in Ids : shipment[s].owner # j.owner
                        /\ \A f \in failed : f.owner # j.owner
    BY <1>2, <1>4 DEF ApartOK, Ids
  <2>2. j.owner = x /\ deliveries[x] = 0
    BY <1>5, <2>1
  <2> QED
    BY <1>10, <1>11, <2>2
<1> QED
  BY <1>9, <1>13, <1>15, <1>16, <1>17, <1>18, <1>19, <1>21, <1>22, <1>23, <1>24
     DEF Inv, WorkOK

(* The work on a group when it begins.                                      *)
Begun(j, o, m, left) ==
    /\ j \in Deliveries /\ j.pc = "check" /\ j.owner = o /\ j.method = m
    /\ j.rest = left \ {m} /\ j.address \in Addresses
    /\ j.items = Group(o, m) /\ j.id = 0 /\ j.todo = {}

LEMMA BegunGroup ==
    ASSUME NEW o \in Orders, NEW left \in SUBSET Methods, NEW m \in left
    PROVE  Begun(BeginGroup(o, m, left), o, m, left)
<1>1. Idle \in Deliveries /\ Idle.id = 0 /\ Idle.todo = {}
  BY DEF Idle, Deliveries
<1>2. AddressOf[o] \in Addresses /\ Group(o, m) \subseteq Items /\ o \in Owners
  BY GroupItems DEF Addresses, Owners
<1> QED
  BY <1>1, <1>2 DEF BeginGroup, Begun, Deliveries

LEMMA HandleKeeps == ASSUME Inv, NEW w \in Workers, Handle(w) PROVE Inv'
<1>0. Idle \in Deliveries /\ Idle.pc = "idle" /\ Idle.id = 0 /\ Idle.todo = {}
  BY DEF Idle, Deliveries
<1>1. ASSUME NEW o \in Orders, OnPaymentEnabled(w, o) PROVE Inv'
  <2>0. o \in Owners
    BY DEF Owners
  <2>1. CASE Accept(w, o, Idle)
    BY <1>0, <2>0, <2>1, AcceptKeeps
  <2>2. ASSUME NEW m \in NextMethods(o, MethodsOf(o)),
               Accept(w, o, BeginGroup(o, m, MethodsOf(o)))
        PROVE  Inv'
    <3>1. MethodsOf(o) \subseteq Methods /\ m \in MethodsOf(o)
      <4>1. OrderItems[o] \in Seq(Items)
        BY ShipmentAssumption
      <4>2. Range(OrderItems[o]) \subseteq Items
        BY <4>1 DEF Range
      <4> QED
        BY <4>2, ShipmentAssumption DEF MethodsOf, NextMethods
    <3>2. PICK j : j = BeginGroup(o, m, MethodsOf(o))
      OBVIOUS
    <3>3. /\ j \in Deliveries /\ j.pc = "check" /\ j.owner = o /\ j.method = m
          /\ j.rest = MethodsOf(o) \ {m} /\ j.address \in Addresses
          /\ j.items = Group(o, m) /\ j.id = 0 /\ j.todo = {}
      <4>1. Begun(BeginGroup(o, m, MethodsOf(o)), o, m, MethodsOf(o))
        BY <3>1, BegunGroup
      <4> QED
        BY <3>2, <4>1 DEF Begun
    <3>4. Accept(w, o, j)
      BY <2>2, <3>2
    <3>5. \A n \in j.rest : j.items \cap Group(o, n) = {}
      BY <3>3, GroupsApart
    <3>6. o \notin Returns /\ m \in Methods
      BY <3>1, ShipmentAssumption
    <3> QED
      BY <2>0, <3>3, <3>4, <3>5, <3>6, AcceptKeeps
  <2> QED
    BY <1>1, <2>1, <2>2 DEF OnPaymentEnabled, LoopOver
<1>2. ASSUME NEW r \in Returns, OnReturnCreated(w, r) PROVE Inv'
  <2>1. PICK items, m : /\ items = {i \in ReturnItems[r] : sentWith[i] # 0}
                        /\ vendor # None /\ m \in LeastExpensive(items)
                        /\ Accept(w, r, [Idle EXCEPT !.pc = "check", !.owner = r, !.method = m,
                                            !.address = vendor, !.items = items])
    BY <1>2 DEF OnReturnCreated
  <2>2. PICK j : j = [Idle EXCEPT !.pc = "check", !.owner = r, !.method = m,
                                  !.address = vendor, !.items = items]
    OBVIOUS
  <2>3. r \in Owners /\ r \notin Orders /\ ReturnItems[r] \subseteq Items
    BY ShipmentAssumption DEF Owners
  <2>4. m \in Methods /\ vendor \in Addresses
    BY <2>1 DEF LeastExpensive, Inv, TypeOK
  <2>5. /\ j.pc = "check" /\ j.owner = r /\ j.method = m /\ j.rest = {}
        /\ j.address = vendor /\ j.items = items /\ j.id = 0 /\ j.todo = {}
    BY <2>2 DEF Idle
  <2>6. j \in Deliveries
    BY <1>0, <2>1, <2>2, <2>3, <2>4 DEF Deliveries
  <2>7. Accept(w, r, j)
    BY <2>1, <2>2
  <2>8. \A i \in j.items : sentWith[i] # 0
    BY <2>1, <2>5
  <2> QED
    BY <2>3, <2>4, <2>5, <2>6, <2>7, <2>8, AcceptKeeps
<1> QED
  BY <1>1, <1>2 DEF Handle

-----------------------------------------------------------------------------
(* Steps within a group: delivery w goes on as k, which differs in its      *)
(* place and its loop only.                                                 *)
InGroup(w, k) ==
    /\ worker[w].pc # "idle" /\ Goto(w, k)
    /\ k.owner = worker[w].owner /\ k.method = worker[w].method
    /\ k.rest = worker[w].rest /\ k.address = worker[w].address
    /\ k.items = worker[w].items /\ k.id = worker[w].id /\ k.todo \subseteq k.items
    /\ UNCHANGED <<methods, announced, versions, addresses, vendor, retries, inbox, sent,
                   shipment, failed, callback, updated, callbacks, deliveries>>
    /\ faults' \in Nat
    /\ sentWith' \in [Items -> 0 .. Len(shipment)]
    /\ \A i \in Items : sentWith[i] # 0 => sentWith'[i] # 0
    /\ joined \subseteq joined' /\ joined' \subseteq Ids \X Items
    /\ doubtful \subseteq doubtful' /\ doubtful' \subseteq Ids
    /\ accepted \subseteq accepted' /\ accepted' \subseteq accepted \cup {worker[w].id}
    /\ accepted' \subseteq Ids /\ created' \subseteq Ids

LEMMA InGroupStep ==
    ASSUME Inv, NEW w \in Workers, NEW k \in Deliveries, InGroup(w, k)
    PROVE  /\ TypeOK' /\ StepOf(w) /\ worker'[w] = k
           /\ GroupOK(w)' /\ ApartOK(w)'
<1>1. /\ worker' = [worker EXCEPT ![w] = k] /\ worker \in [Workers -> Deliveries]
      /\ worker[w].id \in 0 .. Len(shipment)
  BY DEF InGroup, Goto, Inv, TypeOK
<1>2. /\ worker'[w] = k /\ \A u \in Workers \ {w} : worker'[u] = worker[u]
      /\ worker' \in [Workers -> Deliveries]
  BY <1>1
<1>3. UNCHANGED <<methods, announced, versions, addresses, vendor, retries, inbox, sent,
                  shipment, failed, callback, updated, callbacks, deliveries>>
  BY DEF InGroup
<1>4. \A u \in Workers : /\ worker'[u].todo \subseteq worker'[u].items
                         /\ worker'[u].id \in 0 .. Len(shipment)
  BY <1>1, <1>2 DEF InGroup, Inv, TypeOK
<1>5. TypeOK'
  BY <1>2, <1>3, <1>4 DEF InGroup, Inv, TypeOK, Ids
<1>6. StepOf(w)
  BY <1>2, <1>3 DEF InGroup, StepOf
<1>7. SameGroup(w)
  BY <1>2 DEF InGroup, SameGroup
<1> QED
  BY <1>2, <1>3, <1>5, <1>6, <1>7, SameGroupGoesOn

LEMMA InGroupKeeps ==
    ASSUME Inv, NEW w \in Workers, NEW k \in Deliveries, InGroup(w, k),
           RowsOK', AcceptedOK', RefundedIsNotSent', ProgressOK(w)', TellingOK(w)'
    PROVE  Inv'
<1>1. TypeOK' /\ StepOf(w) /\ GroupOK(w)' /\ ApartOK(w)'
  BY InGroupStep
<1> QED
  BY <1>1, StepOfKeeps

LEMMA GrownDoubts ==
    ASSUME Inv, UNCHANGED <<shipment, sentWith, joined, accepted, created, failed, deliveries>>,
           doubtful \subseteq doubtful'
    PROVE  RowsOK' /\ AcceptedOK' /\ RefundedIsNotSent'
BY DEF Inv, RowsOK, AcceptedOK, RefundedIsNotSent, Ids, Group

(* Steps that change the place only.                                        *)
LEMMA CheckInputKeeps == ASSUME Inv, NEW w \in Workers, CheckInput(w) PROVE Inv'
<1>0. /\ TypeOK /\ worker[w] \in Deliveries /\ worker[w].pc = "check"
      /\ worker[w].todo \subseteq worker[w].items
  BY DeliveryFields DEF Inv, CheckInput
<1>1. PICK k : \E pc \in {"save", "fail"} : k = [worker[w] EXCEPT !.pc = pc] /\ Goto(w, k)
  BY DEF CheckInput, At
<1>2. /\ k \in Deliveries /\ k.pc \in {"save", "fail"} /\ k.owner = worker[w].owner
      /\ k.method = worker[w].method /\ k.rest = worker[w].rest
      /\ k.address = worker[w].address /\ k.items = worker[w].items
      /\ k.id = worker[w].id /\ k.todo = worker[w].todo
  BY <1>0, <1>1 DEF Deliveries
<1>3. UNCHANGED <<methods, announced, versions, addresses, vendor, retries, inbox, sent,
                  shipment, sentWith, joined, accepted, created, failed, doubtful,
                  callback, updated, callbacks, deliveries, faults>>
  BY DEF CheckInput, replicas, tables, outside, callbackVars
<1>4. InGroup(w, k)
  BY <1>0, <1>1, <1>2, <1>3 DEF InGroup, TypeOK
<1>5. worker'[w] = k
  BY <1>2, <1>4, InGroupStep
<1>6. worker[w].id = 0 /\ accepted \subseteq Ids /\ 0 \notin Ids
  BY <1>0 DEF Inv, WorkOK, ProgressOK, TypeOK, Ids
<1>7. ProgressOK(w)' /\ TellingOK(w)'
  BY <1>2, <1>3, <1>5, <1>6 DEF ProgressOK, TellingOK
<1> QED
  BY <1>2, <1>3, <1>4, <1>7, GrownDoubts, InGroupKeeps

LEMMA WeighKeeps == ASSUME Inv, NEW w \in Workers, Weigh(w) PROVE Inv'
<1>0. /\ TypeOK /\ worker[w] \in Deliveries /\ worker[w].pc = "weigh"
      /\ worker[w].todo \subseteq worker[w].items /\ retries \in Int
  BY DeliveryFields DEF Inv, Weigh, TypeOK
<1>1. PICK k : /\ Goto(w, k)
               /\ \/ k = [worker[w] EXCEPT !.pc = "post", !.left = retries]
                  \/ k = [worker[w] EXCEPT !.pc = "fail"]
  BY DEF Weigh
<1>2. /\ k \in Deliveries /\ k.pc \in {"post", "fail"} /\ k.owner = worker[w].owner
      /\ k.method = worker[w].method /\ k.rest = worker[w].rest
      /\ k.address = worker[w].address /\ k.items = worker[w].items
      /\ k.id = worker[w].id /\ k.todo = worker[w].todo
  BY <1>0, <1>1 DEF Deliveries
<1>3. UNCHANGED <<methods, announced, versions, addresses, vendor, retries, inbox, sent,
                  shipment, sentWith, joined, accepted, created, failed, doubtful,
                  callback, updated, callbacks, deliveries, faults>>
  BY DEF Weigh, replicas, tables, outside, callbackVars
<1>4. InGroup(w, k)
  BY <1>0, <1>1, <1>2, <1>3 DEF InGroup, TypeOK
<1>5. worker'[w] = k
  BY <1>2, <1>4, InGroupStep
<1>6. ProgressOK(w) /\ TellingOK(w)
  BY DEF Inv, WorkOK
<1>7. ProgressOK(w)' /\ TellingOK(w)'
  BY <1>0, <1>2, <1>3, <1>5, <1>6 DEF ProgressOK, TellingOK
<1> QED
  BY <1>2, <1>3, <1>4, <1>7, GrownDoubts, InGroupKeeps

LEMMA CallFailsKeeps == ASSUME Inv, NEW w \in Workers, CallFails(w) PROVE Inv'
<1>0. /\ TypeOK /\ worker[w] \in Deliveries
      /\ worker[w].pc \in {"check", "save", "items", "join", "weigh"}
      /\ worker[w].todo \subseteq worker[w].items
  BY DeliveryFields DEF Inv, CallFails
<1>1. PICK k : k = [worker[w] EXCEPT !.pc = "fail"] /\ Goto(w, k)
  BY DEF CallFails, At
<1>2. /\ k \in Deliveries /\ k.pc = "fail" /\ k.owner = worker[w].owner
      /\ k.method = worker[w].method /\ k.rest = worker[w].rest
      /\ k.address = worker[w].address /\ k.items = worker[w].items
      /\ k.id = worker[w].id /\ k.todo = worker[w].todo
  BY <1>0, <1>1 DEF Deliveries
<1>3. /\ UNCHANGED <<methods, announced, versions, addresses, vendor, retries, inbox, sent,
                     shipment, sentWith, joined, accepted, created, failed, doubtful,
                     callback, updated, callbacks, deliveries>>
      /\ faults' = faults + 1
  BY DEF CallFails, replicas, tables, outside, callbackVars
<1>4. InGroup(w, k)
  BY <1>0, <1>1, <1>2, <1>3 DEF InGroup, TypeOK
<1>5. worker'[w] = k
  BY <1>2, <1>4, InGroupStep
<1>6. ProgressOK(w) /\ TellingOK(w) /\ accepted \subseteq Ids /\ 0 \notin Ids
  BY <1>0 DEF Inv, WorkOK, TypeOK, Ids
<1>7. ProgressOK(w)' /\ TellingOK(w)'
  BY <1>0, <1>2, <1>3, <1>5, <1>6 DEF ProgressOK, TellingOK
<1> QED
  BY <1>2, <1>3, <1>4, <1>7, GrownDoubts, InGroupKeeps

(* The loops over the items.                                                *)
LEMMA NextItemMoves ==
    ASSUME TypeOK, NEW w \in Workers, NEW i \in worker[w].todo,
           NEW last \in {"join", "weigh"}, worker[w].pc \in {"items", "join"},
           NextItem(w, i, last)
    PROVE  \E k \in Deliveries :
              /\ Goto(w, k) /\ k.owner = worker[w].owner /\ k.method = worker[w].method
              /\ k.rest = worker[w].rest /\ k.address = worker[w].address
              /\ k.items = worker[w].items /\ k.id = worker[w].id /\ k.todo \subseteq k.items
              /\ \/ k.pc = last /\ k.todo = k.items /\ worker[w].todo = {i}
                 \/ k.pc = worker[w].pc /\ k.todo = worker[w].todo \ {i}
<1>0. worker[w] \in Deliveries /\ worker[w].todo \subseteq worker[w].items
  BY DeliveryFields
<1>1. CASE worker[w].todo = {i}
  <2>1. PICK k : k = [worker[w] EXCEPT !.todo = worker[w].items, !.pc = last] /\ Goto(w, k)
    BY <1>1 DEF NextItem
  <2>2. /\ k \in Deliveries /\ k.pc = last /\ k.owner = worker[w].owner
        /\ k.method = worker[w].method /\ k.rest = worker[w].rest
        /\ k.address = worker[w].address /\ k.items = worker[w].items
        /\ k.id = worker[w].id /\ k.todo = worker[w].items
    BY <1>0, <2>1 DEF Deliveries
  <2> QED
    BY <1>1, <2>1, <2>2
<1>2. CASE worker[w].todo # {i}
  <2>1. PICK k : k = [worker[w] EXCEPT !.todo = worker[w].todo \ {i}] /\ Goto(w, k)
    BY <1>2 DEF NextItem
  <2>2. /\ k \in Deliveries /\ k.pc = worker[w].pc /\ k.owner = worker[w].owner
        /\ k.method = worker[w].method /\ k.rest = worker[w].rest
        /\ k.address = worker[w].address /\ k.items = worker[w].items
        /\ k.id = worker[w].id /\ k.todo = worker[w].todo \ {i}
    BY <1>0, <2>1 DEF Deliveries
  <2> QED
    BY <1>0, <2>1, <2>2
<1> QED
  BY <1>1, <1>2

LEMMA UpsertOrderItemKeeps ==
    ASSUME Inv, NEW w \in Workers, NEW i \in worker[w].todo, UpsertOrderItem(w, i)
    PROVE  Inv'
<1>0. /\ TypeOK /\ worker[w] \in Deliveries /\ worker[w].pc = "items"
      /\ worker[w].todo \subseteq worker[w].items /\ worker[w].items \subseteq Items
      /\ worker[w].id \in 0 .. Len(shipment)
  BY DeliveryFields DEF Inv, UpsertOrderItem, TypeOK
<1>1. NextItem(w, i, "join")
  BY DEF UpsertOrderItem
<1>2. PICK k \in Deliveries :
          /\ Goto(w, k) /\ k.owner = worker[w].owner /\ k.method = worker[w].method
          /\ k.rest = worker[w].rest /\ k.address = worker[w].address
          /\ k.items = worker[w].items /\ k.id = worker[w].id /\ k.todo \subseteq k.items
          /\ \/ k.pc = "join" /\ k.todo = k.items /\ worker[w].todo = {i}
             \/ k.pc = worker[w].pc /\ k.todo = worker[w].todo \ {i}
  BY <1>0, <1>1, NextItemMoves
<1>3. /\ UNCHANGED <<methods, announced, versions, addresses, vendor, retries, inbox, sent,
                     shipment, joined, accepted, created, failed, doubtful,
                     callback, updated, callbacks, deliveries, faults>>
      /\ sentWith' = [sentWith EXCEPT ![i] = IF @ = 0 THEN worker[w].id ELSE @]
  BY DEF UpsertOrderItem, replicas, outside, callbackVars
<1>4. ProgressOK(w) /\ TellingOK(w)
  BY DEF Inv, WorkOK
<1>5. /\ worker[w].id # 0 /\ worker[w].owner \in Orders
      /\ shipment[worker[w].id].owner = worker[w].owner
      /\ shipment[worker[w].id].items = worker[w].items
  BY <1>0, <1>4 DEF ProgressOK
<1>6. i \in Items /\ i \in worker[w].items
  BY <1>0
<1>7. /\ sentWith' \in [Items -> 0 .. Len(shipment)] /\ sentWith'[i] # 0
      /\ \A n \in Items : sentWith[n] # 0 => sentWith'[n] = sentWith[n]
      /\ \A n \in Items : sentWith'[n] = sentWith[n] \/ (n = i /\ sentWith'[n] = worker[w].id)
  BY <1>0, <1>3, <1>5, <1>6 DEF TypeOK
<1>8. InGroup(w, k)
  BY <1>0, <1>2, <1>3, <1>7 DEF InGroup, TypeOK
<1>9. worker'[w] = k
  BY <1>8, InGroupStep
<1>10. RowsOK'
  <2>1. RowsOK
    BY DEF Inv
  <2>2. \A n \in Items : sentWith'[n] # 0 =>
            shipment[sentWith'[n]].owner \in Orders /\ n \in shipment[sentWith'[n]].items
    BY <1>5, <1>6, <1>7, <2>1 DEF RowsOK
  <2> QED
    BY <1>3, <2>1, <2>2 DEF RowsOK, Ids, Group
<1>11. AcceptedOK'
  <2>1. \A s \in accepted : shipment[s].items \subseteq Items
    BY <1>0, RowFields DEF TypeOK
  <2> QED
    BY <1>3, <1>7, <2>1 DEF Inv, AcceptedOK
<1>12. RefundedIsNotSent'
  BY <1>3 DEF Inv, RefundedIsNotSent
<1>13. ProgressOK(w)'
  <2>1. \A n \in worker[w].items \ worker[w].todo : sentWith'[n] # 0
    BY <1>0, <1>4, <1>7 DEF ProgressOK
  <2>2. \A n \in k.items \ k.todo : sentWith'[n] # 0
    BY <1>0, <1>2, <1>7, <2>1
  <2>3. worker[w].todo = {i} => \A n \in k.items : sentWith'[n] # 0
    BY <1>2, <1>7, <2>1
  <2>4. k.pc \in {"items", "join"}
    BY <1>0, <1>2
  <2> QED
    BY <1>0, <1>2, <1>3, <1>4, <1>5, <1>9, <2>2, <2>3, <2>4 DEF ProgressOK
<1>14. TellingOK(w)'
  BY <1>0, <1>2, <1>3, <1>4, <1>9 DEF TellingOK
<1> QED
  BY <1>8, <1>10, <1>11, <1>12, <1>13, <1>14, InGroupKeeps

LEMMA JoinOrderItemKeeps ==
    ASSUME Inv, NEW w \in Workers, NEW i \in worker[w].todo, JoinOrderItem(w, i)
    PROVE  Inv'
<1>0. /\ TypeOK /\ worker[w] \in Deliveries /\ worker[w].pc = "join"
      /\ worker[w].todo \subseteq worker[w].items /\ worker[w].items \subseteq Items
      /\ worker[w].id # 0 => worker[w].id \in Ids
  BY DeliveryFields DEF Inv, JoinOrderItem
<1>1. NextItem(w, i, "weigh")
  BY DEF JoinOrderItem
<1>2. PICK k \in Deliveries :
          /\ Goto(w, k) /\ k.owner = worker[w].owner /\ k.method = worker[w].method
          /\ k.rest = worker[w].rest /\ k.address = worker[w].address
          /\ k.items = worker[w].items /\ k.id = worker[w].id /\ k.todo \subseteq k.items
          /\ \/ k.pc = "weigh" /\ k.todo = k.items /\ worker[w].todo = {i}
             \/ k.pc = worker[w].pc /\ k.todo = worker[w].todo \ {i}
  BY <1>0, <1>1, NextItemMoves
<1>3. /\ UNCHANGED <<methods, announced, versions, addresses, vendor, retries, inbox, sent,
                     shipment, sentWith, accepted, created, failed, doubtful,
                     callback, updated, callbacks, deliveries, faults>>
      /\ joined' = joined \cup {<<worker[w].id, i>>}
  BY DEF JoinOrderItem, replicas, outside, callbackVars
<1>4. ProgressOK(w) /\ TellingOK(w)
  BY DEF Inv, WorkOK
<1>5. /\ worker[w].id \in Ids /\ i \in Items /\ i \in worker[w].items
      /\ shipment[worker[w].id].items = worker[w].items
  BY <1>0, <1>4 DEF ProgressOK
<1>6. joined' \subseteq Ids \X Items
  BY <1>0, <1>3, <1>5 DEF TypeOK
<1>7. InGroup(w, k)
  BY <1>0, <1>2, <1>3, <1>6 DEF InGroup, TypeOK
<1>8. worker'[w] = k
  BY <1>7, InGroupStep
<1>9. RowsOK' /\ AcceptedOK' /\ RefundedIsNotSent'
  <2>1. RowsOK /\ AcceptedOK /\ RefundedIsNotSent
    BY DEF Inv
  <2>2. \A s \in Ids, n \in Items : <<s, n>> \in joined' => n \in shipment[s].items
    BY <1>3, <1>5, <2>1 DEF RowsOK
  <2>3. RowsOK'
    BY <1>3, <2>1, <2>2 DEF RowsOK, Ids, Group
  <2>4. AcceptedOK' /\ RefundedIsNotSent'
    BY <1>3, <2>1 DEF AcceptedOK, RefundedIsNotSent
  <2> QED
    BY <2>3, <2>4
<1>10. ProgressOK(w)'
  <2>1. \A n \in worker[w].items \ worker[w].todo : <<worker[w].id, n>> \in joined'
    BY <1>0, <1>3, <1>4 DEF ProgressOK
  <2>2. \A n \in k.items \ k.todo : <<k.id, n>> \in joined'
    BY <1>2, <1>3, <2>1
  <2>3. worker[w].todo = {i} => \A n \in k.items : <<k.id, n>> \in joined'
    BY <1>2, <1>3, <2>1
  <2>4. k.pc \in {"join", "weigh"}
    BY <1>0, <1>2
  <2> QED
    BY <1>0, <1>2, <1>3, <1>4, <1>8, <2>2, <2>3, <2>4 DEF ProgressOK
<1>11. TellingOK(w)'
  BY <1>0, <1>2, <1>3, <1>4, <1>8 DEF TellingOK
<1> QED
  BY <1>7, <1>9, <1>10, <1>11, InGroupKeeps

(* The POST.  The provider is told of a row whose items were all written.   *)
LEMMA ToldOK ==
    ASSUME Inv, NEW w \in Workers, worker[w].pc = "post",
           UNCHANGED <<shipment, sentWith, joined, created, failed, deliveries>>,
           accepted \subseteq accepted', accepted' \subseteq accepted \cup {worker[w].id},
           doubtful \subseteq doubtful'
    PROVE  RowsOK' /\ AcceptedOK' /\ RefundedIsNotSent'
<1>1. RowsOK /\ AcceptedOK /\ RefundedIsNotSent /\ ProgressOK(w) /\ ApartOK(w) /\ GroupOK(w)
  BY DEF Inv, WorkOK
<1>2. RowsOK'
  BY <1>1 DEF RowsOK, Ids, Group
<1>3. /\ shipment[worker[w].id].items = worker[w].items
      /\ shipment[worker[w].id].owner = worker[w].owner
      /\ \A i \in worker[w].items : <<worker[w].id, i>> \in joined /\ sentWith[i] # 0
  BY <1>1 DEF ProgressOK
<1>4. AcceptedOK'
  BY <1>1, <1>3 DEF AcceptedOK
<1>5. RefundedIsNotSent'
  <2>1. SUFFICES ASSUME NEW f \in failed, NEW s \in accepted',
                        shipment[s].owner = f.owner, deliveries[f.owner] = 1,
                        shipment[s].items \cap f.items # {}
                 PROVE  s \in doubtful'
    BY DEF RefundedIsNotSent
  <2>2. CASE s \in accepted
    BY <1>1, <2>1, <2>2 DEF RefundedIsNotSent
  <2>3. CASE s = worker[w].id
    <3>1. f.items \cap worker[w].items = {}
      BY <1>1, <1>3, <2>1, <2>3 DEF ApartOK
    <3> QED
      BY <1>3, <2>1, <2>3, <3>1
  <2> QED
    BY <2>2, <2>3
<1> QED
  BY <1>2, <1>4, <1>5

LEMMA PostKeeps == ASSUME Inv, NEW w \in Workers, Post(w) PROVE Inv'
<1>0. /\ TypeOK /\ worker[w] \in Deliveries /\ worker[w].pc = "post"
      /\ worker[w].todo \subseteq worker[w].items
      /\ worker[w].id # 0 => worker[w].id \in Ids
  BY DeliveryFields DEF Inv, Post
<1>1. PICK k : k = [worker[w] EXCEPT !.pc = "publish"] /\ Goto(w, k)
  BY DEF Post, At
<1>2. /\ k \in Deliveries /\ k.pc = "publish" /\ k.owner = worker[w].owner
      /\ k.method = worker[w].method /\ k.rest = worker[w].rest
      /\ k.address = worker[w].address /\ k.items = worker[w].items
      /\ k.id = worker[w].id /\ k.todo = worker[w].todo
  BY <1>0, <1>1 DEF Deliveries
<1>3. /\ UNCHANGED <<methods, announced, versions, addresses, vendor, retries, inbox, sent,
                     shipment, sentWith, joined, created, failed, doubtful,
                     callback, updated, callbacks, deliveries, faults>>
      /\ accepted' = accepted \cup {worker[w].id}
  BY DEF Post, replicas, tables, callbackVars
<1>4. ProgressOK(w) /\ worker[w].id \in Ids
  BY <1>0 DEF Inv, WorkOK, ProgressOK
<1>5. InGroup(w, k)
  BY <1>0, <1>1, <1>2, <1>3, <1>4 DEF InGroup, TypeOK
<1>6. worker'[w] = k
  BY <1>2, <1>5, InGroupStep
<1>7. RowsOK' /\ AcceptedOK' /\ RefundedIsNotSent'
  BY <1>0, <1>3, ToldOK
<1>8. ProgressOK(w)' /\ TellingOK(w)'
  BY <1>0, <1>2, <1>3, <1>4, <1>6 DEF ProgressOK, TellingOK
<1> QED
  BY <1>2, <1>5, <1>7, <1>8, InGroupKeeps

LEMMA PostFailsKeeps ==
    ASSUME Inv, NEW w \in Workers, NEW reached \in BOOLEAN, PostFails(w, reached)
    PROVE  Inv'
<1>0. /\ TypeOK /\ worker[w] \in Deliveries /\ worker[w].pc = "post"
      /\ worker[w].todo \subseteq worker[w].items
      /\ worker[w].id # 0 => worker[w].id \in Ids
  BY DeliveryFields DEF Inv, PostFails
<1>1. PICK k : /\ Goto(w, k)
               /\ \/ k = [worker[w] EXCEPT !.left = worker[w].left - 1]
                  \/ k = [worker[w] EXCEPT !.pc = "fail"]
  BY DEF PostFails
<1>2. /\ k \in Deliveries /\ k.pc \in {"post", "fail"} /\ k.owner = worker[w].owner
      /\ k.method = worker[w].method /\ k.rest = worker[w].rest
      /\ k.address = worker[w].address /\ k.items = worker[w].items
      /\ k.id = worker[w].id /\ k.todo = worker[w].todo
  BY <1>0, <1>1 DEF Deliveries
<1>3. /\ UNCHANGED <<methods, announced, versions, addresses, vendor, retries, inbox, sent,
                     shipment, sentWith, joined, created, failed,
                     callback, updated, callbacks, deliveries>>
      /\ accepted' = accepted \/ accepted' = accepted \cup {worker[w].id}
      /\ doubtful' = doubtful \cup {worker[w].id} /\ faults' = faults + 1
  BY DEF PostFails, replicas, tables, callbackVars
<1>4. ProgressOK(w) /\ worker[w].id \in Ids
  BY <1>0 DEF Inv, WorkOK, ProgressOK
<1>5. InGroup(w, k)
  BY <1>0, <1>1, <1>2, <1>3, <1>4 DEF InGroup, TypeOK
<1>6. worker'[w] = k
  BY <1>2, <1>5, InGroupStep
<1>7. RowsOK' /\ AcceptedOK' /\ RefundedIsNotSent'
  BY <1>0, <1>3, ToldOK
<1>8. ProgressOK(w)' /\ TellingOK(w)'
  BY <1>0, <1>2, <1>3, <1>4, <1>6 DEF ProgressOK, TellingOK
<1> QED
  BY <1>2, <1>5, <1>7, <1>8, InGroupKeeps

LEMMA PublishCreatedFailsKeeps ==
    ASSUME Inv, NEW w \in Workers, NEW reached \in BOOLEAN, PublishCreatedFails(w, reached)
    PROVE  Inv'
<1>0. /\ TypeOK /\ worker[w] \in Deliveries /\ worker[w].pc = "publish"
      /\ worker[w].todo \subseteq worker[w].items
      /\ worker[w].id # 0 => worker[w].id \in Ids
  BY DeliveryFields DEF Inv, PublishCreatedFails
<1>1. PICK k : k = [worker[w] EXCEPT !.pc = "fail"] /\ Goto(w, k)
  BY DEF PublishCreatedFails, At
<1>2. /\ k \in Deliveries /\ k.pc = "fail" /\ k.owner = worker[w].owner
      /\ k.method = worker[w].method /\ k.rest = worker[w].rest
      /\ k.address = worker[w].address /\ k.items = worker[w].items
      /\ k.id = worker[w].id /\ k.todo = worker[w].todo
  BY <1>0, <1>1 DEF Deliveries
<1>3. /\ UNCHANGED <<methods, announced, versions, addresses, vendor, retries, inbox, sent,
                     shipment, sentWith, joined, accepted, failed,
                     callback, updated, callbacks, deliveries>>
      /\ created' = created \/ created' = created \cup {worker[w].id}
      /\ doubtful' = doubtful \cup {worker[w].id} /\ faults' = faults + 1
  BY DEF PublishCreatedFails, replicas, tables, callbackVars
<1>4. ProgressOK(w) /\ TellingOK(w) /\ worker[w].id \in Ids /\ worker[w].id \in accepted
  BY <1>0 DEF Inv, WorkOK, ProgressOK, TellingOK
<1>5. InGroup(w, k)
  BY <1>0, <1>1, <1>2, <1>3, <1>4 DEF InGroup, TypeOK
<1>6. worker'[w] = k
  BY <1>2, <1>5, InGroupStep
<1>7. RowsOK' /\ AcceptedOK' /\ RefundedIsNotSent'
  BY <1>3, <1>4 DEF Inv, RowsOK, AcceptedOK, RefundedIsNotSent, Ids, Group
<1>8. ProgressOK(w)' /\ TellingOK(w)'
  BY <1>0, <1>2, <1>3, <1>4, <1>6 DEF ProgressOK, TellingOK
<1> QED
  BY <1>2, <1>5, <1>7, <1>8, InGroupKeeps

-----------------------------------------------------------------------------
(* The end of a group: the next one of the order begins, or the delivery    *)
(* ends.  What was answered for this group is no answer for the next.       *)
LEMMA NextGroupMoves ==
    ASSUME Inv, NEW w \in Workers, worker[w].pc # "idle", NextGroup(w)
    PROVE  \E k \in Deliveries :
              /\ Goto(w, k) /\ k.id = 0 /\ k.todo = {}
              /\ \/ k = Idle
                 \/ /\ k.pc = "check" /\ k.owner = worker[w].owner /\ k.owner \in Orders
                    /\ k.address \in Addresses /\ k.method \in worker[w].rest
                    /\ k.rest = worker[w].rest \ {k.method}
                    /\ k.items = Group(k.owner, k.method)
<1>0. /\ worker[w] \in Deliveries /\ worker[w].rest \subseteq Methods /\ GroupOK(w)
  BY DeliveryFields DEF Inv, WorkOK
<1>1. CASE worker[w].rest = {} /\ Goto(w, Idle)
  <2>1. Idle \in Deliveries /\ Idle.id = 0 /\ Idle.todo = {}
    BY DEF Idle, Deliveries
  <2> QED
    BY <1>1, <2>1
<1>2. CASE \E m \in NextMethods(worker[w].owner, worker[w].rest) :
                Goto(w, BeginGroup(worker[w].owner, m, worker[w].rest))
  <2>1. PICK m \in NextMethods(worker[w].owner, worker[w].rest) :
            Goto(w, BeginGroup(worker[w].owner, m, worker[w].rest))
    BY <1>2
  <2>2. m \in worker[w].rest
    BY <1>0 DEF NextMethods
  <2>3. worker[w].owner \in Orders
    BY <1>0, <2>2 DEF GroupOK, Owners
  <2>4. PICK k : k = BeginGroup(worker[w].owner, m, worker[w].rest)
    OBVIOUS
  <2>5. /\ k \in Deliveries /\ k.pc = "check" /\ k.owner = worker[w].owner /\ k.method = m
        /\ k.rest = worker[w].rest \ {m} /\ k.address \in Addresses
        /\ k.items = Group(worker[w].owner, m) /\ k.id = 0 /\ k.todo = {}
    <3>1. Begun(BeginGroup(worker[w].owner, m, worker[w].rest), worker[w].owner, m, worker[w].rest)
      BY <1>0, <2>2, <2>3, BegunGroup
    <3> QED
      BY <2>4, <3>1 DEF Begun
  <2> QED
    BY <2>1, <2>2, <2>3, <2>4, <2>5
<1> QED
  BY <1>1, <1>2 DEF NextGroup, LoopOver

LEMMA NextGroupKeeps ==
    ASSUME Inv, NEW w \in Workers, worker[w].pc # "idle", NextGroup(w),
           UNCHANGED <<methods, announced, versions, addresses, vendor, retries, inbox, sent,
                       shipment, sentWith, joined, accepted, doubtful,
                       callback, updated, callbacks, deliveries, faults>>,
           created' \subseteq Ids,
           failed' \subseteq failed \cup {Answer(worker[w])},
           AcceptedOK', RefundedIsNotSent'
    PROVE  Inv'
<1>0. TypeOK /\ GroupOK(w) /\ ApartOK(w) /\ ProgressOK(w) /\ worker[w].items \subseteq Items
  BY DeliveryFields DEF Inv, WorkOK
<1>1. PICK k \in Deliveries :
          /\ Goto(w, k) /\ k.id = 0 /\ k.todo = {}
          /\ \/ k = Idle
             \/ /\ k.pc = "check" /\ k.owner = worker[w].owner /\ k.owner \in Orders
                /\ k.address \in Addresses /\ k.method \in worker[w].rest
                /\ k.rest = worker[w].rest \ {k.method}
                /\ k.items = Group(k.owner, k.method)
  BY NextGroupMoves
<1>2. /\ worker' = [worker EXCEPT ![w] = k] /\ worker'[w] = k
      /\ worker' \in [Workers -> Deliveries]
      /\ \A u \in Workers \ {w} : worker'[u] = worker[u]
  BY <1>0, <1>1 DEF Goto, TypeOK
<1>3. worker[w].owner \in Owners /\ worker[w].owner \in sent
  BY <1>0 DEF GroupOK
<1>4. TypeOK'
  <2>1. Answer(worker[w]) \in [owner : Owners, items : SUBSET Items]
    BY <1>0, <1>3 DEF Answer
  <2>2. failed' \subseteq [owner : Owners, items : SUBSET Items]
    BY <1>0, <2>1 DEF TypeOK
  <2>3. \A u \in Workers : /\ worker'[u].todo \subseteq worker'[u].items
                           /\ worker'[u].id \in 0 .. Len(shipment)
    <3>1. Len(shipment) \in Nat
      BY <1>0 DEF TypeOK
    <3> QED
      BY <1>0, <1>1, <1>2, <3>1 DEF TypeOK
  <2> QED
    BY <1>0, <1>2, <2>2, <2>3 DEF TypeOK, Ids
<1>5. StepOf(w)
  <2>1. k.pc = "idle" \/ k.owner = worker[w].owner
    BY <1>1 DEF Idle
  <2> QED
    BY <1>1, <1>2, <2>1 DEF StepOf
<1>6. RowsOK'
  BY DEF Inv, RowsOK, Ids, Group
<1>7. CASE k = Idle
  BY <1>2, <1>4, <1>5, <1>6, <1>7, EndOfDelivery, StepOfKeeps
<1>8. CASE k # Idle
  <2>1. /\ k.pc = "check" /\ k.owner = worker[w].owner /\ k.owner \in Orders
        /\ k.address \in Addresses /\ k.method \in worker[w].rest
        /\ k.rest = worker[w].rest \ {k.method} /\ k.items = Group(k.owner, k.method)
    BY <1>1, <1>8
  <2>2. worker[w].rest \subseteq Methods /\ k.owner \notin Returns
    BY <1>0, <2>1, DeliveryFields, ShipmentAssumption
  <2>3. \A m \in k.rest : k.items \cap Group(k.owner, m) = {}
    BY <2>1, GroupsApart
  <2>4. GroupOK(w)'
    BY <1>0, <1>2, <1>3, <2>1, <2>2, <2>3 DEF GroupOK, Group
  <2>5. ProgressOK(w)' /\ TellingOK(w)'
    BY <1>1, <1>2, <2>1 DEF ProgressOK, TellingOK
  <2>6. ApartOK(w)'
    <3>1. SUFFICES ASSUME deliveries[k.owner] = 1
                   PROVE  /\ \A s \in Ids : shipment[s].owner = k.owner =>
                                \A m \in worker[w].rest :
                                    shipment[s].items \cap Group(k.owner, m) = {}
                          /\ \A f \in failed' : f.owner = k.owner =>
                                \A m \in worker[w].rest : f.items \cap Group(k.owner, m) = {}
      BY <1>1, <1>2, <2>1 DEF ApartOK, Ids, Group
    <3>2. \A s \in Ids : shipment[s].owner = k.owner =>
              \A m \in worker[w].rest : shipment[s].items \cap Group(k.owner, m) = {}
      BY <1>0, <2>1, <3>1 DEF ApartOK
    <3>3. \A f \in failed : f.owner = k.owner =>
              \A m \in worker[w].rest : f.items \cap Group(k.owner, m) = {}
      BY <1>0, <2>1, <3>1 DEF ApartOK
    <3>4. \A m \in worker[w].rest : Answer(worker[w]).items \cap Group(k.owner, m) = {}
      BY <1>0, <2>1 DEF GroupOK, Answer
    <3> QED
      BY <3>2, <3>3, <3>4
  <2> QED
    BY <1>4, <1>5, <1>6, <2>4, <2>5, <2>6, StepOfKeeps
<1> QED
  BY <1>7, <1>8

LEMMA PublishShipmentCreatedKeeps ==
    ASSUME Inv, NEW w \in Workers, PublishShipmentCreated(w) PROVE Inv'
<1>1. /\ UNCHANGED <<methods, announced, versions, addresses, vendor, retries, inbox, sent,
                     shipment, sentWith, joined, accepted, failed, doubtful,
                     callback, updated, callbacks, deliveries, faults>>
      /\ worker[w].pc = "publish" /\ created' = created \cup {worker[w].id} /\ NextGroup(w)
  BY DEF PublishShipmentCreated, replicas, tables, callbackVars
<1>2. worker[w].id \in accepted
  BY <1>1 DEF Inv, WorkOK, TellingOK
<1>3. AcceptedOK' /\ RefundedIsNotSent' /\ created' \subseteq Ids
  BY <1>1, <1>2 DEF Inv, AcceptedOK, RefundedIsNotSent, TypeOK
<1> QED
  BY <1>1, <1>3, NextGroupKeeps

LEMMA PublishShipmentCreationFailedKeeps ==
    ASSUME Inv, NEW w \in Workers, PublishShipmentCreationFailed(w) PROVE Inv'
<1>1. /\ UNCHANGED <<methods, announced, versions, addresses, vendor, retries, inbox, sent,
                     shipment, sentWith, joined, accepted, created, doubtful,
                     callback, updated, callbacks, deliveries, faults>>
      /\ worker[w].pc = "fail" /\ failed' = failed \cup {Answer(worker[w])} /\ NextGroup(w)
  BY DEF PublishShipmentCreationFailed, replicas, tables, callbackVars
<1>2. ApartOK(w) /\ TellingOK(w) /\ RefundedIsNotSent /\ accepted \subseteq Ids
  BY DEF Inv, WorkOK, TypeOK
<1>3. RefundedIsNotSent'
  <2>1. SUFFICES ASSUME NEW f \in failed', NEW s \in accepted,
                        shipment[s].owner = f.owner, deliveries[f.owner] = 1,
                        shipment[s].items \cap f.items # {}
                 PROVE  s \in doubtful
    BY <1>1 DEF RefundedIsNotSent
  <2>2. CASE f \in failed
    BY <1>2, <2>1, <2>2 DEF RefundedIsNotSent
  <2>3. CASE f = Answer(worker[w])
    <3>1. f.owner = worker[w].owner /\ f.items = worker[w].items
      BY <2>3 DEF Answer
    <3>2. s = worker[w].id
      BY <1>1, <1>2, <2>1, <3>1 DEF ApartOK
    <3> QED
      BY <1>1, <1>2, <3>2 DEF TellingOK
  <2> QED
    BY <1>1, <2>2, <2>3
<1>4. AcceptedOK' /\ created' \subseteq Ids
  BY <1>1 DEF Inv, AcceptedOK, TypeOK
<1> QED
  BY <1>1, <1>3, <1>4, NextGroupKeeps

-----------------------------------------------------------------------------
(* The row of the group.  It is the last one, so no other delivery has it.  *)
LEMMA SaveShipmentKeeps == ASSUME Inv, NEW w \in Workers, SaveShipment(w) PROVE Inv'
<1>0. /\ TypeOK /\ RowsOK /\ AcceptedOK /\ CallbackOK /\ WorkOK /\ DistinctIds
      /\ CountedOK /\ RowsApart /\ RefundedIsNotSent
  BY InvParts
<1>1. /\ worker[w] \in Deliveries /\ worker[w].pc = "save"
      /\ worker[w].items \subseteq Items /\ shipment \in Seq(ShipmentRows)
      /\ Len(shipment) \in Nat
  BY <1>0, DeliveryFields DEF SaveShipment, TypeOK
<1>2. GroupOK(w) /\ ProgressOK(w) /\ TellingOK(w) /\ ApartOK(w) /\ worker[w].id = 0
  BY <1>0, <1>1 DEF WorkOK, ProgressOK
<1>3. PICK row : /\ row = [owner |-> worker[w].owner, method |-> worker[w].method,
                           address |-> worker[w].address, status |-> "PENDING",
                           items |-> worker[w].items]
                 /\ shipment' = Append(shipment, row)
  BY DEF SaveShipment
<1>4. /\ row \in ShipmentRows /\ row.owner = worker[w].owner
      /\ row.method = worker[w].method /\ row.items = worker[w].items
  BY <1>1, <1>2, <1>3 DEF ShipmentRows, GroupOK, Statuses
<1>5. PICK k, pc : /\ Goto(w, k)
                   /\ k = [worker[w] EXCEPT !.id = Len(shipment) + 1,
                                            !.todo = worker[w].items, !.pc = pc]
                   /\ pc = IF worker[w].owner \in Orders THEN "items" ELSE "join"
  BY DEF SaveShipment
<1>6. /\ k \in Deliveries /\ k.pc \in {"items", "join"} /\ k.owner = worker[w].owner
      /\ k.method = worker[w].method /\ k.rest = worker[w].rest
      /\ k.address = worker[w].address /\ k.items = worker[w].items
      /\ k.id = Len(shipment) + 1 /\ k.todo = worker[w].items
      /\ k.pc = "items" <=> worker[w].owner \in Orders
  <2>1. pc \in {"items", "join"} /\ (pc = "items" <=> worker[w].owner \in Orders)
    BY <1>5
  <2>2. Len(shipment) + 1 \in Nat
    BY <1>1
  <2>3. k \in Deliveries /\ k.pc = pc
    BY <1>1, <1>5, <2>1, <2>2 DEF Deliveries
  <2>4. /\ k.owner = worker[w].owner /\ k.method = worker[w].method
        /\ k.rest = worker[w].rest /\ k.address = worker[w].address
        /\ k.items = worker[w].items
        /\ k.id = Len(shipment) + 1 /\ k.todo = worker[w].items
    BY <1>1, <1>5 DEF Deliveries
  <2> QED
    BY <2>1, <2>3, <2>4
<1>7. UNCHANGED <<methods, announced, versions, addresses, vendor, retries, inbox, sent,
                  sentWith, joined, accepted, created, failed, doubtful,
                  callback, updated, callbacks, deliveries, faults>>
  BY DEF SaveShipment, replicas, outside, callbackVars
<1>8. /\ shipment' \in Seq(ShipmentRows) /\ Len(shipment') = Len(shipment) + 1
      /\ \A s \in Ids : s \in Ids' /\ shipment'[s] = shipment[s]
      /\ shipment'[Len(shipment) + 1] = row
  BY <1>1, <1>3, <1>4 DEF Ids
<1>9. \A s \in Ids' : s \in Ids \/ s = Len(shipment) + 1
  BY <1>1, <1>8 DEF Ids
<1>10. Len(shipment) + 1 \notin Ids /\ Len(shipment) + 1 \in Ids' /\ 0 \notin Ids
       /\ Len(shipment) + 1 # 0
  BY <1>1, <1>8 DEF Ids
<1>11. /\ worker'[w] = k /\ \A u \in Workers \ {w} : worker'[u] = worker[u]
       /\ worker' \in [Workers -> Deliveries]
  BY <1>0, <1>5, <1>6 DEF Goto, TypeOK
<1>12. TypeOK'
  <2>1. \A n \in 0 .. Len(shipment) : n \in 0 .. Len(shipment')
    BY <1>1, <1>8
  <2>2. \A u \in Workers : /\ worker'[u].todo \subseteq worker'[u].items
                           /\ worker'[u].id \in 0 .. Len(shipment')
    <3>1. k.id \in 0 .. Len(shipment')
      BY <1>1, <1>6, <1>8
    <3>2. \A u \in Workers : /\ worker[u].todo \subseteq worker[u].items
                             /\ worker[u].id \in 0 .. Len(shipment)
      BY <1>0 DEF TypeOK
    <3> QED
      BY <1>6, <1>11, <2>1, <3>1, <3>2
  <2>3. sentWith' \in [Items -> 0 .. Len(shipment')]
    BY <1>0, <1>7, <2>1 DEF TypeOK
  <2>4. \A c \in Callbacks : callback'[c].id \in 0 .. Len(shipment')
    BY <1>0, <1>7, <2>1 DEF TypeOK
  <2>5. joined' \subseteq Ids' \X Items /\ (accepted \cup created \cup doubtful)' \subseteq Ids'
    BY <1>0, <1>7, <1>8 DEF TypeOK
  <2>6. updated' \subseteq [id : Ids', items : SUBSET Items, status : Statuses]
    BY <1>0, <1>7, <1>8 DEF TypeOK
  <2> QED
    BY <1>0, <1>7, <1>8, <1>11, <2>2, <2>3, <2>4, <2>5, <2>6 DEF TypeOK
<1>13. /\ accepted \subseteq Ids /\ joined \subseteq Ids \X Items
       /\ \A i \in Items : sentWith[i] # 0 => sentWith[i] \in Ids
       /\ \A e \in updated : e.id \in Ids
  BY <1>0, <1>1 DEF TypeOK, Ids
<1>14. RowsOK'
  <2>1. \A s \in Ids' : shipment'[s].owner \in Orders =>
            shipment'[s].items = Group(shipment'[s].owner, shipment'[s].method)
    BY <1>0, <1>1, <1>2, <1>4, <1>8, <1>9 DEF RowsOK, GroupOK
  <2>2. \A i \in Items : sentWith[i] # 0 =>
            shipment'[sentWith[i]].owner \in Orders /\ i \in shipment'[sentWith[i]].items
    BY <1>0, <1>8, <1>13 DEF RowsOK
  <2>3. \A s \in Ids', i \in Items : <<s, i>> \in joined => i \in shipment'[s].items
    BY <1>0, <1>8, <1>13 DEF RowsOK
  <2> QED
    BY <1>7, <2>1, <2>2, <2>3 DEF RowsOK, Group
<1>15. AcceptedOK' /\ RefundedIsNotSent'
  BY <1>0, <1>7, <1>8, <1>13 DEF AcceptedOK, RefundedIsNotSent
<1>16. CallbackOK'
  <2>1. \A c \in Callbacks : callback[c].pc # "idle" => callback[c].id \in Ids
    BY <1>0, <1>13 DEF CallbackOK
  <2> QED
    BY <1>0, <1>7, <1>8, <1>13, <2>1 DEF CallbackOK, UpdateNamesAllItems
<1>17. DistinctIds'
  <2>1. \A u \in Workers : worker[u].id # Len(shipment) + 1
    <3>1. \A u \in Workers : worker[u].id \in 0 .. Len(shipment)
      BY <1>0 DEF TypeOK
    <3> QED
      BY <1>1, <3>1
  <2> QED
    BY <1>0, <1>6, <1>11, <2>1 DEF DistinctIds
<1>18. CountedOK'
  <2>1. \A u \in Workers : worker'[u].pc # "idle" =>
            worker[u].pc # "idle" /\ worker'[u].owner = worker[u].owner
    BY <1>1, <1>6, <1>11
  <2>2. \A s \in Ids' : deliveries[shipment'[s].owner] >= 1
    BY <1>0, <1>1, <1>4, <1>8, <1>9 DEF CountedOK
  <2> QED
    BY <1>0, <1>7, <2>1, <2>2 DEF CountedOK
<1>19. deliveries[worker[w].owner] = 1 =>
          \A s \in Ids : shipment[s].owner = worker[w].owner =>
              shipment[s].items \cap worker[w].items = {}
  BY <1>1, <1>2, <1>10 DEF ApartOK
<1>20. RowsApart'
  <2>1. SUFFICES ASSUME NEW s \in Ids', NEW t \in Ids', s # t,
                        shipment'[t].owner = shipment'[s].owner,
                        deliveries[shipment'[s].owner] = 1
                 PROVE  shipment'[s].items \cap shipment'[t].items = {}
    BY <1>7 DEF RowsApart
  <2>2. CASE s \in Ids /\ t \in Ids
    BY <1>0, <1>8, <2>1, <2>2 DEF RowsApart
  <2>3. CASE s = Len(shipment) + 1
    BY <1>4, <1>8, <1>9, <1>19, <2>1, <2>3
  <2>4. CASE t = Len(shipment) + 1
    BY <1>4, <1>8, <1>9, <1>19, <2>1, <2>4
  <2> QED
    BY <1>9, <2>2, <2>3, <2>4
<1>21. ASSUME NEW u \in Workers \ {w}
       PROVE  GroupOK(u)' /\ ProgressOK(u)' /\ TellingOK(u)' /\ ApartOK(u)'
  <2>1. GroupOK(u) /\ ProgressOK(u) /\ TellingOK(u) /\ ApartOK(u) /\ worker'[u] = worker[u]
        /\ (worker[u].id # 0 => worker[u].id \in Ids)
    BY <1>0, <1>11, DeliveryFields DEF WorkOK
  <2>2. GroupOK(u)'
    BY <1>7, <2>1 DEF GroupOK, Group
  <2>3. ProgressOK(u)' /\ TellingOK(u)'
    BY <1>7, <1>8, <2>1 DEF ProgressOK, TellingOK
  <2>4. ApartOK(u)'
    <3>1. SUFFICES ASSUME worker[u].pc # "idle", deliveries[worker[u].owner] = 1
                   PROVE  \A s \in Ids' : shipment'[s].owner = worker[u].owner => s \in Ids
      BY <1>7, <1>8, <2>1, <3>1 DEF ApartOK, Group
    <3>2. worker[u].owner # worker[w].owner
      BY <1>0, <1>1, <3>1 DEF CountedOK
    <3> QED
      BY <1>4, <1>8, <1>9, <3>2
  <2> QED
    BY <2>2, <2>3, <2>4
<1>22. GroupOK(w)'
  BY <1>1, <1>2, <1>6, <1>7, <1>11 DEF GroupOK, Group
<1>23. ProgressOK(w)'
  <2>1. k.pc = "join" => \A i \in k.items : sentWith[i] # 0
    BY <1>1, <1>2, <1>6 DEF GroupOK, Owners
  <2> QED
    BY <1>4, <1>6, <1>7, <1>8, <1>10, <1>11, <2>1 DEF ProgressOK
<1>24. TellingOK(w)'
  BY <1>6, <1>7, <1>10, <1>11, <1>13 DEF TellingOK
<1>25. ApartOK(w)'
  <2>1. SUFFICES ASSUME deliveries[worker[w].owner] = 1
                 PROVE  /\ \A s \in Ids' : shipment'[s].owner = worker[w].owner =>
                              /\ s # k.id => shipment'[s].items \cap worker[w].items = {}
                              /\ \A m \in worker[w].rest :
                                    shipment'[s].items \cap Group(worker[w].owner, m) = {}
                        /\ \A f \in failed : f.owner = worker[w].owner =>
                              /\ f.items \cap worker[w].items = {}
                              /\ \A m \in worker[w].rest :
                                    f.items \cap Group(worker[w].owner, m) = {}
    BY <1>6, <1>7, <1>11 DEF ApartOK, Group
  <2>2. \A s \in Ids : shipment[s].owner = worker[w].owner =>
            \A m \in worker[w].rest : shipment[s].items \cap Group(worker[w].owner, m) = {}
    BY <1>1, <1>2, <2>1 DEF ApartOK
  <2>3. \A f \in failed : f.owner = worker[w].owner =>
            /\ f.items \cap worker[w].items = {}
            /\ \A m \in worker[w].rest : f.items \cap Group(worker[w].owner, m) = {}
    BY <1>1, <1>2, <2>1 DEF ApartOK
  <2>4. \A m \in worker[w].rest : row.items \cap Group(worker[w].owner, m) = {}
    BY <1>1, <1>2, <1>4 DEF GroupOK
  <2> QED
    BY <1>6, <1>8, <1>9, <1>19, <2>1, <2>2, <2>3, <2>4
<1> QED
  BY <1>12, <1>14, <1>15, <1>16, <1>17, <1>18, <1>20, <1>21, <1>22, <1>23, <1>24, <1>25
     DEF Inv, WorkOK

(* The event goes back to the broker.                                       *)
LEMMA DeliveryFailsKeeps == ASSUME Inv, NEW w \in Workers, DeliveryFails(w) PROVE Inv'
<1>0. /\ TypeOK /\ worker[w] \in Deliveries /\ worker[w].pc # "idle"
      /\ worker[w].id # 0 => worker[w].id \in Ids
  BY DeliveryFields DEF Inv, DeliveryFails
<1>1. GroupOK(w) /\ ProgressOK(w)
  BY DEF Inv, WorkOK
<1>2. /\ UNCHANGED <<methods, announced, versions, addresses, vendor, retries, sent,
                     shipment, sentWith, joined, accepted, created, failed,
                     callback, updated, callbacks, deliveries>>
      /\ inbox' = inbox \cup {worker[w].owner} /\ faults' = faults + 1
      /\ worker' = [worker EXCEPT ![w] = Idle]
      /\ \/ doubtful' = doubtful
         \/ worker[w].pc \in {"post", "publish"} /\ doubtful' = doubtful \cup {worker[w].id}
  BY DEF DeliveryFails, Goto, replicas, tables, callbackVars
<1>3. Idle \in Deliveries /\ Idle.pc = "idle" /\ Idle.id = 0 /\ Idle.todo \subseteq Idle.items
  BY DEF Idle, Deliveries
<1>4. /\ worker'[w] = Idle /\ \A u \in Workers \ {w} : worker'[u] = worker[u]
      /\ worker' \in [Workers -> Deliveries]
  BY <1>0, <1>2, <1>3 DEF TypeOK
<1>5. doubtful \subseteq doubtful' /\ doubtful' \subseteq Ids
  BY <1>0, <1>1, <1>2 DEF TypeOK, ProgressOK
<1>6. TypeOK'
  <2>1. \A u \in Workers : /\ worker'[u].todo \subseteq worker'[u].items
                           /\ worker'[u].id \in 0 .. Len(shipment)
    <3>1. 0 \in 0 .. Len(shipment)
      BY <1>0 DEF TypeOK
    <3>2. \A u \in Workers : /\ worker[u].todo \subseteq worker[u].items
                             /\ worker[u].id \in 0 .. Len(shipment)
      BY <1>0 DEF TypeOK
    <3> QED
      BY <1>3, <1>4, <3>1, <3>2
  <2>2. worker[w].owner \in sent
    BY <1>0, <1>1 DEF GroupOK
  <2> QED
    BY <1>0, <1>2, <1>4, <1>5, <2>1, <2>2 DEF TypeOK, Ids
<1>7. StepOf(w)
  BY <1>0, <1>2, <1>3, <1>4, <1>5 DEF StepOf
<1> QED
  BY <1>2, <1>4, <1>5, <1>6, <1>7, EndOfDelivery, GrownDoubts, StepOfKeeps

-----------------------------------------------------------------------------
(* The callbacks of the provider change the status of a row and what is     *)
(* known of it outside, nothing else.                                       *)
LEMMA CallbackKeeps ==
    ASSUME Inv, TypeOK', CallbackOK',
           UNCHANGED <<sent, worker, sentWith, joined, accepted, created, failed, doubtful,
                       deliveries>>,
           Len(shipment') = Len(shipment),
           \A s \in Ids : /\ shipment'[s].owner = shipment[s].owner
                          /\ shipment'[s].method = shipment[s].method
                          /\ shipment'[s].items = shipment[s].items
    PROVE  Inv'
<1>1. Ids' = Ids
  BY DEF Ids
<1>2. /\ accepted \subseteq Ids
      /\ \A i \in Items : sentWith[i] # 0 => sentWith[i] \in Ids
  BY DEF Inv, TypeOK, Ids
<1>3. RowsOK'
  BY <1>1, <1>2 DEF Inv, RowsOK, Group
<1>4. AcceptedOK' /\ RowsApart' /\ RefundedIsNotSent'
  BY <1>1, <1>2 DEF Inv, AcceptedOK, RowsApart, RefundedIsNotSent
<1>5. DistinctIds' /\ CountedOK'
  BY <1>1 DEF Inv, DistinctIds, CountedOK
<1>6. ASSUME NEW w \in Workers
      PROVE  GroupOK(w)' /\ ProgressOK(w)' /\ TellingOK(w)' /\ ApartOK(w)'
  <2>1. GroupOK(w) /\ ProgressOK(w) /\ TellingOK(w) /\ ApartOK(w)
        /\ (worker[w].id # 0 => worker[w].id \in Ids)
    BY DeliveryFields DEF Inv, WorkOK
  <2>2. GroupOK(w)'
    BY <2>1 DEF GroupOK, Group
  <2>3. ProgressOK(w)' /\ TellingOK(w)'
    BY <2>1 DEF ProgressOK, TellingOK
  <2>4. ApartOK(w)'
    BY <1>1, <2>1 DEF ApartOK, Group
  <2> QED
    BY <2>2, <2>3, <2>4
<1> QED
  BY <1>3, <1>4, <1>5, <1>6 DEF Inv, WorkOK

LEMMA UpdateShipmentStatusKeeps ==
    ASSUME Inv, NEW c \in Callbacks, NEW s \in accepted, NEW status \in Reported,
           UpdateShipmentStatus(c, s, status)
    PROVE  Inv'
<1>0. TypeOK /\ CallbackOK /\ RowsOK /\ s \in Ids /\ status \in Statuses
  BY ShipmentAssumption DEF Inv, TypeOK
<1>1. /\ UNCHANGED <<methods, announced, versions, addresses, vendor, retries, inbox, sent,
                     worker, sentWith, joined, accepted, created, failed, doubtful,
                     updated, deliveries, faults>>
      /\ callbacks' = callbacks + 1
      /\ shipment' = [shipment EXCEPT ![s].status = status]
      /\ callback' = [callback EXCEPT ![c] =
                        [pc |-> "read", id |-> s, status |-> status, items |-> {}]]
  BY DEF UpdateShipmentStatus, CallbackFrame, replicas, outside
<1>2. shipment \in Seq(ShipmentRows) /\ Ids = 1 .. Len(shipment) /\ DOMAIN shipment = Ids
  BY <1>0 DEF TypeOK, Ids
<1>3. PICK row : row = [shipment[s] EXCEPT !.status = status]
  OBVIOUS
<1>4. /\ row \in ShipmentRows /\ row.owner = shipment[s].owner
      /\ row.method = shipment[s].method /\ row.items = shipment[s].items
  BY <1>0, <1>3, RowFields DEF ShipmentRows
<1>5. shipment' = [shipment EXCEPT ![s] = row]
  BY <1>1, <1>3
<1>6. /\ shipment' \in Seq(ShipmentRows) /\ Len(shipment') = Len(shipment)
      /\ shipment'[s] = row /\ \A t \in Ids \ {s} : shipment'[t] = shipment[t]
  BY <1>0, <1>2, <1>4, <1>5
<1>7. \A t \in Ids : /\ shipment'[t].owner = shipment[t].owner
                     /\ shipment'[t].method = shipment[t].method
                     /\ shipment'[t].items = shipment[t].items
  BY <1>4, <1>6
<1>8. PICK call : /\ call = [pc |-> "read", id |-> s, status |-> status, items |-> {}]
                  /\ callback' = [callback EXCEPT ![c] = call]
  BY <1>1
<1>9. /\ call \in CallbackCalls /\ call.id = s /\ call.pc = "read"
      /\ s \in 0 .. Len(shipment)
  BY <1>0, <1>2, <1>8 DEF CallbackCalls, TypeOK
<1>10. /\ callback' \in [Callbacks -> CallbackCalls] /\ callback'[c] = call
       /\ \A d \in Callbacks \ {c} : callback'[d] = callback[d]
  BY <1>0, <1>8, <1>9 DEF TypeOK
<1>11. TypeOK'
  <2>1. \A d \in Callbacks : callback'[d].id \in 0 .. Len(shipment')
    BY <1>0, <1>6, <1>9, <1>10 DEF TypeOK
  <2>2. Ids' = Ids
    BY <1>6 DEF Ids
  <2>3. callbacks' \in Nat
    BY <1>0, <1>1 DEF TypeOK
  <2> QED
    BY <1>0, <1>1, <1>6, <1>10, <2>1, <2>2, <2>3 DEF TypeOK
<1>12. CallbackOK'
  <2>1. accepted \subseteq Ids /\ \A e \in updated : e.id \in Ids
    BY <1>0 DEF TypeOK
  <2>2. \A d \in Callbacks : callback[d].pc # "idle" => callback[d].id \in Ids
    BY <1>0, <2>1 DEF CallbackOK
  <2>3. UpdateNamesAllItems'
    BY <1>0, <1>1, <1>7, <2>1 DEF CallbackOK, UpdateNamesAllItems
  <2> QED
    BY <1>0, <1>1, <1>7, <1>9, <1>10, <2>2, <2>3 DEF CallbackOK
<1> QED
  BY <1>1, <1>6, <1>7, <1>11, <1>12, CallbackKeeps

(* Every join row of a shipment that the provider knows is there: what is   *)
(* read are its items.                                                      *)
LEMMA ReadOrderItemsKeeps ==
    ASSUME Inv, NEW c \in Callbacks, ReadOrderItems(c) PROVE Inv'
<1>0. TypeOK /\ CallbackOK /\ RowsOK /\ AcceptedOK /\ callback[c].pc = "read"
  BY DEF Inv, ReadOrderItems
<1>1. UNCHANGED <<methods, announced, versions, addresses, vendor, retries, inbox, sent,
                  worker, shipment, sentWith, joined, accepted, created, failed, doubtful,
                  updated, callbacks, deliveries, faults>>
  BY DEF ReadOrderItems, CallbackFrame, replicas, outside
<1>2. PICK items : items = {i \in Items : <<callback[c].id, i>> \in joined}
  OBVIOUS
<1>3. PICK call : /\ call = [callback[c] EXCEPT !.pc = "publish", !.items = items]
                  /\ callback' = [callback EXCEPT ![c] = call]
  BY <1>2 DEF ReadOrderItems
<1>4. /\ callback[c] \in CallbackCalls /\ callback[c].id \in 0 .. Len(shipment)
      /\ callback[c].id \in accepted /\ accepted \subseteq Ids
  BY <1>0, CallFields DEF CallbackOK, TypeOK
<1>5. /\ call \in CallbackCalls /\ call.pc = "publish" /\ call.id = callback[c].id
      /\ call.items = items
  BY <1>2, <1>3, <1>4 DEF CallbackCalls
<1>6. items = shipment[callback[c].id].items
  <2>1. shipment[callback[c].id].items \subseteq Items
    BY <1>0, <1>4, RowFields
  <2>2. \A i \in Items : <<callback[c].id, i>> \in joined => i \in shipment[callback[c].id].items
    BY <1>0, <1>4 DEF RowsOK
  <2>3. \A i \in shipment[callback[c].id].items : <<callback[c].id, i>> \in joined
    BY <1>0, <1>4 DEF AcceptedOK
  <2> QED
    BY <1>2, <2>1, <2>2, <2>3
<1>7. /\ callback' \in [Callbacks -> CallbackCalls] /\ callback'[c] = call
      /\ \A d \in Callbacks \ {c} : callback'[d] = callback[d]
  BY <1>0, <1>3, <1>5 DEF TypeOK
<1>8. TypeOK'
  <2>1. \A d \in Callbacks : callback'[d].id \in 0 .. Len(shipment)
    BY <1>0, <1>4, <1>5, <1>7 DEF TypeOK
  <2> QED
    BY <1>0, <1>1, <1>7, <2>1 DEF TypeOK, Ids
<1>9. CallbackOK'
  BY <1>0, <1>1, <1>4, <1>5, <1>6, <1>7 DEF CallbackOK, UpdateNamesAllItems
<1> QED
  BY <1>1, <1>8, <1>9, CallbackKeeps

LEMMA EndOfCallback ==
    ASSUME Inv, NEW c \in Callbacks, callback' = [callback EXCEPT ![c] = IdleCallback],
           UNCHANGED <<methods, announced, versions, addresses, vendor, retries, inbox, sent,
                       worker, shipment, sentWith, joined, accepted, created, failed, doubtful,
                       callbacks, deliveries>>,
           faults' \in Nat, UpdateNamesAllItems',
           updated' \subseteq [id : Ids, items : SUBSET Items, status : Statuses]
    PROVE  Inv'
<1>0. TypeOK /\ CallbackOK
  BY DEF Inv
<1>1. IdleCallback \in CallbackCalls /\ IdleCallback.pc = "idle" /\ IdleCallback.id = 0
  BY DEF IdleCallback, CallbackCalls, Statuses
<1>2. /\ callback' \in [Callbacks -> CallbackCalls] /\ callback'[c] = IdleCallback
      /\ \A d \in Callbacks \ {c} : callback'[d] = callback[d]
  BY <1>0, <1>1 DEF TypeOK
<1>3. TypeOK'
  <2>1. \A d \in Callbacks : callback'[d].id \in 0 .. Len(shipment)
    <3>1. Len(shipment) \in Nat
      BY <1>0 DEF TypeOK
    <3> QED
      BY <1>0, <1>1, <1>2, <3>1 DEF TypeOK
  <2> QED
    BY <1>0, <1>2, <2>1 DEF TypeOK, Ids
<1>4. CallbackOK'
  BY <1>0, <1>1, <1>2 DEF CallbackOK
<1> QED
  BY <1>3, <1>4, CallbackKeeps

LEMMA PublishShipmentStatusUpdatedKeeps ==
    ASSUME Inv, NEW c \in Callbacks, PublishShipmentStatusUpdated(c) PROVE Inv'
<1>0. TypeOK /\ CallbackOK /\ callback[c].pc = "publish"
  BY DEF Inv, PublishShipmentStatusUpdated
<1>1. /\ UNCHANGED <<methods, announced, versions, addresses, vendor, retries, inbox, sent,
                     worker, shipment, sentWith, joined, accepted, created, failed, doubtful,
                     callbacks, deliveries, faults>>
      /\ callback' = [callback EXCEPT ![c] = IdleCallback]
  BY DEF PublishShipmentStatusUpdated, CallbackFrame, replicas, outside
<1>2. PICK e : /\ e = [id |-> callback[c].id, items |-> callback[c].items,
                       status |-> callback[c].status]
               /\ updated' = updated \cup {e}
  BY DEF PublishShipmentStatusUpdated
<1>3. /\ callback[c].id \in Ids /\ callback[c].items \subseteq Items
      /\ callback[c].status \in Statuses
      /\ callback[c].items = shipment[callback[c].id].items
  BY <1>0, CallFields DEF CallbackOK, TypeOK
<1>4. e \in [id : Ids, items : SUBSET Items, status : Statuses]
      /\ e.items = shipment[e.id].items
  BY <1>2, <1>3
<1>5. updated' \subseteq [id : Ids, items : SUBSET Items, status : Statuses]
  BY <1>0, <1>2, <1>4 DEF TypeOK
<1>6. UpdateNamesAllItems'
  BY <1>0, <1>1, <1>2, <1>4 DEF CallbackOK, UpdateNamesAllItems
<1>7. faults' \in Nat
  BY <1>0, <1>1 DEF TypeOK
<1> QED
  BY <1>1, <1>5, <1>6, <1>7, EndOfCallback

LEMMA CallbackFailsKeeps == ASSUME Inv, NEW c \in Callbacks, CallbackFails(c) PROVE Inv'
<1>1. /\ UNCHANGED <<methods, announced, versions, addresses, vendor, retries, inbox, sent,
                     worker, shipment, sentWith, joined, accepted, created, failed, doubtful,
                     updated, callbacks, deliveries>>
      /\ callback' = [callback EXCEPT ![c] = IdleCallback] /\ faults' = faults + 1
  BY DEF CallbackFails, CallbackFrame, replicas, outside
<1>2. faults' \in Nat /\ updated' \subseteq [id : Ids, items : SUBSET Items, status : Statuses]
  BY <1>1 DEF Inv, TypeOK
<1>3. UpdateNamesAllItems'
  BY <1>1 DEF Inv, CallbackOK, UpdateNamesAllItems
<1> QED
  BY <1>1, <1>2, <1>3, EndOfCallback

-----------------------------------------------------------------------------
LEMMA StepInv == Inv /\ [Next]_vars => Inv'
<1> SUFFICES ASSUME Inv, [Next]_vars PROVE Inv'
  OBVIOUS
<1>1. CASE Replicate \/ Admin
  BY <1>1, ReplicateKeeps
<1>2. CASE Environment
  BY <1>2, EnvironmentKeeps
<1>3. ASSUME NEW w \in Workers, Handle(w) PROVE Inv'
  BY <1>3, HandleKeeps
<1>4. ASSUME NEW w \in Workers, Create(w) PROVE Inv'
  BY <1>4, CheckInputKeeps, SaveShipmentKeeps, UpsertOrderItemKeeps, JoinOrderItemKeeps,
     WeighKeeps, PostKeeps, PublishShipmentCreatedKeeps, PublishShipmentCreationFailedKeeps
     DEF Create
<1>5. ASSUME NEW w \in Workers, Fail(w) PROVE Inv'
  BY <1>5, PostFailsKeeps, CallFailsKeeps, PublishCreatedFailsKeeps, DeliveryFailsKeeps DEF Fail
<1>6. ASSUME NEW c \in Callbacks, NEW s \in accepted, NEW status \in Reported,
             UpdateShipmentStatus(c, s, status)
      PROVE  Inv'
  BY <1>6, UpdateShipmentStatusKeeps
<1>7. ASSUME NEW c \in Callbacks, Report(c) \/ CallbackFails(c) PROVE Inv'
  BY <1>7, ReadOrderItemsKeeps, PublishShipmentStatusUpdatedKeeps, CallbackFailsKeeps DEF Report
<1>8. CASE UNCHANGED vars
  <2>1. TypeOK'
    BY <1>8 DEF vars, Inv, TypeOK, Ids
  <2> QED
    BY <1>8, <2>1, QuietKeeps DEF vars
<1> QED
  BY <1>1, <1>2, <1>3, <1>4, <1>5, <1>6, <1>7, <1>8 DEF Next

LEMMA SpecInv == Spec => []Inv
<1>1. Init => Inv
  BY InitInv
<1>2. Inv /\ [Next]_vars => Inv'
  BY StepInv
<1> QED
  BY <1>1, <1>2, PTL DEF Spec

(* The replicas, rows, deliveries and events of the shipment service keep   *)
(* their types; an event goes back to the broker only if it was published,  *)
(* and every id that is announced or told to the provider is that of a row. *)
THEOREM ShipmentTypes == Spec => []TypeOK
<1>1. Inv => TypeOK
  BY DEF Inv
<1> QED
  BY <1>1, SpecInv, PTL

(* A shipment/created event is published when all rows are written and the  *)
(* provider accepted the shipment, and a status-updated event names exactly *)
(* the items of its shipment, for any number of deliveries of the same      *)
(* event and callbacks in progress and wherever a call fails.               *)
THEOREM ShipmentAnnouncesTheTruth == Spec => []AnnouncementsAreTrue
<1>1. Inv => AnnouncementsAreTrue
  BY DEF Inv, AcceptedOK, CallbackOK, AnnouncementsAreTrue, CreatedIsComplete
<1> QED
  BY <1>1, SpecInv, PTL

(* If the payment-enabled event of an order is delivered once, no item of   *)
(* it is in two shipments, whatever fails between the groups.               *)
THEOREM ItemsAreSentOnce == Spec => []SentOnce
<1>1. Inv => SentOnce
  BY DEF Inv, RowsApart, SentOnce
<1> QED
  BY <1>1, SpecInv, PTL

(* If the event is delivered once, what a creation-failed event makes the   *)
(* order service refund is with the provider only if a call failed at or    *)
(* after the POST.                                                          *)
THEOREM RefundsAreNotSent == Spec => []RefundedIsNotSent
<1>1. Inv => RefundedIsNotSent
  BY DEF Inv
<1> QED
  BY <1>1, SpecInv, PTL

(* An item keeps the shipment it was first sent with, one of its own order  *)
(* and method, over repeated deliveries and returns.                        *)
THEOREM ItemsKeepTheirShipment == Spec => SentWithItsOrder
<1>1. Inv /\ [Next]_vars =>
          \A i \in Items : sentWith[i] # 0 => sentWith'[i] = sentWith[i]
  <2>1. SUFFICES ASSUME Inv, [Next]_vars
                 PROVE  \A i \in Items : sentWith[i] # 0 => sentWith'[i] = sentWith[i]
    OBVIOUS
  <2>2. ASSUME NEW w \in Workers, NEW n \in worker[w].todo, UpsertOrderItem(w, n)
        PROVE  \A i \in Items : sentWith[i] # 0 => sentWith'[i] = sentWith[i]
    BY <2>1, <2>2 DEF UpsertOrderItem, Inv, TypeOK
  <2>3. CASE Replicate \/ Admin \/ Environment
    BY <2>3 DEF Replicate, Admin, Environment, AddressCreated, ProductVariantVersionCreated,
       CreateShipmentMethod, ArchiveShipmentMethod, SetVariables, ReplicasFrame, PaymentEnabled,
       ReturnCreated, Publish, RepeatDelivery, tables
  <2>4. ASSUME NEW w \in Workers, Handle(w) \/ Fail(w) PROVE sentWith' = sentWith
    BY <2>4 DEF Handle, OnPaymentEnabled, OnReturnCreated, Accept, Fail, PostFails, CallFails,
       PublishCreatedFails, DeliveryFails, tables
  <2>5. ASSUME NEW w \in Workers, Create(w)
        PROVE  \A i \in Items : sentWith[i] # 0 => sentWith'[i] = sentWith[i]
    <3>1. CASE \E n \in worker[w].todo : UpsertOrderItem(w, n)
      BY <2>2, <3>1
    <3>2. CASE ~ \E n \in worker[w].todo : UpsertOrderItem(w, n)
      BY <2>5, <3>2 DEF Create, CheckInput, SaveShipment, JoinOrderItem, Weigh, Post,
         PublishShipmentCreated, PublishShipmentCreationFailed, tables
    <3> QED
      BY <3>1, <3>2
  <2>6. ASSUME NEW c \in Callbacks,
               \/ \E s \in accepted, status \in Reported : UpdateShipmentStatus(c, s, status)
               \/ Report(c) \/ CallbackFails(c)
        PROVE  sentWith' = sentWith
    BY <2>6 DEF UpdateShipmentStatus, Report, ReadOrderItems, PublishShipmentStatusUpdated,
       CallbackFails, CallbackFrame
  <2>7. CASE UNCHANGED vars
    BY <2>7 DEF vars
  <2> QED
    BY <2>1, <2>3, <2>4, <2>5, <2>6, <2>7 DEF Next
<1>2. Inv' => \A i \in Items : sentWith'[i] # 0 =>
          LET s == shipment'[sentWith'[i]]
          IN  s.owner \in Orders /\ s.method = MethodOf[i] /\ i \in Range(OrderItems[s.owner])
  <2>1. SUFFICES ASSUME Inv', NEW i \in Items, sentWith'[i] # 0
                 PROVE  /\ shipment'[sentWith'[i]].owner \in Orders
                        /\ shipment'[sentWith'[i]].method = MethodOf[i]
                        /\ i \in Range(OrderItems[shipment'[sentWith'[i]].owner])
    OBVIOUS
  <2>2. sentWith'[i] \in Ids'
    BY <2>1 DEF Inv, TypeOK, Ids
  <2> QED
    BY <2>1, <2>2 DEF Inv, RowsOK, Group
<1>3. Inv /\ Inv' /\ [Next]_vars =>
          [/\ \A i \in Items : sentWith[i] # 0 => sentWith'[i] = sentWith[i]
           /\ \A i \in Items : sentWith'[i] # 0 =>
                 LET s == shipment'[sentWith'[i]]
                 IN  s.owner \in Orders /\ s.method = MethodOf[i]
                     /\ i \in Range(OrderItems[s.owner])]_vars
  BY <1>1, <1>2
<1> QED
  BY <1>3, SpecInv, PTL DEF Spec, SentWithItsOrder
-----------------------------------------------------------------------------
(* Shipments come from events: a row belongs to an owner whose event was    *)
(* published.                                                               *)
RowsFromEvents == \A s \in Ids : shipment[s].owner \in sent

(* What a step may do to the rows and to what is known outside: a row keeps *)
(* its owner, a new one is of a published event, and at most one shipment   *)
(* is told to the provider or announced.                                    *)
RowsGrow ==
    /\ \A s \in Ids : s \in Ids' /\ shipment'[s].owner = shipment[s].owner
    /\ \A s \in Ids' : s \notin Ids => shipment'[s].owner \in sent
    /\ accepted \subseteq accepted' /\ created \subseteq created' /\ sent \subseteq sent'
    /\ \E s \in Nat : accepted' \subseteq accepted \cup {s}
    /\ \E s \in Nat : created' \subseteq created \cup {s}

LEMMA QuietRows ==
    ASSUME UNCHANGED <<shipment, accepted, created>>, sent \subseteq sent'
    PROVE  RowsGrow
<1>1. 0 \in Nat /\ Ids' = Ids
  BY DEF Ids
<1> QED
  BY <1>1 DEF RowsGrow

LEMMA ReplicasQuiet ==
    ASSUME Replicate \/ Admin
    PROVE  RowsGrow
<1> USE DEF ReplicasFrame, tables, outside
<1>1. UNCHANGED <<shipment, accepted, created, sent>>
  BY DEF Replicate, Admin, AddressCreated, ProductVariantVersionCreated,
     CreateShipmentMethod, ArchiveShipmentMethod, SetVariables
<1> QED
  BY <1>1, QuietRows

LEMMA EnvironmentQuiet == ASSUME Environment PROVE RowsGrow
<1> USE DEF tables, outside
<1>1. UNCHANGED <<shipment, accepted, created>> /\ sent \subseteq sent'
  BY DEF Environment, PaymentEnabled, ReturnCreated, RepeatDelivery, Publish
<1> QED
  BY <1>1, QuietRows

LEMMA HandleQuiet ==
    ASSUME NEW w \in Workers, Handle(w)
    PROVE  RowsGrow
<1> USE DEF tables, outside
<1>1. UNCHANGED <<shipment, accepted, created, sent>>
  BY DEF Handle, OnPaymentEnabled, OnReturnCreated, Accept
<1> QED
  BY <1>1, QuietRows

LEMMA SaveShipmentAdds ==
    ASSUME Inv, NEW w \in Workers, SaveShipment(w)
    PROVE  RowsGrow
<1> DEFINE j == worker[w]
           row == [owner |-> j.owner, method |-> j.method, address |-> j.address,
                   status |-> "PENDING", items |-> j.items]
<1>1. shipment \in Seq(ShipmentRows) /\ shipment' = Append(shipment, row)
      /\ UNCHANGED <<sent, accepted, created>> /\ row.owner = j.owner
  BY DEF SaveShipment, Inv, TypeOK, outside
<1>2. j.owner \in sent
  BY DEF SaveShipment, Inv, WorkOK, GroupOK
<1> HIDE DEF row, j
<1>3. /\ Len(shipment) \in Nat /\ Len(shipment') = Len(shipment) + 1
      /\ \A s \in 1 .. Len(shipment) : shipment'[s] = shipment[s]
      /\ shipment'[Len(shipment) + 1] = row
  BY <1>1
<1>4. \A s \in Ids : s \in Ids' /\ shipment'[s] = shipment[s]
  BY <1>3 DEF Ids
<1>5. \A s \in Ids' : s \notin Ids => s = Len(shipment) + 1
  BY <1>3 DEF Ids
<1> QED
  BY <1>1, <1>2, <1>3, <1>4, <1>5 DEF RowsGrow

LEMMA CreateGrows ==
    ASSUME Inv, NEW w \in Workers, Create(w) \/ Fail(w)
    PROVE  RowsGrow
<1> USE DEF tables, outside
<1>t. worker[w].id \in Nat
  BY DeliveryFields DEF Inv
<1>1. CASE SaveShipment(w)
  BY <1>1, SaveShipmentAdds
<1>2. CASE CheckInput(w) \/ Weigh(w) \/ PublishShipmentCreationFailed(w)
           \/ CallFails(w) \/ DeliveryFails(w)
           \/ \E i \in worker[w].todo : UpsertOrderItem(w, i) \/ JoinOrderItem(w, i)
  <2>1. UNCHANGED <<shipment, accepted, created, sent>>
    BY <1>2 DEF CheckInput, Weigh, PublishShipmentCreationFailed, CallFails,
       DeliveryFails, UpsertOrderItem, JoinOrderItem
  <2> QED
    BY <2>1, QuietRows
<1>3. CASE Post(w) \/ PublishShipmentCreated(w)
           \/ \E reached \in BOOLEAN : PostFails(w, reached) \/ PublishCreatedFails(w, reached)
  <2>1. /\ UNCHANGED <<shipment, sent>>
        /\ accepted' \in {accepted, accepted \cup {worker[w].id}}
        /\ created' \in {created, created \cup {worker[w].id}}
    BY <1>3 DEF Post, PublishShipmentCreated, PostFails, PublishCreatedFails
  <2>2. Ids' = Ids
    BY <2>1 DEF Ids
  <2> QED
    BY <1>t, <2>1, <2>2 DEF RowsGrow
<1> QED
  BY <1>1, <1>2, <1>3 DEF Create, Fail

LEMMA CallbackGrows ==
    ASSUME Inv, NEW c \in Callbacks,
           \/ \E s \in accepted, status \in Reported : UpdateShipmentStatus(c, s, status)
           \/ Report(c) \/ CallbackFails(c)
    PROVE  RowsGrow
<1> USE DEF CallbackFrame, tables, outside
<1>1. ASSUME NEW s \in accepted, NEW status \in Reported, UpdateShipmentStatus(c, s, status)
      PROVE  RowsGrow
  <2>1. /\ shipment \in Seq(ShipmentRows) /\ s \in Ids
        /\ shipment' = [shipment EXCEPT ![s].status = status]
        /\ UNCHANGED <<sent, accepted, created>>
    BY <1>1 DEF UpdateShipmentStatus, Inv, TypeOK
  <2>2. Len(shipment') = Len(shipment) /\ DOMAIN shipment = Ids
    BY <2>1 DEF Ids
  <2>3. \A n \in Ids : shipment'[n].owner = shipment[n].owner
    <3>1. ASSUME NEW n \in Ids PROVE shipment[n] \in ShipmentRows
      BY <2>1 DEF Ids
    <3> QED
      BY <2>1, <2>2, <3>1 DEF ShipmentRows
  <2>4. Ids' = Ids
    BY <2>2 DEF Ids
  <2>5. 0 \in Nat
    OBVIOUS
  <2> QED
    BY <2>1, <2>3, <2>4, <2>5 DEF RowsGrow
<1>2. CASE Report(c) \/ CallbackFails(c)
  <2>1. UNCHANGED <<shipment, accepted, created, sent>>
    BY <1>2 DEF Report, ReadOrderItems, PublishShipmentStatusUpdated, CallbackFails
  <2> QED
    BY <2>1, QuietRows
<1> QED
  BY <1>1, <1>2

LEMMA StepGrows == Inv /\ [Next]_vars => RowsGrow
<1>1. CASE UNCHANGED vars
  BY <1>1, QuietRows DEF vars
<1> QED
  BY <1>1, ReplicasQuiet, EnvironmentQuiet, HandleQuiet, CreateGrows, CallbackGrows DEF Next

(* Over every execution, whatever fails and is repeated: there is no        *)
(* shipment of an order before its payment was enabled, nor of a return     *)
(* before it was created.                                                   *)
THEOREM ShipmentsFollowEvents == Spec => []RowsFromEvents
<1>1. Init => RowsFromEvents
  BY DEF Init, RowsFromEvents, Ids
<1>2. Inv /\ RowsFromEvents /\ [Next]_vars => RowsFromEvents'
  BY StepGrows DEF RowsGrow, RowsFromEvents
<1>3. Init => Inv
  BY InitInv
<1>4. Inv /\ [Next]_vars => Inv'
  BY StepInv
<1> QED
  BY <1>1, <1>2, <1>3, <1>4, PTL DEF Spec
=============================================================================
