---------------------------- MODULE OrderProofs ----------------------------
(***************************************************************************)
(* However many placeOrder mutations are served at the same time, whatever *)
(* calls fail and however often they are repeated: a saga is started again *)
(* and a rejected order placed only by a mutation that was overtaken       *)
(* between its check and its write.  What is refunded for failed shipments *)
(* never exceeds what the order cost.                                      *)
(***************************************************************************)
EXTENDS Order, Sums

PlacingTypeOK ==
    /\ order \in [Orders -> OrderDoc]
    /\ request \in [Requests -> Request]
    /\ announced \in [Orders -> Nat]
    /\ overtaken \in [Orders -> SUBSET Requests]

(* A request that goes on to write or to publish has an order.              *)
BusyHasOrder == \A r \in Requests : request[r].pc # "idle" => request[r].order \in Orders

(* What setStatusPlaced read still holds when it writes, unless another     *)
(* mutation has written since.                                              *)
PlacesPending ==
    \A o \in Orders : \A r \in Placing(o) :
        order[o].status = "PENDING" \/ r \in overtaken[o]

(* The mutations that can still announce o although its status was written. *)
Announcing(o) ==
    {r \in Requests : request[r].order = o /\ request[r].pc \in {"reread", "publish"}}
Due(o) == Announcing(o) \cup (Placing(o) \cap overtaken[o])

(* As long as an order was never written it is announced by nobody.         *)
Untouched(o) == announced[o] = 0 /\ Announcing(o) = {} /\ overtaken[o] = {}

(* Every announcement, made or due, but one has an overtaken mutation.      *)
DueIsBounded ==
    \A o \in Orders :
        /\ order[o].status \in {"NONE", "PENDING"} => Untouched(o)
        /\ announced[o] + Cardinality(Due(o)) <= 1 + Cardinality(overtaken[o])

Inv ==
    /\ PlacingTypeOK
    /\ BusyHasOrder
    /\ PlacesPending
    /\ DueIsBounded

-----------------------------------------------------------------------------
LEMMA FiniteRequests ==
    ASSUME NEW S \in SUBSET Requests
    PROVE  IsFiniteSet(S) /\ Cardinality(S) \in Nat
BY OrderAssumption, FS_Subset, FS_CardinalityType

LEMMA Fewer ==
    ASSUME NEW S \in SUBSET Requests, NEW T \in SUBSET S
    PROVE  Cardinality(T) <= Cardinality(S)
BY FiniteRequests, FS_Subset

LEMMA InitInv == Init => Inv
<1> SUFFICES ASSUME Init PROVE Inv
  OBVIOUS
<1>1. PlacingTypeOK /\ BusyHasOrder /\ PlacesPending
  BY OrderAssumption DEF Init, PlacingTypeOK, BusyHasOrder, PlacesPending, Placing,
     OrderDoc, Request, IdleRequest
<1>2. DueIsBounded
  <2> SUFFICES ASSUME NEW o \in Orders
               PROVE  Untouched(o) /\ Due(o) = {}
    BY FS_EmptySet DEF DueIsBounded, Untouched
  <2> QED
    BY DEF Init, Untouched, Due, Announcing, Placing, IdleRequest
<1> QED
  BY <1>1, <1>2 DEF Inv

(* A step that writes no status and neither makes nor promises an           *)
(* announcement, nor finds an order PENDING that is not.                    *)
LEMMA Kept ==
    ASSUME Inv, UNCHANGED <<announced, overtaken>>, PlacingTypeOK', BusyHasOrder',
           \A o \in Orders :
              /\ \/ order'[o] = order[o]
                 \/ order[o].status = "NONE" /\ order'[o].status = "PENDING"
              /\ Announcing(o)' \subseteq Announcing(o)
              /\ \A r \in Placing(o)' : r \in Placing(o) \/ order'[o].status = "PENDING"
    PROVE  Inv'
<1>1. PlacesPending'
  BY DEF Inv, PlacesPending
<1>2. ASSUME NEW o \in Orders
      PROVE  /\ order'[o].status \in {"NONE", "PENDING"} => Untouched(o)'
             /\ announced'[o] + Cardinality(Due(o)') <= 1 + Cardinality(overtaken'[o])
  <2>1. order'[o].status \in {"NONE", "PENDING"} => order[o].status \in {"NONE", "PENDING"}
    OBVIOUS
  <2>2. order'[o].status \in {"NONE", "PENDING"} => Untouched(o)'
    BY <2>1 DEF Inv, DueIsBounded, Untouched
  <2>3. Due(o)' \subseteq Due(o)
    <3>1. CASE order'[o].status = "PENDING"
      BY <3>1, <2>1 DEF Inv, DueIsBounded, Untouched, Due
    <3>2. CASE order'[o].status # "PENDING"
      BY <3>2 DEF Due
    <3> QED
      BY <3>1, <3>2
  <2>4. Due(o) \in SUBSET Requests
    BY DEF Due, Announcing, Placing
  <2>5. Cardinality(Due(o)') <= Cardinality(Due(o))
    BY <2>3, <2>4, Fewer
  <2>6. /\ announced[o] \in Nat /\ Cardinality(Due(o)) \in Nat
        /\ Cardinality(Due(o)') \in Nat /\ Cardinality(overtaken[o]) \in Nat
    BY <2>3, <2>4, FiniteRequests DEF Inv, PlacingTypeOK
  <2> QED
    BY <2>2, <2>5, <2>6 DEF Inv, DueIsBounded
<1> QED
  BY <1>1, <1>2 DEF Inv, DueIsBounded

(* The steps of the compensation leave the placing side alone.              *)
LEMMA PlacingUnchanged == Inv /\ UNCHANGED placing => Inv'
<1> SUFFICES ASSUME Inv, UNCHANGED placing PROVE Inv'
  OBVIOUS
<1>1. \A o \in Orders : Announcing(o)' = Announcing(o) /\ Placing(o)' = Placing(o)
  BY DEF placing, Announcing, Placing
<1>2. PlacingTypeOK' /\ BusyHasOrder' /\ UNCHANGED <<order, announced, overtaken>>
  BY DEF placing, Inv, PlacingTypeOK, BusyHasOrder
<1> QED
  BY <1>1, <1>2, Kept

LEMMA CreateInv ==
    ASSUME Inv, NEW o \in Orders, CreateOrder(o)
    PROVE  Inv'
<1>1. /\ \A q \in Orders : Announcing(q)' = Announcing(q) /\ Placing(q)' = Placing(q)
      /\ UNCHANGED <<announced, overtaken, request>>
  BY DEF CreateOrder, Announcing, Placing
<1>2. /\ order' \in [Orders -> OrderDoc]
      /\ order[o].status = "NONE" /\ order'[o].status = "PENDING"
      /\ \A q \in Orders : q # o => order'[q] = order[q]
  BY DEF CreateOrder, Inv, PlacingTypeOK, OrderDoc
<1>3. PlacingTypeOK' /\ BusyHasOrder'
  BY <1>1, <1>2 DEF Inv, PlacingTypeOK, BusyHasOrder
<1> QED
  BY <1>1, <1>2, <1>3, Kept

(* A step that only moves a request, and not to where it would write or     *)
(* announce.                                                                *)
LEMMA RequestInv ==
    ASSUME Inv, NEW r \in Requests, request' \in [Requests -> Request],
           \A q \in Requests : q # r => request'[q] = request[q],
           request'[r].pc # "idle" => request'[r].order \in Orders,
           request'[r].pc = "place" => order[request'[r].order].status = "PENDING",
           request'[r].pc \in {"reread", "publish"} =>
               /\ request'[r].order = request[r].order
               /\ request[r].pc \in {"reread", "publish"},
           UNCHANGED <<order, announced, overtaken>>
    PROVE  Inv'
<1>1. PlacingTypeOK' /\ BusyHasOrder'
  BY DEF Inv, PlacingTypeOK, BusyHasOrder
<1>2. \A o \in Orders : Announcing(o)' \subseteq Announcing(o)
  BY DEF Announcing
<1>3. \A o \in Orders : \A q \in Placing(o)' :
          q \in Placing(o) \/ order'[o].status = "PENDING"
  BY DEF Placing
<1> QED
  BY <1>1, <1>2, <1>3, Kept

LEMMA EndInv ==
    ASSUME Inv, NEW r \in Requests, EndRequest(r), UNCHANGED <<order, announced, overtaken>>
    PROVE  Inv'
<1>1. /\ request' \in [Requests -> Request] /\ request'[r].pc = "idle"
      /\ \A q \in Requests : q # r => request'[q] = request[q]
  BY OrderAssumption DEF EndRequest, IdleRequest, Inv, PlacingTypeOK, Request
<1> QED
  BY <1>1, RequestInv

LEMMA PlaceOrderInv ==
    ASSUME Inv, NEW r \in Requests, NEW o \in Orders, PlaceOrder(r, o)
    PROVE  Inv'
<1>1. \A x \in BOOLEAN : [pc |-> "read", order |-> o, late |-> x] \in Request
  BY DEF Request
<1>2. (o \in late) \in BOOLEAN
  OBVIOUS
<1>3. [pc |-> "read", order |-> o, late |-> o \in late] \in Request
  BY <1>1, <1>2, Zenon
<1>4. request' \in [Requests -> Request]
  BY <1>3, Zenon DEF PlaceOrder, Inv, PlacingTypeOK
<1>5. /\ request'[r].pc = "read" /\ request'[r].order = o
      /\ \A q \in Requests : q # r => request'[q] = request[q]
      /\ UNCHANGED <<order, announced, overtaken>>
  BY DEF PlaceOrder, Inv, PlacingTypeOK
<1> QED
  BY <1>4, <1>5, RequestInv

LEMMA Moved ==
    ASSUME Inv, NEW r \in Requests, NEW pc \in {"place", "reject", "reread", "publish"},
           RequestAt(r, pc)
    PROVE  /\ request' \in [Requests -> Request]
           /\ request'[r].pc = pc /\ request'[r].order = request[r].order
           /\ \A q \in Requests : q # r => request'[q] = request[q]
BY DEF RequestAt, Inv, PlacingTypeOK, Request

LEMMA SetStatusPlacedInv ==
    ASSUME Inv, NEW r \in Requests, SetStatusPlaced(r)
    PROVE  Inv'
<1>1. UNCHANGED <<order, announced, overtaken>> /\ request[r].order \in Orders
  BY DEF SetStatusPlaced, Inv, BusyHasOrder
<1>2. CASE RequestAt(r, "reject")
  BY <1>1, <1>2, Moved, RequestInv
<1>3. CASE RequestAt(r, "place") /\ order[request[r].order].status = "PENDING"
  BY <1>1, <1>3, Moved, RequestInv
<1>4. CASE EndRequest(r)
  BY <1>1, <1>4, EndInv
<1> QED
  BY <1>2, <1>3, <1>4 DEF SetStatusPlaced

(* A mutation writes the status of its order: it was PENDING, and then      *)
(* whoever else found it so is overtaken, or they had been before.          *)
LEMMA WriteInv ==
    ASSUME Inv, NEW r \in Requests, NEW o \in Orders, o = request[r].order, Overtake(r),
           request[r].pc \in {"place", "reject"},
           request' \in [Requests -> Request],
           \A q \in Requests : q # r => request'[q] = request[q],
           \/ request'[r].pc = "idle"
           \/ request'[r].pc = "reread" /\ request'[r].order = o /\ request[r].pc = "place",
           order' \in [Orders -> OrderDoc],
           order'[o].status \in {"PLACED", "REJECTED"},
           \A q \in Orders : q # o => order'[q] = order[q],
           UNCHANGED announced
    PROVE  Inv'
<1>1. /\ overtaken' \in [Orders -> SUBSET Requests]
      /\ overtaken'[o] = overtaken[o] \cup (Placing(o) \ {r})
      /\ \A q \in Orders : q # o => overtaken'[q] = overtaken[q]
  BY DEF Overtake, Inv, PlacingTypeOK, Placing
<1>2. PlacingTypeOK' /\ BusyHasOrder'
  BY <1>1 DEF Inv, PlacingTypeOK, BusyHasOrder
<1>3. Placing(o)' = Placing(o) \ {r}
  BY DEF Placing
<1>4. Announcing(o)' = IF request'[r].pc = "reread" THEN Announcing(o) \cup {r}
                                                     ELSE Announcing(o)
  BY DEF Announcing
<1>5. \A q \in Orders : q # o => Placing(q)' = Placing(q) /\ Announcing(q)' = Announcing(q)
  BY DEF Placing, Announcing
<1>6. PlacesPending'
  BY <1>1, <1>3, <1>5 DEF Inv, PlacesPending
<1>7. ASSUME NEW q \in Orders, q # o
      PROVE  /\ order'[q].status \in {"NONE", "PENDING"} => Untouched(q)'
             /\ announced'[q] + Cardinality(Due(q))' <= 1 + Cardinality(overtaken'[q])
  <2>1. Due(q)' = Due(q) /\ order'[q] = order[q] /\ overtaken'[q] = overtaken[q]
    BY <1>1, <1>5, <1>7 DEF Due
  <2>2. Cardinality(Due(q))' = Cardinality(Due(q)')
    OBVIOUS
  <2> QED
    BY <1>5, <1>7, <2>1, <2>2 DEF Inv, DueIsBounded, Untouched
<1>8. announced'[o] + Cardinality(Due(o)') <= 1 + Cardinality(overtaken'[o])
  <2>1. Due(o)' = IF request'[r].pc = "reread"
                    THEN (Announcing(o) \cup (Placing(o) \ {r})) \cup {r}
                    ELSE Announcing(o) \cup (Placing(o) \ {r})
    BY <1>1, <1>3, <1>4 DEF Due
  <2>2. CASE order[o].status \in {"NONE", "PENDING"}
    <3>1. /\ announced[o] = 0 /\ Announcing(o) = {}
          /\ overtaken'[o] = Placing(o) \ {r}
      BY <1>1, <2>2 DEF Inv, DueIsBounded, Untouched
    <3>2. Due(o)' \subseteq overtaken'[o] \cup {r}
      BY <2>1, <3>1
    <3>3. overtaken'[o] \cup {r} \in SUBSET Requests /\ overtaken'[o] \in SUBSET Requests
      BY <1>1
    <3>4. Cardinality(overtaken'[o] \cup {r}) <= 1 + Cardinality(overtaken'[o])
      BY <3>3, FiniteRequests, FS_AddElement
    <3>5. Due(o)' \in SUBSET Requests
      BY <3>2, <3>3
    <3>6. Cardinality(Due(o)') <= Cardinality(overtaken'[o] \cup {r})
      BY <3>2, <3>3, Fewer
    <3>7. /\ Cardinality(Due(o)') \in Nat /\ Cardinality(overtaken'[o]) \in Nat
          /\ Cardinality(overtaken'[o] \cup {r}) \in Nat
      BY <3>3, <3>5, FiniteRequests
    <3> QED
      BY <3>1, <3>4, <3>6, <3>7
  <2>3. CASE order[o].status \notin {"NONE", "PENDING"}
    <3>1. Placing(o) \subseteq overtaken[o]
      BY <2>3 DEF Inv, PlacesPending
    <3>2. overtaken'[o] = overtaken[o] /\ Due(o) = Announcing(o) \cup Placing(o)
      BY <1>1, <3>1 DEF Due
    <3>3. request'[r].pc = "reread" => r \in Placing(o)
      BY DEF Placing
    <3>4. Due(o)' \subseteq Due(o)
      BY <2>1, <3>2, <3>3
    <3>5. Due(o) \in SUBSET Requests
      BY DEF Due, Announcing, Placing
    <3>6. Cardinality(Due(o)') <= Cardinality(Due(o))
      BY <3>4, <3>5, Fewer
    <3>7. /\ announced[o] \in Nat /\ Cardinality(Due(o)) \in Nat
          /\ Cardinality(Due(o)') \in Nat /\ Cardinality(overtaken[o]) \in Nat
      BY <3>4, <3>5, FiniteRequests DEF Inv, PlacingTypeOK
    <3>8. announced[o] + Cardinality(Due(o)) <= 1 + Cardinality(overtaken[o])
      BY DEF Inv, DueIsBounded
    <3>9. announced' = announced
      OBVIOUS
    <3> QED
      BY <3>2, <3>6, <3>7, <3>8, <3>9
  <2> QED
    BY <2>2, <2>3
<1>9. DueIsBounded'
  <2>1. Cardinality(Due(o))' = Cardinality(Due(o)')
    OBVIOUS
  <2> QED
    BY <1>7, <1>8, <2>1 DEF DueIsBounded
<1> QED
  BY <1>2, <1>6, <1>9 DEF Inv

LEMMA WritePlacedInv ==
    ASSUME Inv, NEW r \in Requests, WritePlaced(r)
    PROVE  Inv'
<1>1. PICK o \in Orders : o = request[r].order
  BY DEF WritePlaced, Inv, BusyHasOrder
<1>2. /\ order' \in [Orders -> OrderDoc] /\ order'[o].status = "PLACED"
      /\ \A q \in Orders : q # o => order'[q] = order[q]
  BY <1>1 DEF WritePlaced, Inv, PlacingTypeOK, OrderDoc
<1>3. Overtake(r) /\ RequestAt(r, "reread") /\ request[r].pc = "place" /\ UNCHANGED announced
  BY DEF WritePlaced
<1> QED
  BY <1>1, <1>2, <1>3, Moved, WriteInv

LEMMA WriteRejectedInv ==
    ASSUME Inv, NEW r \in Requests, WriteRejected(r)
    PROVE  Inv'
<1>1. PICK o \in Orders : o = request[r].order
  BY DEF WriteRejected, Inv, BusyHasOrder
<1>2. /\ order' \in [Orders -> OrderDoc] /\ order'[o].status = "REJECTED"
      /\ \A q \in Orders : q # o => order'[q] = order[q]
  BY <1>1 DEF WriteRejected, Inv, PlacingTypeOK, OrderDoc
<1>3. Overtake(r) /\ request[r].pc = "reject" /\ UNCHANGED announced
  BY DEF WriteRejected
<1>4. /\ request' \in [Requests -> Request] /\ request'[r].pc = "idle"
      /\ \A q \in Requests : q # r => request'[q] = request[q]
  BY OrderAssumption DEF WriteRejected, EndRequest, IdleRequest, Inv, PlacingTypeOK, Request
<1> QED
  BY <1>1, <1>2, <1>3, <1>4, WriteInv

LEMMA RereadInv ==
    ASSUME Inv, NEW r \in Requests, Reread(r)
    PROVE  Inv'
<1>1. /\ UNCHANGED <<order, announced, overtaken>>
      /\ request[r].pc = "reread" /\ request[r].order \in Orders
  BY DEF Reread, Inv, BusyHasOrder
<1>2. CASE RequestAt(r, "publish")
  BY <1>1, <1>2, Moved, RequestInv
<1>3. CASE EndRequest(r)
  BY <1>1, <1>3, EndInv
<1> QED
  BY <1>2, <1>3 DEF Reread

(* What was due is made.                                                    *)
LEMMA PublishInv ==
    ASSUME Inv, NEW r \in Requests, PublishOrderCreated(r)
    PROVE  Inv'
<1>1. PICK o \in Orders : o = request[r].order /\ request[r].pc = "publish"
  BY DEF PublishOrderCreated, Inv, BusyHasOrder
<1>2. /\ request' \in [Requests -> Request] /\ request'[r].pc = "idle"
      /\ \A q \in Requests : q # r => request'[q] = request[q]
  BY OrderAssumption DEF PublishOrderCreated, EndRequest, IdleRequest, Inv, PlacingTypeOK,
     Request
<1>3. /\ announced' \in [Orders -> Nat] /\ announced'[o] = announced[o] + 1
      /\ \A q \in Orders : q # o => announced'[q] = announced[q]
      /\ UNCHANGED <<order, overtaken>>
  BY <1>1 DEF PublishOrderCreated, Inv, PlacingTypeOK
<1>4. PlacingTypeOK' /\ BusyHasOrder'
  BY <1>2, <1>3 DEF Inv, PlacingTypeOK, BusyHasOrder
<1>5. /\ \A q \in Orders : Placing(q)' = Placing(q)
      /\ \A q \in Orders : q # o => Announcing(q)' = Announcing(q)
      /\ Announcing(o)' = Announcing(o) \ {r} /\ r \in Announcing(o) /\ r \notin Placing(o)
  BY <1>1, <1>2 DEF Placing, Announcing
<1>6. PlacesPending'
  BY <1>3, <1>5 DEF Inv, PlacesPending
<1>7. ASSUME NEW q \in Orders, q # o
      PROVE  /\ order'[q].status \in {"NONE", "PENDING"} => Untouched(q)'
             /\ announced'[q] + Cardinality(Due(q)') <= 1 + Cardinality(overtaken'[q])
  <2>1. Due(q)' = Due(q)
    BY <1>3, <1>5, <1>7 DEF Due
  <2> QED
    BY <1>3, <1>5, <1>7, <2>1 DEF Inv, DueIsBounded, Untouched
<1>8. /\ order'[o].status \in {"NONE", "PENDING"} => Untouched(o)'
      /\ announced'[o] + Cardinality(Due(o)') <= 1 + Cardinality(overtaken'[o])
  <2>1. order'[o].status \notin {"NONE", "PENDING"}
    BY <1>3, <1>5 DEF Inv, DueIsBounded, Untouched
  <2>2. Due(o)' = Due(o) \ {r} /\ r \in Due(o) /\ Due(o) \in SUBSET Requests
    BY <1>3, <1>5 DEF Due, Announcing, Placing
  <2>3. /\ Cardinality(Due(o) \ {r}) = Cardinality(Due(o)) - 1
        /\ Cardinality(Due(o)) \in Nat /\ Cardinality(overtaken[o]) \in Nat
        /\ announced[o] \in Nat
    BY <2>2, FiniteRequests, FS_RemoveElement DEF Inv, PlacingTypeOK
  <2> QED
    BY <1>3, <2>1, <2>2, <2>3 DEF Inv, DueIsBounded
<1>9. DueIsBounded'
  <2>1. \A q \in Orders : Cardinality(Due(q))' = Cardinality(Due(q)')
    OBVIOUS
  <2> QED
    BY <1>7, <1>8, <2>1 DEF DueIsBounded
<1> QED
  BY <1>4, <1>6, <1>9 DEF Inv

LEMMA NextInv == Inv /\ [Next]_vars => Inv'
<1> SUFFICES ASSUME Inv, [Next]_vars PROVE Inv'
  OBVIOUS
<1>1. ASSUME NEW o \in Orders, CreateOrder(o)
      PROVE  Inv'
  BY <1>1, CreateInv
<1>2. ASSUME NEW r \in Requests, NEW o \in Orders, PlaceOrder(r, o)
      PROVE  Inv'
  BY <1>2, PlaceOrderInv
<1>3. ASSUME NEW r \in Requests, Serve(r)
      PROVE  Inv'
  BY <1>3, SetStatusPlacedInv, WritePlacedInv, WriteRejectedInv, RereadInv,
     PublishInv DEF Serve
<1>4. ASSUME NEW r \in Requests, RequestFails(r)
      PROVE  Inv'
  BY <1>4, EndInv DEF RequestFails
<1>5. ASSUME NEW o \in Orders, Expire(o)
      PROVE  Inv'
  <2>1. UNCHANGED <<order, request, announced, overtaken>>
    BY <1>5 DEF Expire
  <2>2. PlacingTypeOK' /\ BusyHasOrder'
    BY <2>1 DEF Inv, PlacingTypeOK, BusyHasOrder
  <2>3. \A q \in Orders : Announcing(q)' = Announcing(q) /\ Placing(q)' = Placing(q)
    BY <2>1 DEF Announcing, Placing
  <2> QED
    BY <2>1, <2>2, <2>3, Kept
<1>6. ASSUME NEW h \in Handlers, NEW f \in Failures, Deliver(h, f)
      PROVE  Inv'
  BY <1>6, PlacingUnchanged DEF Deliver
<1>7. ASSUME NEW h \in Handlers, CompensateOrder(h) \/ HandlerFails(h)
      PROVE  Inv'
  BY <1>7, PlacingUnchanged DEF CompensateOrder, VerifyItemsUncompensated,
     InsertOrderCompensation, PublishOrderCompensationCreated, HandlerFails
<1>8. CASE UNCHANGED vars
  BY <1>8, PlacingUnchanged DEF vars, placing
<1> QED
  BY <1>1, <1>2, <1>3, <1>4, <1>5, <1>6, <1>7, <1>8 DEF Next

-----------------------------------------------------------------------------
(* For any number of mutations at the same time, whatever fails: the saga   *)
(* of an order is started once, and once more at most for each mutation     *)
(* that another one overtook between its check and its write.               *)
THEOREM SagaStartsAreBounded == Spec => []SagasAreBounded
<1>1. Inv => SagasAreBounded
  <2> SUFFICES ASSUME Inv, NEW o \in Orders
               PROVE  announced[o] <= 1 + Cardinality(overtaken[o])
    BY DEF SagasAreBounded
  <2>1. Due(o) \in SUBSET Requests
    BY DEF Due, Announcing, Placing
  <2>2. /\ Cardinality(Due(o)) \in Nat /\ announced[o] \in Nat
        /\ Cardinality(overtaken[o]) \in Nat
    BY <2>1, FiniteRequests DEF Inv, PlacingTypeOK
  <2> QED
    BY <2>2 DEF Inv, DueIsBounded
<1> QED
  BY <1>1, InitInv, NextInv, PTL DEF Spec

(* For any number of mutations at the same time: an order leaves REJECTED   *)
(* only through one that had found it PENDING and was overtaken.            *)
THEOREM RejectedStays == Spec => RejectedUnlessOvertaken
<1>1. Inv /\ [Next]_vars =>
        [\A o \in Orders :
            order[o].status = "REJECTED" /\ order'[o].status # "REJECTED"
                => \E r \in overtaken[o] : r \in Placing(o)]_vars
  <2> SUFFICES ASSUME Inv, Next, NEW o \in Orders, order[o].status = "REJECTED",
                      order'[o].status # "REJECTED"
               PROVE  \E r \in overtaken[o] : r \in Placing(o)
    BY DEF vars
  <2>1. ASSUME NEW q \in Orders, CreateOrder(q)
        PROVE  FALSE
    BY <2>1 DEF CreateOrder, Inv, PlacingTypeOK
  <2>2. ASSUME NEW r \in Requests, WritePlaced(r)
        PROVE  \E q \in overtaken[o] : q \in Placing(o)
    <3>1. request[r].order = o /\ r \in Placing(o)
      BY <2>2 DEF WritePlaced, Inv, PlacingTypeOK, BusyHasOrder, Placing
    <3> QED
      BY <3>1 DEF Inv, PlacesPending
  <2>3. ASSUME NEW r \in Requests, WriteRejected(r)
        PROVE  FALSE
    BY <2>3 DEF WriteRejected, Inv, PlacingTypeOK, OrderDoc
  <2>4. CASE UNCHANGED order
    BY <2>4
  <2> QED
    BY <2>1, <2>2, <2>3, <2>4 DEF Next, Expire, PlaceOrder, Serve,
       SetStatusPlaced, Reread, PublishOrderCreated, RequestFails, Deliver,
       CompensateOrder, VerifyItemsUncompensated, InsertOrderCompensation,
       PublishOrderCompensationCreated, HandlerFails, placing
<1> QED
  BY <1>1, InitInv, NextInv, PTL DEF Spec, RejectedUnlessOvertaken

-----------------------------------------------------------------------------
(* Refunds.  No two events of the shipment service about one order name a   *)
(* common item: the groups it makes shipments of are disjoint (Group of     *)
(* Shipment, and its theorem ItemsAreSentOnce).                             *)
GroupsApart ==
    \A f, g \in Failures : f # g /\ OrderOf[f] = OrderOf[g]
                             => FailedItems[f] \cap FailedItems[g] = {}

RefundTypeOK ==
    /\ handler \in [Handlers -> Handler]
    /\ deliveries \in [Failures -> Nat]
    /\ compensations \in [Failures -> Nat]
    /\ refunded \in [Orders -> Nat]

(* The handler h has not stored the compensation for f yet.                 *)
Compensating(h, f) == handler[h].event = f /\ handler[h].pc \in {"verify", "insert"}

BusyHasEvent == \A h \in Handlers : handler[h].pc # "idle" => handler[h].event \in Failures

(* An event that was delivered once is compensated once.                    *)
CompensatedOnce ==
    \A f \in Failures : deliveries[f] <= 1 =>
        /\ deliveries[f] = 0 => /\ compensations[f] = 0
                                /\ \A h \in Handlers : ~Compensating(h, f)
        /\ \A h \in Handlers : Compensating(h, f) => compensations[f] = 0
        /\ \A h, k \in Handlers : Compensating(h, f) /\ Compensating(k, f) => h = k

(* The items of o that compensations are stored for, and their value.       *)
Compensated(o) ==
    UNION {ItemsOf[o] \cap FailedItems[f] :
             f \in {g \in Failures : OrderOf[g] = o /\ compensations[g] > 0}}
EachOnce(o) == \A f \in Failures : OrderOf[f] = o => deliveries[f] <= 1
RefundsAreDue ==
    \A o \in Orders : EachOnce(o) => refunded[o] = Total(Compensated(o))

RefundInv == RefundTypeOK /\ BusyHasEvent /\ CompensatedOnce /\ RefundsAreDue

LEMMA OrderAmounts ==
    ASSUME NEW o \in Orders, NEW S \in SUBSET ItemsOf[o]
    PROVE  /\ Amounts(AmountOf, S) /\ Counts(AmountOf, S)
           /\ Total(S) = SumOf(AmountOf, S) /\ Total(S) \in Nat
<1>1. Counts(AmountOf, S)
  BY OrderAssumption, FS_Subset DEF Counts
<1>2. Total(S) = SumOf(AmountOf, S)
  BY DEF Total, SumOf
<1> QED
  BY <1>1, <1>2, SumCount

LEMMA CompensatedItems ==
    ASSUME NEW o \in Orders
    PROVE  Compensated(o) \in SUBSET ItemsOf[o]
BY DEF Compensated

LEMMA InitRefund == Init => RefundInv
<1> SUFFICES ASSUME Init PROVE RefundInv
  OBVIOUS
<1>1. RefundTypeOK
  BY OrderAssumption DEF Init, RefundTypeOK, Handler, IdleHandler
<1>2. BusyHasEvent /\ CompensatedOnce
  BY DEF Init, BusyHasEvent, CompensatedOnce, Compensating, IdleHandler
<1>3. RefundsAreDue
  <2> SUFFICES ASSUME NEW o \in Orders PROVE refunded[o] = Total(Compensated(o))
    BY DEF RefundsAreDue
  <2>1. Compensated(o) = {}
    BY DEF Init, Compensated
  <2>2. Total({}) = 0
    BY OrderAmounts, SumRec
  <2> QED
    BY <2>1, <2>2 DEF Init
<1> QED
  BY <1>1, <1>2, <1>3 DEF RefundInv

(* A step that stores nothing and begins no handler.                        *)
LEMMA RefundKept ==
    ASSUME RefundInv, handler' \in [Handlers -> Handler],
           UNCHANGED <<deliveries, compensations, refunded>>, BusyHasEvent',
           \A h \in Handlers, f \in Failures : Compensating(h, f)' => Compensating(h, f)
    PROVE  RefundInv'
<1>1. RefundTypeOK' /\ CompensatedOnce'
  BY DEF RefundInv, RefundTypeOK, CompensatedOnce
<1>2. RefundsAreDue'
  <2>1. \A o \in Orders : Compensated(o)' = Compensated(o) /\ EachOnce(o)' = EachOnce(o)
    BY DEF Compensated, EachOnce
  <2>2. \A o \in Orders : Total(Compensated(o))' = Total(Compensated(o)')
    OBVIOUS
  <2> QED
    BY <2>1, <2>2 DEF RefundInv, RefundsAreDue
<1> QED
  BY <1>1, <1>2 DEF RefundInv

LEMMA DeliverRefund ==
    ASSUME RefundInv, NEW h \in Handlers, NEW f \in Failures, Deliver(h, f)
    PROVE  RefundInv'
<1>1. /\ handler' \in [Handlers -> Handler]
      /\ handler'[h].pc = "verify" /\ handler'[h].event = f
      /\ \A k \in Handlers : k # h => handler'[k] = handler[k]
  BY DEF Deliver, RefundInv, RefundTypeOK, Handler
<1>2. /\ deliveries' \in [Failures -> Nat]
      /\ deliveries'[f] = deliveries[f] + 1
      /\ \A g \in Failures : g # f => deliveries'[g] = deliveries[g]
      /\ UNCHANGED <<compensations, refunded>>
  BY DEF Deliver, RefundInv, RefundTypeOK
<1>3. RefundTypeOK' /\ BusyHasEvent'
  BY <1>1, <1>2 DEF RefundInv, RefundTypeOK, BusyHasEvent
<1>4. \A k \in Handlers, g \in Failures :
          Compensating(k, g)' <=> IF k = h THEN g = f ELSE Compensating(k, g)
  BY <1>1 DEF Compensating
<1>5. CompensatedOnce'
  <2>1. SUFFICES ASSUME NEW g \in Failures, deliveries'[g] <= 1
                 PROVE  /\ deliveries'[g] = 0 =>
                             /\ compensations'[g] = 0
                             /\ \A k \in Handlers : ~Compensating(k, g)'
                        /\ \A k \in Handlers : Compensating(k, g)' => compensations'[g] = 0
                        /\ \A k, j \in Handlers :
                             Compensating(k, g)' /\ Compensating(j, g)' => k = j
    BY DEF CompensatedOnce
  <2>2. deliveries[g] <= 1 /\ deliveries[g] \in Nat
    BY <1>2, <2>1 DEF RefundInv, RefundTypeOK
  <2>3. CASE g = f
    <3>1. deliveries[f] = 0 /\ deliveries'[g] = 1
      BY <1>2, <2>1, <2>2, <2>3
    <3>2. compensations[f] = 0 /\ \A k \in Handlers : ~Compensating(k, f)
      BY <3>1 DEF RefundInv, CompensatedOnce
    <3> QED
      BY <1>2, <1>4, <2>3, <3>1, <3>2
  <2>4. CASE g # f
    BY <1>2, <1>4, <2>1, <2>2, <2>4 DEF RefundInv, CompensatedOnce, Compensating
  <2> QED
    BY <2>3, <2>4
<1>6. RefundsAreDue'
  <2>1. SUFFICES ASSUME NEW o \in Orders, EachOnce(o)'
                 PROVE  refunded'[o] = Total(Compensated(o))'
    BY DEF RefundsAreDue
  <2>2. EachOnce(o)
    BY <1>2, <2>1 DEF EachOnce, RefundInv, RefundTypeOK
  <2> QED
    <3>1. Compensated(o)' = Compensated(o)
      BY <1>2 DEF Compensated
    <3>2. Total(Compensated(o))' = Total(Compensated(o)')
      OBVIOUS
    <3> QED
      BY <1>2, <2>2, <3>1, <3>2 DEF RefundInv, RefundsAreDue
<1> QED
  BY <1>3, <1>5, <1>6 DEF RefundInv

(* A handler that goes on or ends without storing anything.                 *)
LEMMA EndHandlerRefund ==
    ASSUME RefundInv, NEW h \in Handlers, EndHandler(h),
           UNCHANGED <<deliveries, compensations, refunded>>
    PROVE  RefundInv'
<1>1. /\ handler' \in [Handlers -> Handler] /\ handler'[h].pc = "idle"
      /\ \A k \in Handlers : k # h => handler'[k] = handler[k]
  BY OrderAssumption DEF EndHandler, IdleHandler, RefundInv, RefundTypeOK, Handler
<1>2. BusyHasEvent'
  BY <1>1 DEF RefundInv, BusyHasEvent
<1>3. \A k \in Handlers, f \in Failures : Compensating(k, f)' => Compensating(k, f)
  BY <1>1 DEF Compensating
<1> QED
  BY <1>1, <1>2, <1>3, RefundKept

LEMMA VerifyRefund ==
    ASSUME RefundInv, NEW h \in Handlers, VerifyItemsUncompensated(h)
    PROVE  RefundInv'
<1>1. UNCHANGED <<deliveries, compensations, refunded>>
  BY DEF VerifyItemsUncompensated
<1>2. CASE HandlerAt(h, "insert")
  <2>1. /\ handler' \in [Handlers -> Handler]
        /\ handler'[h].pc = "insert" /\ handler'[h].event = handler[h].event
        /\ \A k \in Handlers : k # h => handler'[k] = handler[k]
    BY <1>2 DEF HandlerAt, RefundInv, RefundTypeOK, Handler
  <2>2. BusyHasEvent'
    BY <2>1 DEF VerifyItemsUncompensated, RefundInv, BusyHasEvent
  <2>3. \A k \in Handlers, f \in Failures : Compensating(k, f)' => Compensating(k, f)
    BY <2>1 DEF Compensating, VerifyItemsUncompensated
  <2> QED
    BY <1>1, <2>1, <2>2, <2>3, RefundKept
<1>3. CASE EndHandler(h)
  BY <1>1, <1>3, EndHandlerRefund
<1> QED
  BY <1>2, <1>3 DEF VerifyItemsUncompensated

(* The insert: the items of the event were not compensated before.          *)
LEMMA InsertRefund ==
    ASSUME GroupsApart, RefundInv, NEW h \in Handlers, InsertOrderCompensation(h)
    PROVE  RefundInv'
<1>0. PICK f \in Failures : f = handler[h].event /\ handler[h].pc = "insert"
  BY DEF InsertOrderCompensation, RefundInv, BusyHasEvent
<1>1. /\ handler' \in [Handlers -> Handler]
      /\ handler'[h].pc = "publish" /\ handler'[h].event = f
      /\ \A k \in Handlers : k # h => handler'[k] = handler[k]
  BY <1>0 DEF InsertOrderCompensation, HandlerAt, RefundInv, RefundTypeOK, Handler
<1>2. PICK o \in Orders : o = OrderOf[f]
  BY OrderAssumption
<1>3. PICK items : items = ItemsOf[o] \cap FailedItems[f]
  OBVIOUS
<1>4. items \in SUBSET ItemsOf[o] /\ AmountToCompensate(f) = Total(items)
  BY <1>2, <1>3 DEF AmountToCompensate
<1>5. Total(items) \in Nat
  BY <1>4, OrderAmounts
<1>6. /\ compensations' \in [Failures -> Nat]
      /\ compensations'[f] = compensations[f] + 1
      /\ \A g \in Failures : g # f => compensations'[g] = compensations[g]
      /\ UNCHANGED deliveries
  BY <1>0 DEF InsertOrderCompensation, RefundInv, RefundTypeOK
<1>7. /\ refunded' \in [Orders -> Nat]
      /\ refunded'[o] = refunded[o] + Total(items)
      /\ \A q \in Orders : q # o => refunded'[q] = refunded[q]
  <2>1. refunded' = [refunded EXCEPT ![o] = @ + Total(items)]
    BY <1>0, <1>2, <1>4 DEF InsertOrderCompensation
  <2>2. PICK n \in Nat : n = Total(items)
    BY <1>5
  <2> QED
    BY <2>1, <2>2 DEF RefundInv, RefundTypeOK
<1>8. RefundTypeOK' /\ BusyHasEvent'
  BY <1>1, <1>6, <1>7 DEF RefundInv, RefundTypeOK, BusyHasEvent
<1>9. \A k \in Handlers, g \in Failures :
          Compensating(k, g)' => Compensating(k, g) /\ k # h
  BY <1>1 DEF Compensating
<1>10. CompensatedOnce'
  <2>1. Compensating(h, f)
    BY <1>0 DEF Compensating
  <2>2. deliveries[f] <= 1 => /\ deliveries[f] # 0
                              /\ \A k \in Handlers : Compensating(k, f) => k = h
    BY <2>1 DEF RefundInv, CompensatedOnce
  <2> QED
    BY <1>6, <1>9, <2>2 DEF RefundInv, CompensatedOnce
<1>11. \A q \in Orders : q # o => Compensated(q)' = Compensated(q)
  BY <1>2, <1>6 DEF Compensated
<1>12. Compensated(o)' = Compensated(o) \cup items
  <2>1. compensations[f] \in Nat /\ compensations'[f] > 0
    BY <1>6 DEF RefundInv, RefundTypeOK
  <2>2. {g \in Failures : OrderOf[g] = o /\ compensations'[g] > 0}
          = {g \in Failures : OrderOf[g] = o /\ compensations[g] > 0} \cup {f}
    BY <1>2, <1>6, <2>1
  <2> QED
    BY <1>3, <2>2 DEF Compensated
<1>13. EachOnce(o) => Compensated(o) \cap items = {}
  <2>1. Compensating(h, f)
    BY <1>0 DEF Compensating
  <2>2. EachOnce(o) => compensations[f] = 0
    BY <1>2, <2>1 DEF EachOnce, RefundInv, CompensatedOnce
  <2> QED
    BY <1>2, <1>3, <2>2 DEF Compensated, GroupsApart
<1>14. RefundsAreDue'
  <2>1. ASSUME NEW q \in Orders, q # o, EachOnce(q)'
        PROVE  refunded'[q] = Total(Compensated(q))'
    <3>1. EachOnce(q)
      BY <1>6, <2>1 DEF EachOnce
    <3>2. Total(Compensated(q))' = Total(Compensated(q)')
      OBVIOUS
    <3> QED
      BY <1>7, <1>11, <2>1, <3>1, <3>2 DEF RefundInv, RefundsAreDue
  <2>2. ASSUME EachOnce(o)'
        PROVE  refunded'[o] = Total(Compensated(o))'
    <3>1. EachOnce(o)
      BY <1>6, <2>2 DEF EachOnce
    <3>2. Total(Compensated(o))' = Total(Compensated(o) \cup items)
      BY <1>12
    <3>3. /\ Compensated(o) \in SUBSET ItemsOf[o]
          /\ Compensated(o) \cup items \in SUBSET ItemsOf[o]
      BY <1>4, CompensatedItems
    <3>4. Total(Compensated(o) \cup items) = Total(Compensated(o)) + Total(items)
      BY <1>4, <1>13, <3>1, <3>3, OrderAmounts, SumDisjoint
    <3> QED
      BY <1>7, <3>1, <3>2, <3>4 DEF RefundInv, RefundsAreDue
  <2> QED
    BY <2>1, <2>2 DEF RefundsAreDue
<1> QED
  BY <1>8, <1>10, <1>14 DEF RefundInv

LEMMA NextRefund ==
    ASSUME GroupsApart, RefundInv, [Next]_vars
    PROVE  RefundInv'
<1>1. ASSUME NEW h \in Handlers, NEW f \in Failures, Deliver(h, f)
      PROVE  RefundInv'
  BY <1>1, DeliverRefund
<1>2. ASSUME NEW h \in Handlers, CompensateOrder(h) \/ HandlerFails(h)
      PROVE  RefundInv'
  <2>1. CASE VerifyItemsUncompensated(h)
    BY <2>1, VerifyRefund
  <2>2. CASE InsertOrderCompensation(h)
    BY <2>2, InsertRefund
  <2>3. CASE PublishOrderCompensationCreated(h) \/ HandlerFails(h)
    BY <2>3, EndHandlerRefund DEF PublishOrderCompensationCreated, HandlerFails
  <2> QED
    BY <1>2, <2>1, <2>2, <2>3 DEF CompensateOrder
<1>3. CASE UNCHANGED compensating
  BY <1>3, RefundKept DEF compensating, RefundInv, RefundTypeOK, BusyHasEvent,
     Compensating
<1> QED
  BY <1>1, <1>2, <1>3 DEF Next, vars, compensating, CreateOrder, Expire, PlaceOrder,
     Serve, SetStatusPlaced, WritePlaced, WriteRejected, Reread,
     PublishOrderCreated, RequestFails

(* While no creation-failed event is delivered twice, and the events name   *)
(* different items of the order, the compensations stored for an order      *)
(* never exceed what it cost: for any amounts, events, handlers and         *)
(* failing calls, and for any number of placeOrder mutations.               *)
THEOREM RefundsWithinOrder ==
    ASSUME GroupsApart
    PROVE  Spec => []RefundedWithinOrder
<1>1. RefundInv => RefundedWithinOrder
  <2>1. SUFFICES ASSUME RefundInv, NEW o \in Orders, EachOnce(o)
                 PROVE  refunded[o] <= Total(ItemsOf[o])
    BY DEF RefundedWithinOrder, EachOnce
  <2>2. refunded[o] = Total(Compensated(o))
    BY <2>1 DEF RefundInv, RefundsAreDue
  <2>3. Total(Compensated(o)) <= Total(ItemsOf[o])
    BY CompensatedItems, OrderAmounts, SumMonotone
  <2> QED
    BY <2>2, <2>3
<1>2. RefundInv /\ [Next]_vars => RefundInv'
  BY NextRefund
<1> QED
  BY <1>1, <1>2, InitRefund, PTL DEF Spec
=============================================================================
