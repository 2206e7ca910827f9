--------------------------- MODULE DiscountProofs ---------------------------
(***************************************************************************)
(* For any number of users, discounts, orders, handlers, updates,          *)
(* redemptions, repeated deliveries and failing calls of the discount      *)
(* service: the state keeps its type; no user has more usages of a         *)
(* discount than some limit the discount has had; the event of an update   *)
(* carries all targets; a coupon is not counted as used without a          *)
(* redemption; and the usages account for the validations announced.       *)
(***************************************************************************)
EXTENDS Discount, Sums

(* What the loops of validateOrderInternal compute: a fold over the         *)
(* positions of the mentions, the last one outermost.                       *)
Meet(seen, d) == IF d \in ToSet(seen) THEN seen ELSE Append(seen, d)
MetStep(q, f, T) ==
    IF T = {} THEN <<>> ELSE Meet(f[T \ {Max(T)}], q[Max(T)].discount)
IsMet(q, f) == f = [T \in SUBSET DOMAIN q |-> MetStep(q, f, T)]

LEMMA MetUnfold ==
    ASSUME NEW o \in Orders
    PROVE  DiscountOrder[o] = (CHOOSE f : IsMet(Mentions[o], f))[DOMAIN Mentions[o]]
BY DEF DiscountOrder, FoldLeft, MapThenFoldSet, IsMet, MetStep, Meet

(* A set of positions has a last one.                                       *)
LEMMA LastIn ==
    ASSUME NEW n \in Nat, NEW T \in SUBSET (1 .. n), T # {}
    PROVE  Max(T) \in T
<1> DEFINE G == {U \in SUBSET (1 .. n) : U = {} \/ \E x \in U : \A y \in U : x >= y}
<1>1. {} \in G
  OBVIOUS
<1>2. ASSUME NEW U \in SUBSET (1 .. n), U # {}, \A x \in U : U \ {x} \in G
      PROVE  U \in G
  <2>1. PICK x \in U : TRUE
    BY <1>2
  <2>2. CASE U \ {x} = {}
    <3>1. \A y \in U : x >= y
      BY <2>2
    <3> QED
      BY <3>1
  <2>3. CASE U \ {x} # {}
    <3>1. PICK z \in U \ {x} : \A y \in U \ {x} : z >= y
      BY <1>2, <2>3
    <3>2. CASE z >= x
      BY <3>1, <3>2
    <3>3. CASE x >= z
      BY <3>1, <3>3
    <3> QED
      BY <3>2, <3>3
  <2> QED
    BY <2>2, <2>3
<1> HIDE DEF G
<1>3. G \in SUBSET SUBSET (1 .. n)
  BY DEF G
<1>4. IsFiniteSet(1 .. n)
  BY FS_Interval
<1>5. T \in G
  BY <1>1, <1>2, <1>3, <1>4, FiniteInduction
<1> QED
  BY <1>5 DEF G, Max

LEMMA Positions ==
    ASSUME NEW q \in Seq(Mention)
    PROVE  /\ IsFiniteSet(DOMAIN q)
           /\ \A T \in SUBSET DOMAIN q : T # {} => Max(T) \in T
           /\ \A k \in DOMAIN q : q[k].discount \in Discounts /\ q[k].count \in Int
<1>1. DOMAIN q = 1 .. Len(q) /\ Len(q) \in Nat
  OBVIOUS
<1>2. IsFiniteSet(1 .. Len(q))
  BY <1>1, FS_Interval
<1>3. \A T \in SUBSET (1 .. Len(q)) : T # {} => Max(T) \in T
  BY <1>1, LastIn
<1>4. \A k \in 1 .. Len(q) : q[k] \in Mention
  OBVIOUS
<1>5. \A k \in 1 .. Len(q) : q[k].discount \in Discounts /\ q[k].count \in Int
  BY <1>4 DEF Mention
<1> QED
  BY <1>1, <1>2, <1>3, <1>5

LEMMA MeetSeq ==
    ASSUME NEW D, NEW s \in Seq(D), NEW d \in D
    PROVE  Meet(s, d) \in Seq(D) /\ ToSet(Meet(s, d)) = ToSet(s) \cup {d}
<1>1. CASE d \in ToSet(s)
  BY <1>1 DEF Meet
<1>2. CASE d \notin ToSet(s)
  <2>1. Meet(s, d) = Append(s, d)
    BY <1>2 DEF Meet
  <2>2. ToSet(Append(s, d)) = ToSet(s) \cup {d}
    <3>1. ToSet(s) = {s[i] : i \in 1 .. Len(s)}
      BY DEF ToSet
    <3>2. ToSet(Append(s, d)) = {Append(s, d)[i] : i \in 1 .. Len(s) + 1}
      BY DEF ToSet
    <3>3. \A i \in 1 .. Len(s) : Append(s, d)[i] = s[i]
      OBVIOUS
    <3>4. Append(s, d)[Len(s) + 1] = d
      OBVIOUS
    <3>5. 1 .. Len(s) + 1 = (1 .. Len(s)) \cup {Len(s) + 1}
      OBVIOUS
    <3> HIDE <3>5
    <3> QED
      BY <3>1, <3>2, <3>3, <3>4, <3>5
  <2> QED
    BY <2>1, <2>2
<1> QED
  BY <1>1, <1>2

(* There is such a fold, and what it returns is a sequence of the discounts *)
(* that are named.                                                          *)
LEMMA MetExists ==
    ASSUME NEW q \in Seq(Mention)
    PROVE  \E f \in [SUBSET DOMAIN q -> Seq(Discounts)] : IsMet(q, f)
<1> DEFINE S == DOMAIN q
           pick == [T \in SUBSET S |-> Max(T)]
           step == [p \in S \X Seq(Discounts) |-> Meet(p[2], q[p[1]].discount)]
<1>1. IsFiniteSet(S)
  BY Positions
<1>2. Picks(S, pick)
  BY Positions DEF Picks
<1>3. \A i \in S : q[i].discount \in Discounts
  BY Positions
<1>4. \A i \in S, x \in Seq(Discounts) : step[<<i, x>>] \in Seq(Discounts)
  BY <1>3, MeetSeq
<1>5. <<>> \in Seq(Discounts)
  OBVIOUS
<1>6. PICK f \in [SUBSET S -> Seq(Discounts)] : Folding(S, pick, step, <<>>, f)
  <2> HIDE DEF S, pick, step
  <2> QED
    BY <1>1, <1>2, <1>4, <1>5, FoldExists
<1>7. ASSUME NEW T \in SUBSET S PROVE f[T] = MetStep(q, f, T)
  <2>1. f[T] = FoldStep(pick, step, <<>>, f, T)
    BY <1>6 DEF Folding
  <2>2. pick[T] = Max(T)
    OBVIOUS
  <2>3. CASE T # {}
    <3>1. PICK c \in T : c = Max(T)
      BY <2>3, Positions
    <3>2. T \ {c} \in SUBSET S /\ f[T \ {c}] \in Seq(Discounts) /\ c \in S
      OBVIOUS
    <3>3. step[<<c, f[T \ {c}]>>] = Meet(f[T \ {c}], q[c].discount)
      BY <3>2
    <3> HIDE DEF pick, step
    <3> QED
      BY <2>1, <2>2, <2>3, <3>1, <3>3 DEF MetStep, FoldStep
  <2> QED
    BY <2>1, <2>3 DEF MetStep, FoldStep
<1>8. f = [T \in SUBSET S |-> MetStep(q, f, T)]
  BY <1>6, <1>7
<1> QED
  BY <1>6, <1>8 DEF IsMet

LEMMA MetUnique ==
    ASSUME NEW q \in Seq(Mention), NEW f, NEW g, IsMet(q, f), IsMet(q, g)
    PROVE  f = g
<1> DEFINE S == DOMAIN q
           G == {T \in SUBSET S : f[T] = g[T]}
<1>0. IsFiniteSet(S)
  BY Positions
<1>1. \A T \in SUBSET S : f[T] = MetStep(q, f, T) /\ g[T] = MetStep(q, g, T)
  BY DEF IsMet
<1>2. {} \in G
  BY <1>1 DEF MetStep
<1>3. ASSUME NEW T \in SUBSET S, T # {}, \A x \in T : T \ {x} \in G
      PROVE  T \in G
  BY <1>1, <1>3, Positions DEF MetStep
<1> HIDE DEF G
<1>4. G \in SUBSET SUBSET S
  BY DEF G
<1>5. \A T \in SUBSET S : T \in G
  BY <1>0, <1>2, <1>3, <1>4, FiniteInduction
<1> QED
  BY <1>5 DEF G, IsMet

LEMMA MetNames ==
    ASSUME NEW q \in Seq(Mention), NEW f \in [SUBSET DOMAIN q -> Seq(Discounts)],
           IsMet(q, f), NEW T \in SUBSET DOMAIN q
    PROVE  ToSet(f[T]) = {q[k].discount : k \in T}
<1> DEFINE S == DOMAIN q
           G == {U \in SUBSET S : ToSet(f[U]) = {q[k].discount : k \in U}}
<1>0. IsFiniteSet(S)
  BY Positions
<1>1. \A U \in SUBSET S : f[U] = MetStep(q, f, U)
  BY DEF IsMet
<1>2. {} \in G
  <2>1. f[{}] = <<>>
    BY <1>1 DEF MetStep
  <2>2. ToSet(<<>>) = {}
    BY DEF ToSet
  <2> QED
    BY <2>1, <2>2
<1>3. ASSUME NEW U \in SUBSET S, U # {}, \A x \in U : U \ {x} \in G
      PROVE  U \in G
  <2>1. PICK c \in U : c = Max(U)
    BY <1>3, Positions
  <2>2. f[U] = Meet(f[U \ {c}], q[c].discount)
    BY <1>1, <1>3, <2>1 DEF MetStep
  <2>3. f[U \ {c}] \in Seq(Discounts) /\ q[c].discount \in Discounts
    BY Positions
  <2>4. ToSet(f[U]) = ToSet(f[U \ {c}]) \cup {q[c].discount}
    <3>1. PICK s \in Seq(Discounts), d \in Discounts :
             s = f[U \ {c}] /\ d = q[c].discount
      BY <2>3
    <3>2. ToSet(Meet(s, d)) = ToSet(s) \cup {d}
      BY MeetSeq
    <3> QED
      BY <2>2, <3>1, <3>2, Zenon
  <2>5. ToSet(f[U \ {c}]) = {q[k].discount : k \in U \ {c}}
    BY <1>3
  <2> QED
    BY <2>4, <2>5
<1> HIDE DEF G
<1>4. G \in SUBSET SUBSET S
  BY DEF G
<1>5. \A U \in SUBSET S : U \in G
  BY <1>0, <1>2, <1>3, <1>4, FiniteInduction
<1> QED
  BY <1>5 DEF G

(* discountOrder lists the discounts the order names ...                    *)
LEMMA OrderNames ==
    ASSUME NEW o \in Orders
    PROVE  /\ DiscountOrder[o] \in Seq(Discounts)
           /\ ToSet(DiscountOrder[o])
                = {Mentions[o][k].discount : k \in DOMAIN Mentions[o]}
<1>1. Mentions[o] \in Seq(Mention)
  BY DiscountAssumption
<1>2. PICK f \in [SUBSET DOMAIN Mentions[o] -> Seq(Discounts)] : IsMet(Mentions[o], f)
  BY <1>1, MetExists
<1>3. (CHOOSE g : IsMet(Mentions[o], g)) = f
  BY <1>1, <1>2, MetUnique
<1>4. DiscountOrder[o] = f[DOMAIN Mentions[o]]
  BY <1>3, MetUnfold
<1> QED
  BY <1>1, <1>2, <1>4, MetNames

(* ... and totalByDiscount is a number for each, 0 for one it does not name.*)
LEMMA TotalIsSum ==
    ASSUME NEW o \in Orders, NEW d \in Discounts
    PROVE  /\ TotalByDiscount[o][d] = SumOf(Asked(o, d), DOMAIN Mentions[o])
           /\ Amounts(Asked(o, d), DOMAIN Mentions[o])
<1>1. Mentions[o] \in Seq(Mention)
  BY DiscountAssumption
<1>2. Amounts(Asked(o, d), DOMAIN Mentions[o])
  <2>1. IsFiniteSet(DOMAIN Mentions[o])
    BY <1>1, Positions
  <2>2. \A k \in DOMAIN Mentions[o] : Mentions[o][k].count \in Int
    BY <1>1, Positions
  <2> QED
    BY <2>1, <2>2 DEF Amounts, Asked
<1>3. DOMAIN Asked(o, d) = DOMAIN Mentions[o]
  BY DEF Asked
<1> QED
  BY <1>2, <1>3 DEF TotalByDiscount, SumFunction, SumOf

LEMMA Grouping ==
    /\ TotalByDiscount \in [Orders -> [Discounts -> Int]]
    /\ DiscountOrder \in [Orders -> Seq(Discounts)]
<1>1. \A o \in Orders, d \in Discounts : TotalByDiscount[o][d] \in Int
  BY TotalIsSum, SumRec
<1>2. TotalByDiscount \in [Orders -> [Discounts -> Int]]
  BY <1>1 DEF TotalByDiscount
<1>3. DiscountOrder \in [Orders -> Seq(Discounts)]
  BY OrderNames DEF DiscountOrder
<1> QED
  BY <1>2, <1>3

LEMMA UnnamedIsZero ==
    ASSUME NEW o \in Orders, NEW d \in Discounts, d \notin ToSet(DiscountOrder[o])
    PROVE  TotalByDiscount[o][d] = 0
<1>1. \A k \in DOMAIN Mentions[o] : Asked(o, d)[k] = 0
  BY OrderNames DEF Asked
<1> QED
  BY <1>1, TotalIsSum, SumZero DEF Amounts

-----------------------------------------------------------------------------
(* A handler at work has an order that was reserved, and a position in its  *)
(* list of discounts.                                                       *)
JobsHaveOrders ==
    \A h \in Handlers :
        job[h].pc # "idle" =>
            /\ job[h].order \in reserved
            /\ job[h].next \in 1 .. Len(DiscountOrder[job[h].order]) + 1

(* What waits for delivery was reserved, and names discounts that exist.    *)
InboxIsReserved == inbox \subseteq reserved
OrdersNameDiscounts ==
    \A o \in reserved : \A i \in 1 .. Len(DiscountOrder[o]) :
        DiscountOrder[o][i] \in discounts

(* Updates and redemptions are of rows that exist.                          *)
EditsNameRows ==
    \A e \in Editors :
        /\ edit[e].pc \in {"refs", "save", "reread", "commit"} =>
              edit[e].id \in discounts
        /\ edit[e].pc = "coupon" => edit[e].id \in coupons
RegsNameRows ==
    \A s \in Shoppers :
        reg[s].pc # "idle" => reg[s].coupon \in coupons /\ reg[s].user \in Users

(* The limit in force is one the discount has had.                          *)
LimitIsKnown == \A d \in discounts : limit[d] \in limits[d]

TypeInv ==
    /\ TypeOK
    /\ JobsHaveOrders
    /\ InboxIsReserved
    /\ OrdersNameDiscounts
    /\ EditsNameRows
    /\ RegsNameRows
    /\ LimitIsKnown

-----------------------------------------------------------------------------
LEMMA TypeInit == Init => TypeInv
BY DiscountAssumption, Grouping
   DEF Init, TypeInv, TypeOK, JobsHaveOrders, InboxIsReserved, OrdersNameDiscounts,
   EditsNameRows, RegsNameRows, LimitIsKnown, Job, IdleJob, Edit, IdleEdit, Reg, IdleReg, Limit

LEMMA TypeStutter == TypeInv /\ UNCHANGED vars => TypeInv'
BY DEF vars, TypeInv, TypeOK, JobsHaveOrders, InboxIsReserved, OrdersNameDiscounts,
   EditsNameRows, RegsNameRows, LimitIsKnown, replicas, discountTable, couponTable, messages, bounds

LEMMA RegisterUserType ==
    ASSUME TypeInv, NEW u \in Users, RegisterUser(u)
    PROVE  TypeInv'
BY DiscountAssumption, Grouping
   DEF RegisterUser, TypeInv, TypeOK, JobsHaveOrders, InboxIsReserved, OrdersNameDiscounts,
   EditsNameRows, RegsNameRows, LimitIsKnown,
   replicas, discountTable, couponTable, messages, bounds

LEMMA RegisterTargetType ==
    ASSUME TypeInv, NEW t \in Targets, RegisterTarget(t)
    PROVE  TypeInv'
BY DiscountAssumption, Grouping
   DEF RegisterTarget, TypeInv, TypeOK, JobsHaveOrders, InboxIsReserved, OrdersNameDiscounts,
   EditsNameRows, RegsNameRows, LimitIsKnown,
   replicas, discountTable, couponTable, messages, bounds

LEMMA CreateDiscountType ==
    ASSUME TypeInv, NEW d \in Discounts, NEW l \in Limits, NEW ts \in SUBSET Targets,
           CreateDiscount(d, l, ts)
    PROVE  TypeInv'
BY DiscountAssumption, Grouping
   DEF CreateDiscount, Limit, TypeInv, TypeOK, JobsHaveOrders, InboxIsReserved, OrdersNameDiscounts,
   EditsNameRows, RegsNameRows, LimitIsKnown,
   replicas, discountTable, couponTable, messages, bounds

LEMMA CreateCouponType ==
    ASSUME TypeInv, NEW c \in Coupons, NEW d \in Discounts, NEW m \in Limits,
           CreateCoupon(c, d, m)
    PROVE  TypeInv'
BY DiscountAssumption, Grouping
   DEF CreateCoupon, Limit, TypeInv, TypeOK, JobsHaveOrders, InboxIsReserved, OrdersNameDiscounts,
   EditsNameRows, RegsNameRows, LimitIsKnown,
   replicas, discountTable, couponTable, messages, bounds

LEMMA ReservedType ==
    ASSUME TypeInv, NEW o \in Orders, Reserved(o)
    PROVE  TypeInv'
<1>1. DiscountOrder[o] \in Seq(Discounts)
  BY Grouping
<1>2. \A i \in 1 .. Len(DiscountOrder[o]) : DiscountOrder[o][i] \in discounts
  BY <1>1 DEF Reserved, ToSet
<1>3. OrdersNameDiscounts'
  BY <1>2 DEF Reserved, TypeInv, OrdersNameDiscounts, discountTable
<1>4. QED
  BY <1>3 DEF Reserved, TypeInv, TypeOK, JobsHaveOrders, InboxIsReserved, OrdersNameDiscounts,
   EditsNameRows, RegsNameRows, LimitIsKnown,
   replicas, discountTable, couponTable, messages, bounds

(* An update moves on, to a record of the right type that names its row.    *)
LEMMA EditFrame ==
    ASSUME TypeInv, NEW e \in Editors, NEW r \in Edit, EditTo(e, r), EditStep,
           UNCHANGED discountTable, couponMax' \in [Coupons -> Limit],
           updates' \in Nat, faults' \in Nat,
           r.pc \in {"refs", "save", "reread", "commit"} => r.id \in discounts,
           r.pc = "coupon" => r.id \in coupons
    PROVE  TypeInv'
BY DEF EditTo, EditStep, TypeInv, TypeOK, JobsHaveOrders, InboxIsReserved, OrdersNameDiscounts,
   EditsNameRows, RegsNameRows, LimitIsKnown,
   replicas, discountTable, couponTable, messages, bounds

LEMMA UpdateDiscountType ==
    ASSUME TypeInv, NEW e \in Editors, NEW d \in Discounts,
           NEW l \in Limits \cup {Null, Keep}, NEW add \in SUBSET Targets,
           NEW remove \in SUBSET Targets, UpdateDiscount(e, d, l, add, remove)
    PROVE  TypeInv'
<1>1. PICK r : r = [IdleEdit EXCEPT !.pc = "refs", !.id = d, !.add = add,
                       !.remove = remove, !.limit = Patched(l, limit[d])]
  OBVIOUS
<1>2. Patched(l, limit[d]) \in Limit
  BY DiscountAssumption DEF Patched, Limit, TypeInv, TypeOK
<1>3. r \in Edit /\ r.pc = "refs" /\ r.id = d
  BY <1>1, <1>2 DEF Edit, IdleEdit
<1>4. EditTo(e, r) /\ EditStep /\ d \in discounts /\ UNCHANGED discountTable
  BY <1>1 DEF UpdateDiscount
<1>5. couponMax' \in [Coupons -> Limit] /\ updates' \in Nat /\ faults' \in Nat
  BY DEF UpdateDiscount, NoFault, TypeInv, TypeOK
<1>6. QED
  BY <1>3, <1>4, <1>5, EditFrame

LEMMA UpdateCouponType ==
    ASSUME TypeInv, NEW e \in Editors, NEW c \in Coupons,
           NEW m \in Limits \cup {Null, Keep}, UpdateCoupon(e, c, m)
    PROVE  TypeInv'
<1>1. PICK r : r = [IdleEdit EXCEPT !.pc = "coupon", !.id = c,
                       !.limit = Patched(m, couponMax[c])]
  OBVIOUS
<1>2. Patched(m, couponMax[c]) \in Limit
  BY DiscountAssumption DEF Patched, Limit, TypeInv, TypeOK
<1>3. r \in Edit /\ r.pc = "coupon" /\ r.id = c
  BY <1>1, <1>2 DEF Edit, IdleEdit
<1>4. EditTo(e, r) /\ EditStep /\ c \in coupons /\ UNCHANGED discountTable
  BY <1>1 DEF UpdateCoupon
<1>5. couponMax' \in [Coupons -> Limit] /\ updates' \in Nat /\ faults' \in Nat
  BY DEF UpdateCoupon, NoFault, TypeInv, TypeOK
<1>6. QED
  BY <1>3, <1>4, <1>5, EditFrame

LEMMA IdleEditType == IdleEdit \in Edit /\ IdleEdit.pc = "idle"
BY DEF IdleEdit, Edit, Limit

LEMMA UpdateReferencesType ==
    ASSUME TypeInv, NEW e \in Editors, UpdateReferences(e)
    PROVE  TypeInv'
<1>1. edit[e] \in Edit /\ edit[e].id \in discounts
  BY DEF UpdateReferences, TypeInv, TypeOK, EditsNameRows
<1>2. EditStep /\ UNCHANGED discountTable
  BY DEF UpdateReferences
<1>3. couponMax' \in [Coupons -> Limit] /\ updates' \in Nat /\ faults' \in Nat
  BY DEF UpdateReferences, NoFault, TypeInv, TypeOK
<1>4. CASE EditEnds(e)
  BY <1>2, <1>3, <1>4, IdleEditType, EditFrame DEF EditEnds
<1>5. CASE ~ EditEnds(e)
  <2>1. PICK r : r = [edit[e] EXCEPT !.pc = "save",
                        !.remove = @ \cap (applies[edit[e].id] \cup edit[e].add)]
    OBVIOUS
  <2>2. r \in Edit /\ r.pc = "save" /\ r.id = edit[e].id
    BY <1>1, <2>1 DEF Edit
  <2>3. EditTo(e, r)
    BY <1>5, <2>1 DEF UpdateReferences
  <2>4. QED
    BY <1>1, <1>2, <1>3, <2>2, <2>3, EditFrame
<1>6. QED
  BY <1>4, <1>5

LEMMA SaveDiscountType ==
    ASSUME TypeInv, NEW e \in Editors, SaveDiscount(e)
    PROVE  TypeInv'
<1>1. edit[e] \in Edit /\ edit[e].id \in discounts
  BY DEF SaveDiscount, TypeInv, TypeOK, EditsNameRows
<1>2. PICK r : r = [edit[e] EXCEPT !.pc = "reread"]
  OBVIOUS
<1>3. r \in Edit /\ r.pc = "reread" /\ r.id = edit[e].id
  BY <1>1, <1>2 DEF Edit
<1>4. EditTo(e, r) /\ EditStep /\ UNCHANGED discountTable
  BY <1>2 DEF SaveDiscount
<1>5. couponMax' \in [Coupons -> Limit] /\ updates' \in Nat /\ faults' \in Nat
  BY DEF SaveDiscount, NoFault, TypeInv, TypeOK
<1>6. QED
  BY <1>1, <1>3, <1>4, <1>5, EditFrame

LEMMA ReadAppliesToType ==
    ASSUME TypeInv, NEW e \in Editors, ReadAppliesTo(e)
    PROVE  TypeInv'
<1>1. edit[e] \in Edit /\ edit[e].id \in discounts
  BY DEF ReadAppliesTo, TypeInv, TypeOK, EditsNameRows
<1>2. AppliesAfter(e) \in SUBSET Targets
  BY <1>1 DEF AppliesAfter, TypeInv, TypeOK, Edit
<1>3. PICK r : r = [edit[e] EXCEPT !.pc = "commit", !.payload = AppliesAfter(e)]
  OBVIOUS
<1>4. r \in Edit /\ r.pc = "commit" /\ r.id = edit[e].id
  BY <1>1, <1>2, <1>3 DEF Edit
<1>5. EditTo(e, r) /\ EditStep /\ UNCHANGED discountTable
  BY <1>3 DEF ReadAppliesTo
<1>6. couponMax' \in [Coupons -> Limit] /\ updates' \in Nat /\ faults' \in Nat
  BY DEF ReadAppliesTo, NoFault, TypeInv, TypeOK
<1>7. QED
  BY <1>1, <1>4, <1>5, <1>6, EditFrame

LEMMA CommitUpdateType ==
    ASSUME TypeInv, NEW e \in Editors, CommitUpdate(e)
    PROVE  TypeInv'
<1>1. edit[e] \in Edit /\ edit[e].id \in discounts /\ edit[e].limit \in Limit
  BY DEF CommitUpdate, TypeInv, TypeOK, EditsNameRows, Edit
<1>2. PICK r : r = [edit[e] EXCEPT !.pc = "announce"]
  OBVIOUS
<1>3. r \in Edit /\ r.pc = "announce"
  BY <1>1, <1>2 DEF Edit
<1>4. edit' = [edit EXCEPT ![e] = r]
  BY <1>2 DEF CommitUpdate, EditTo
<1>5. AppliesAfter(e) \in SUBSET Targets
  BY <1>1 DEF AppliesAfter, TypeInv, TypeOK, Edit
<1>6. /\ applies' \in [Discounts -> SUBSET Targets]
      /\ limit' \in [Discounts -> Limit]
      /\ limits' \in [Discounts -> SUBSET Limit]
      /\ LimitIsKnown'
  BY <1>1, <1>5 DEF CommitUpdate, TypeInv, TypeOK, LimitIsKnown
<1>7. edit' \in [Editors -> Edit] /\ EditsNameRows'
  BY <1>3, <1>4 DEF CommitUpdate, EditStep, TypeInv, TypeOK, EditsNameRows
<1>8. QED
  BY <1>6, <1>7 DEF CommitUpdate, EditStep, NoFault, TypeInv, TypeOK, JobsHaveOrders, InboxIsReserved, OrdersNameDiscounts,
   EditsNameRows, RegsNameRows, LimitIsKnown,
   replicas, discountTable, couponTable, messages, bounds

LEMMA PublishUpdatedType ==
    ASSUME TypeInv, NEW e \in Editors, PublishUpdated(e)
    PROVE  TypeInv'
<1>1. EditTo(e, IdleEdit) /\ EditStep /\ UNCHANGED discountTable
  BY DEF PublishUpdated, EditEnds
<1>2. couponMax' \in [Coupons -> Limit] /\ updates' \in Nat /\ faults' \in Nat
  BY DEF PublishUpdated, Fault, NoFault, TypeInv, TypeOK
<1>3. QED
  BY <1>1, <1>2, IdleEditType, EditFrame

LEMMA EditFailsType ==
    ASSUME TypeInv, NEW e \in Editors, EditFails(e)
    PROVE  TypeInv'
<1>1. EditTo(e, IdleEdit) /\ EditStep /\ UNCHANGED discountTable
  BY DEF EditFails, EditEnds
<1>2. couponMax' \in [Coupons -> Limit] /\ updates' \in Nat /\ faults' \in Nat
  BY DEF EditFails, Fault, NoFault, TypeInv, TypeOK
<1>3. QED
  BY <1>1, <1>2, IdleEditType, EditFrame

LEMMA SaveCouponType ==
    ASSUME TypeInv, NEW e \in Editors, SaveCoupon(e)
    PROVE  TypeInv'
<1>1. EditTo(e, IdleEdit) /\ EditStep /\ UNCHANGED discountTable
  BY DEF SaveCoupon, EditEnds
<1>2. edit[e].limit \in Limit
  BY DEF TypeInv, TypeOK, Edit
<1>3. couponMax' \in [Coupons -> Limit] /\ updates' \in Nat /\ faults' \in Nat
  BY <1>2 DEF SaveCoupon, NoFault, TypeInv, TypeOK
<1>4. QED
  BY <1>1, <1>3, IdleEditType, EditFrame

-----------------------------------------------------------------------------
(* A redemption moves on.                                                   *)
LEMMA RegFrame ==
    ASSUME TypeInv, NEW s \in Shoppers, NEW r \in Reg, RegTo(s, r), RegStep,
           couponUsages' \in [Coupons -> Int], redeemed' \subseteq Coupons \X Users,
           faults' \in Nat,
           r.pc # "idle" => r.coupon \in coupons /\ r.user \in Users
    PROVE  TypeInv'
BY DEF RegTo, RegStep, TypeInv, TypeOK, JobsHaveOrders, InboxIsReserved, OrdersNameDiscounts,
   EditsNameRows, RegsNameRows, LimitIsKnown,
   replicas, discountTable, couponTable, messages, bounds

LEMMA IdleRegType == IdleReg \in Reg /\ IdleReg.pc = "idle"
BY DEF IdleReg, Reg

LEMMA RegisterCouponType ==
    ASSUME TypeInv, NEW s \in Shoppers, NEW c \in Coupons, NEW u \in Users,
           RegisterCoupon(s, c, u)
    PROVE  TypeInv'
<1>1. PICK r : r = [pc |-> "select", coupon |-> c, user |-> u, count |-> 0]
  OBVIOUS
<1>2. r \in Reg /\ r.coupon = c /\ r.user = u
  BY <1>1 DEF Reg
<1>3. RegTo(s, r) /\ RegStep /\ c \in coupons
  BY <1>1 DEF RegisterCoupon
<1>4. /\ couponUsages' \in [Coupons -> Int]
      /\ redeemed' \subseteq Coupons \X Users
      /\ faults' \in Nat
  BY DEF RegisterCoupon, NoFault, TypeInv, TypeOK
<1>5. QED
  BY <1>2, <1>3, <1>4, RegFrame

LEMMA RegMovesType ==
    ASSUME TypeInv, NEW s \in Shoppers, TriggerSelect(s) \/ TriggerUpdate(s)
    PROVE  TypeInv'
<1>1. /\ reg[s] \in Reg
      /\ reg[s].coupon \in coupons
      /\ reg[s].user \in Users
  BY DEF TriggerSelect, TriggerUpdate, TypeInv, TypeOK, RegsNameRows
<1>2. couponUsages[reg[s].coupon] + 1 \in Int
  BY <1>1 DEF TypeInv, TypeOK
<1>3. PICK p, q : /\ p = [reg[s] EXCEPT !.pc = "update",
                            !.count = couponUsages[reg[s].coupon] + 1]
                  /\ q = [reg[s] EXCEPT !.pc = "commit"]
  OBVIOUS
<1>4. /\ p \in Reg /\ p.coupon = reg[s].coupon /\ p.user = reg[s].user
      /\ q \in Reg /\ q.coupon = reg[s].coupon /\ q.user = reg[s].user
  BY <1>1, <1>2, <1>3 DEF Reg
<1>5. RegTo(s, IdleReg) \/ RegTo(s, p) \/ RegTo(s, q)
  BY <1>3 DEF TriggerSelect, TriggerUpdate
<1>6. /\ RegStep
      /\ couponUsages' \in [Coupons -> Int]
      /\ redeemed' \subseteq Coupons \X Users
      /\ faults' \in Nat
  BY DEF TriggerSelect, TriggerUpdate, NoFault, TypeInv, TypeOK
<1>7. QED
  BY <1>1, <1>4, <1>5, <1>6, IdleRegType, RegFrame

LEMMA RegEndsType ==
    ASSUME TypeInv, NEW s \in Shoppers, CommitRedemption(s) \/ RedemptionFails(s)
    PROVE  TypeInv'
<1>1. /\ reg[s] \in Reg
      /\ reg[s].coupon \in Coupons
      /\ reg[s].user \in Users
      /\ reg[s].count \in Int
  BY DEF CommitRedemption, RedemptionFails, TypeInv, TypeOK, RegsNameRows, Reg
<1>2. /\ RegTo(s, IdleReg)
      /\ RegStep
      /\ couponUsages' \in [Coupons -> Int]
      /\ redeemed' \subseteq Coupons \X Users
      /\ faults' \in Nat
  BY <1>1 DEF CommitRedemption, RedemptionFails, NoFault, Fault, TypeInv, TypeOK
<1>3. QED
  BY <1>2, IdleRegType, RegFrame

-----------------------------------------------------------------------------
(* A handler moves on.                                                      *)
LEMMA JobFrame ==
    ASSUME TypeInv, NEW h \in Handlers, NEW j \in Job, JobTo(h, j), JobStep,
           usages' \in [Discounts -> [Users -> Int]],
           inbox' \subseteq reserved, failed' \subseteq Orders,
           succeeded' \in [Orders -> Nat], repeats' \in Nat, faults' \in Nat,
           j.pc # "idle" => /\ j.order \in reserved
                            /\ j.next \in 1 .. Len(DiscountOrder[j.order]) + 1
    PROVE  TypeInv'
BY DEF JobTo, JobStep, TypeInv, TypeOK, JobsHaveOrders, InboxIsReserved, OrdersNameDiscounts,
   EditsNameRows, RegsNameRows, LimitIsKnown,
   replicas, discountTable, couponTable, messages, bounds

LEMMA IdleJobType == IdleJob \in Job /\ IdleJob.pc = "idle" /\ IdleJob.next = 1
BY DEF IdleJob, Job, Limit

LEMMA HandleReservationSucceededType ==
    ASSUME TypeInv, NEW h \in Handlers, NEW o \in Orders,
           HandleReservationSucceeded(h, o)
    PROVE  TypeInv'
<1>1. PICK j : j = [IdleJob EXCEPT !.pc = "discounts", !.order = o]
  OBVIOUS
<1>2. j \in Job /\ j.order = o /\ j.next = 1
  BY <1>1 DEF IdleJob, Job, Limit
<1>3. o \in reserved /\ inbox' \subseteq reserved
  BY DEF HandleReservationSucceeded, TypeInv, InboxIsReserved
<1>4. 1 \in 1 .. Len(DiscountOrder[o]) + 1
  BY Grouping
<1>5. JobTo(h, j) /\ JobStep
  BY <1>1 DEF HandleReservationSucceeded
<1>6. /\ usages' \in [Discounts -> [Users -> Int]]
      /\ failed' \subseteq Orders
      /\ succeeded' \in [Orders -> Nat]
      /\ repeats' \in Nat
      /\ faults' \in Nat
  BY DEF HandleReservationSucceeded, NoFault, TypeInv, TypeOK
<1>7. QED
  BY <1>2, <1>3, <1>4, <1>5, <1>6, JobFrame

(* The moves of a handler that has its order.                               *)
JobMoves(h) ==
    \/ DiscountsByIDs(h) \/ RemainingUsages(h) \/ UpsertDiscountUsage(h)
    \/ DeadlockDetected(h) \/ PublishValidationSucceeded(h) \/ CallFails(h)
    \/ PublishFailsLate(h)

(* Such a move leaves the usages, keeps the order, and goes one row further *)
(* at most, as long as there is a row.                                      *)
LEMMA JobMovesOn ==
    ASSUME TypeInv, NEW h \in Handlers, JobMoves(h)
    PROVE  \E j \in Job :
              /\ JobTo(h, j)
              /\ job[h].pc # "idle"
              /\ j.order = job[h].order
              /\ \/ j.next = job[h].next
                 \/ j.next = job[h].next + 1 /\ MoreUpserts(h)
<1>1. job[h] \in Job
  BY DEF TypeInv, TypeOK
<1>2. \A p \in {"discounts", "usages", "refuse", "upsert", "commit", "catch"} :
        LET j == [job[h] EXCEPT !.pc = p] IN
        j \in Job /\ j.order = job[h].order /\ j.next = job[h].next
  BY <1>1 DEF Job
<1>3. CASE DiscountsByIDs(h)
  <2>1. PICK j : j = [job[h] EXCEPT !.pc = "usages", !.read = limit]
    OBVIOUS
  <2>2. j \in Job /\ j.order = job[h].order /\ j.next = job[h].next
    BY <1>1, <2>1 DEF Job, TypeInv, TypeOK
  <2>3. QED
    BY <1>3, <2>1, <2>2 DEF DiscountsByIDs
<1>4. CASE RemainingUsages(h)
  <2>1. PICK p \in {"refuse", "upsert"} : JobTo(h, [job[h] EXCEPT !.pc = p])
    BY <1>4 DEF RemainingUsages
  <2>2. QED
    BY <1>2, <1>4, <2>1 DEF RemainingUsages
<1>5. CASE UpsertDiscountUsage(h) /\ ~ JobTo(h, [job[h] EXCEPT !.pc = "catch"])
  <2>1. PICK j : j = [job[h] EXCEPT !.next = @ + 1]
    OBVIOUS
  <2>2. j \in Job /\ j.order = job[h].order /\ j.next = job[h].next + 1
    BY <1>1, <2>1 DEF Job
  <2>3. JobTo(h, j) /\ MoreUpserts(h) /\ job[h].pc # "idle"
    BY <1>5, <2>1 DEF UpsertDiscountUsage, MoreUpserts
  <2>4. QED
    BY <2>2, <2>3
<1>6. CASE JobTo(h, [job[h] EXCEPT !.pc = "catch"]) /\ job[h].pc # "idle"
  BY <1>2, <1>6
<1>7. CASE PublishValidationSucceeded(h)
  BY <1>2, <1>7 DEF PublishValidationSucceeded
<1>8. CASE DeadlockDetected(h)
  <2>1. MoreUpserts(h)
    BY <1>8 DEF DeadlockDetected, WaitsFor
  <2>2. QED
    BY <1>6, <1>8, <2>1 DEF DeadlockDetected, MoreUpserts
<1>9. QED
  BY <1>3, <1>4, <1>5, <1>6, <1>7, <1>8
     DEF JobMoves, UpsertDiscountUsage, MoreUpserts, CallFails, PublishFailsLate

LEMMA JobMovesType ==
    ASSUME TypeInv, NEW h \in Handlers, JobMoves(h)
    PROVE  TypeInv'
<1>1. PICK j \in Job : /\ JobTo(h, j)
                       /\ job[h].pc # "idle"
                       /\ j.order = job[h].order
                       /\ \/ j.next = job[h].next
                          \/ j.next = job[h].next + 1 /\ MoreUpserts(h)
  BY JobMovesOn
<1>2. /\ job[h].order \in reserved
      /\ job[h].order \in Orders
      /\ job[h].next \in 1 .. Len(DiscountOrder[job[h].order]) + 1
  BY <1>1 DEF TypeInv, TypeOK, JobsHaveOrders
<1>3. /\ j.order \in reserved
      /\ j.next \in 1 .. Len(DiscountOrder[j.order]) + 1
  BY <1>1, <1>2, Grouping DEF MoreUpserts
<1>4. /\ JobStep
      /\ usages' \in [Discounts -> [Users -> Int]]
      /\ inbox' \subseteq reserved
      /\ failed' \subseteq Orders
      /\ repeats' \in Nat
      /\ faults' \in Nat
  BY DEF JobMoves, DiscountsByIDs, RemainingUsages, UpsertDiscountUsage,
     DeadlockDetected, PublishValidationSucceeded, CallFails, PublishFailsLate,
     NoFault, Fault, TypeInv, TypeOK, InboxIsReserved
<1>5. succeeded' \in [Orders -> Nat]
  BY <1>2 DEF JobMoves, DiscountsByIDs, RemainingUsages, UpsertDiscountUsage,
     DeadlockDetected, PublishValidationSucceeded, CallFails, PublishFailsLate,
     TypeInv, TypeOK
<1>6. QED
  BY <1>1, <1>3, <1>4, <1>5, JobFrame

(* What a commit leaves in the table of usages.                             *)
LEMMA CommitUsagesType ==
    ASSUME TypeInv, NEW h \in Handlers, CommitUsages(h)
    PROVE  /\ job[h].order \in reserved /\ job[h].order \in Orders
           /\ usages' \in [Discounts -> [Users -> Int]]
<1>1. job[h].order \in reserved /\ job[h].order \in Orders
  BY DEF CommitUsages, TypeInv, TypeOK, JobsHaveOrders
<1>2. TotalByDiscount[job[h].order] \in [Discounts -> Int]
  BY <1>1, Grouping
<1>3. \A d \in Discounts, u \in Users :
        usages[d][u] \in Int /\ TotalByDiscount[job[h].order][d] \in Int
  BY <1>2 DEF TypeInv, TypeOK
<1>4. \A d \in Discounts, u \in Users :
        (IF <<d, u>> \in Written(h)
         THEN usages[d][u] + TotalByDiscount[job[h].order][d]
         ELSE usages[d][u]) \in Int
  BY <1>3
<1> QED
  BY <1>1, <1>4 DEF CommitUsages

LEMMA CommitUnansweredType ==
    ASSUME TypeInv, NEW h \in Handlers, CommitUnanswered(h)
    PROVE  TypeInv'
<1>1. job[h] \in Job /\ job[h].pc = "commit"
  BY DEF CommitUnanswered, CommitUsages, TypeInv, TypeOK
<1>2. PICK j : j = [job[h] EXCEPT !.pc = "catch"]
  OBVIOUS
<1>3. j \in Job /\ j.order = job[h].order /\ j.next = job[h].next
  BY <1>1, <1>2 DEF Job
<1>4. /\ job[h].order \in reserved /\ usages' \in [Discounts -> [Users -> Int]]
      /\ job[h].next \in 1 .. Len(DiscountOrder[job[h].order]) + 1
  BY <1>1, CommitUsagesType DEF CommitUnanswered, TypeInv, TypeOK, JobsHaveOrders
<1>5. /\ JobTo(h, j) /\ JobStep
      /\ inbox' \subseteq reserved
      /\ failed' \subseteq Orders
      /\ succeeded' \in [Orders -> Nat]
      /\ repeats' \in Nat
      /\ faults' \in Nat
  BY <1>2 DEF CommitUnanswered, CommitUsages, Fault, TypeInv, TypeOK, InboxIsReserved
<1> QED
  BY <1>3, <1>4, <1>5, JobFrame

JobEnds(h) == Refuse(h) \/ Commit(h) \/ ValidateOrderFails(h) \/ Dies(h)

LEMMA JobEndsType ==
    ASSUME TypeInv, NEW h \in Handlers, JobEnds(h)
    PROVE  TypeInv'
<1>1. job[h].order \in reserved /\ job[h].order \in Orders
  BY DEF JobEnds, Refuse, Commit, CommitUsages, ValidateOrderFails, Dies, TypeInv, TypeOK,
     JobsHaveOrders
<1>2. JobTo(h, IdleJob) /\ JobStep
  BY DEF JobEnds, Refuse, Commit, CommitUsages, ValidateOrderFails, Dies
<1>3. usages' \in [Discounts -> [Users -> Int]]
  <2>2. CASE Commit(h)
    BY <2>2, CommitUsagesType DEF Commit
  <2>3. CASE UNCHANGED usages
    BY <2>3 DEF TypeInv, TypeOK
  <2>4. QED
    BY <2>2, <2>3 DEF JobEnds, Refuse, ValidateOrderFails, Dies
<1>4. /\ inbox' \subseteq reserved
      /\ failed' \subseteq Orders
      /\ succeeded' \in [Orders -> Nat]
      /\ repeats' \in Nat
      /\ faults' \in Nat
  BY <1>1 DEF JobEnds, Refuse, Commit, CommitUsages, ValidateOrderFails, Dies, NoFault, Fault,
     TypeInv, TypeOK, InboxIsReserved
<1>5. QED
  BY <1>2, <1>3, <1>4, IdleJobType, JobFrame

-----------------------------------------------------------------------------
LEMMA TypeNext == TypeInv /\ [Next]_vars => TypeInv'
<1>1. SUFFICES ASSUME TypeInv, Next PROVE TypeInv'
  BY TypeStutter
<1>2. CASE Replicate
  BY <1>1, <1>2, RegisterUserType, RegisterTargetType DEF Replicate
<1>3. CASE Create
  BY <1>1, <1>3, CreateDiscountType, CreateCouponType DEF Create
<1>4. CASE \E o \in Orders : Reserved(o)
  BY <1>1, <1>4, ReservedType
<1>5. ASSUME NEW e \in Editors, Update(e) PROVE TypeInv'
  BY <1>1, <1>5, UpdateDiscountType, UpdateCouponType, UpdateReferencesType,
     SaveDiscountType, ReadAppliesToType, CommitUpdateType, PublishUpdatedType,
     SaveCouponType, EditFailsType DEF Update, UpdateStep
<1>6. ASSUME NEW s \in Shoppers, Register(s) PROVE TypeInv'
  BY <1>1, <1>6, RegisterCouponType, RegMovesType, RegEndsType DEF Register
<1>7. ASSUME NEW h \in Handlers, Validate(h) PROVE TypeInv'
  BY <1>1, <1>7, HandleReservationSucceededType, JobMovesType, JobEndsType,
     CommitUnansweredType DEF Validate, ValidateStep, JobMoves, JobEnds
<1>8. QED
  BY <1>1, <1>2, <1>3, <1>4, <1>5, <1>6, <1>7 DEF Next

(* The tables, the jobs and the messages of the discount service keep their *)
(* types, and every job names an order, discount or coupon that exists.     *)
THEOREM DiscountTypes == Spec => []TypeOK
<1>1. Spec => []TypeInv
  BY TypeInit, TypeNext, PTL DEF Spec
<1>2. TypeInv => TypeOK
  BY DEF TypeInv
<1>3. QED
  BY <1>1, <1>2, PTL

-----------------------------------------------------------------------------
(* A number of usages the discount has had a limit for.                     *)
Fits(d, n) == n <= 0 \/ \E l \in limits[d] : l = Null \/ n <= l

(* What a transaction has written and not committed fits, on top of what is *)
(* committed, and no other transaction has written the same row.            *)
WrittenFits ==
    \A h \in Handlers, d \in Discounts, u \in Users :
        <<d, u>> \in Written(h) =>
            Fits(d, usages[d][u] + TotalByDiscount[job[h].order][d])
WrittenOnce ==
    \A g, h \in Handlers : g # h => Written(g) \cap Written(h) = {}

(* A handler has written nothing when it starts to write.                   *)
StartsAtFirst ==
    \A h \in Handlers : job[h].pc \in {"discounts", "usages"} => job[h].next = 1

LimitInv ==
    /\ TypeInv
    /\ UsagesWithinALimit
    /\ WrittenFits
    /\ WrittenOnce
    /\ StartsAtFirst

(* The steps of LimitInv, from the facts a step of anybody but a committing *)
(* or upserting handler has: usages stay, limits grow, no row is written.   *)
LEMMA LimitFrame ==
    ASSUME LimitInv, TypeInv', StartsAtFirst', UNCHANGED usages,
           \A d \in Discounts : limits[d] \subseteq limits'[d],
           \A h \in Handlers : \/ Written(h)' = {}
                               \/ /\ Written(h)' = Written(h)
                                  /\ job'[h].order = job[h].order
    PROVE  LimitInv'
<1>1. UsagesWithinALimit'
  BY DEF LimitInv, UsagesWithinALimit
<1>2. WrittenOnce'
  BY DEF LimitInv, WrittenOnce
<1>3. WrittenFits'
  <2>1. ASSUME NEW h \in Handlers, NEW d \in Discounts, NEW u \in Users,
               <<d, u>> \in Written(h)'
        PROVE  \/ usages'[d][u] + TotalByDiscount[job'[h].order][d] <= 0
               \/ \E l \in limits'[d] :
                     l = Null \/ usages'[d][u] + TotalByDiscount[job'[h].order][d] <= l
    <3>1. job'[h].order = job[h].order /\ <<d, u>> \in Written(h)
      BY <2>1
    <3>2. Fits(d, usages[d][u] + TotalByDiscount[job[h].order][d])
      BY <3>1 DEF LimitInv, WrittenFits
    <3>3. QED
      BY <3>1, <3>2 DEF Fits
  <2>2. QED
    BY <2>1 DEF WrittenFits, Fits
<1>4. QED
  BY <1>1, <1>2, <1>3 DEF LimitInv

LEMMA LimitInit == Init => LimitInv
<1>1. SUFFICES ASSUME Init PROVE LimitInv
  OBVIOUS
<1>2. \A h \in Handlers : Written(h) = {}
  BY <1>1 DEF Init, Written, IdleJob
<1>3. QED
  BY <1>1, <1>2, TypeInit
     DEF Init, LimitInv, UsagesWithinALimit, WrittenFits, WrittenOnce,
     StartsAtFirst, IdleJob

(* Without a step of a handler.                                             *)
LEMMA OthersLimit ==
    ASSUME LimitInv, TypeInv', UNCHANGED <<job, usages>>,
           \A d \in Discounts : limits[d] \subseteq limits'[d]
    PROVE  LimitInv'
<1>1. \A h \in Handlers : Written(h)' = Written(h)
  BY DEF Written
<1>2. StartsAtFirst'
  BY DEF LimitInv, StartsAtFirst
<1>3. QED
  BY <1>1, <1>2, LimitFrame

(* A step of handler h that does not commit and does not write a row.       *)
LEMMA NoWriteLimit ==
    ASSUME LimitInv, TypeInv', NEW h \in Handlers, NEW j \in Job, JobTo(h, j),
           UNCHANGED <<usages, limits>>,
           j.pc \in {"discounts", "usages"} => j.next = 1,
           \/ j.pc \notin {"upsert", "commit"}
           \/ j.pc = "upsert" /\ j.next = 1
           \/ /\ job[h].pc = "upsert"
              /\ j.order = job[h].order
              /\ j.next = job[h].next
    PROVE  LimitInv'
<1>1. job' = [job EXCEPT ![h] = j] /\ job \in [Handlers -> Job]
  BY DEF JobTo, LimitInv, TypeInv, TypeOK
<1>2. ASSUME NEW g \in Handlers, g # h
      PROVE  Written(g)' = Written(g) /\ job'[g].order = job[g].order
  BY <1>1, <1>2 DEF Written
<1>3. job'[h] = j
  BY <1>1
<1>4. \/ Written(h)' = {}
      \/ /\ Written(h)' = Written(h)
         /\ job'[h].order = job[h].order
  <2>1. CASE j.pc \notin {"upsert", "commit"}
    <3>1. Written(h)' = {}
      BY <1>3, <2>1 DEF Written
    <3>2. QED
      BY <3>1
  <2>2. CASE j.pc = "upsert" /\ j.next = 1
    <3>1. \A i \in Int : i \notin 1 .. j.next - 1
      BY <2>2
    <3>2. Written(h)' = {}
      BY <1>3, <3>1 DEF Written
    <3>3. QED
      BY <3>2
  <2>3. CASE /\ job[h].pc = "upsert"
             /\ j.pc \in {"upsert", "commit"}
             /\ j.order = job[h].order
             /\ j.next = job[h].next
    BY <1>3, <2>3 DEF Written
  <2>4. QED
    BY <2>1, <2>2, <2>3
<1>5. StartsAtFirst'
  BY <1>1, <1>3 DEF LimitInv, StartsAtFirst
<1>6. QED
  BY <1>2, <1>4, <1>5, LimitFrame

(* The trigger lets an amount pass only if the sum fits.                    *)
LEMMA TriggerFits ==
    ASSUME LimitInv, NEW d \in discounts, NEW u \in Users, NEW n \in Int,
           CheckDiscountUsages(d, usages[d][u], n)
    PROVE  Fits(d, usages[d][u] + n)
<1>1. /\ d \in Discounts
      /\ usages[d][u] \in Int
      /\ limit[d] \in limits[d]
      /\ limit[d] \in Limit
      /\ limits[d] \subseteq Limit
  BY DEF LimitInv, TypeInv, TypeOK, LimitIsKnown
<1>2. CASE limit[d] = Null
  BY <1>1, <1>2 DEF Fits
<1>3. CASE limit[d] # Null /\ n <= 0
  <2>1. CASE usages[d][u] <= 0
    BY <1>1, <1>3, <2>1 DEF Fits
  <2>2. CASE usages[d][u] > 0
    <3>1. PICK l \in limits[d] : l = Null \/ usages[d][u] <= l
      BY <1>1, <2>2 DEF LimitInv, UsagesWithinALimit
    <3>2. l = Null \/ usages[d][u] + n <= l
      BY <1>1, <1>3, <3>1, DiscountAssumption DEF Limit
    <3>3. QED
      BY <3>1, <3>2 DEF Fits
  <2>3. QED
    BY <1>1, <2>1, <2>2
<1>4. CASE limit[d] # Null /\ ~ (n <= 0)
  BY <1>1, <1>4 DEF CheckDiscountUsages, Fits
<1>5. QED
  BY <1>2, <1>3, <1>4

(* A row is written by a transaction that did not have to wait for it and   *)
(* that the trigger let pass.                                               *)
LEMMA UpsertLimit ==
    ASSUME LimitInv, TypeInv', NEW h \in Handlers, UpsertDiscountUsage(h)
    PROVE  LimitInv'
<1>1. /\ job[h] \in Job
      /\ job \in [Handlers -> Job]
      /\ MoreUpserts(h)
      /\ job[h].pc = "upsert"
      /\ UNCHANGED <<usages, limits>>
  BY DEF UpsertDiscountUsage, MoreUpserts, JobStep, discountTable, LimitInv,
     TypeInv, TypeOK
<1>2. /\ job[h].order \in Orders
      /\ job[h].order \in reserved
      /\ job[h].next \in 1 .. Len(DiscountOrder[job[h].order])
  BY <1>1, Grouping
     DEF MoreUpserts, LimitInv, TypeInv, TypeOK, JobsHaveOrders
<1>3. CASE JobTo(h, [job[h] EXCEPT !.pc = "catch"])
  <2>1. PICK j : j = [job[h] EXCEPT !.pc = "catch"]
    OBVIOUS
  <2>2. j \in Job /\ j.pc = "catch"
    BY <1>1, <2>1 DEF Job
  <2>3. QED
    BY <1>1, <1>3, <2>1, <2>2, NoWriteLimit
<1>4. CASE ~ JobTo(h, [job[h] EXCEPT !.pc = "catch"])
  <2>0. /\ DiscountOrder[job[h].order] \in Seq(Discounts)
        /\ DiscountOrder[job[h].order][job[h].next] \in Discounts
        /\ UserOf[job[h].order] \in Users
        /\ job[h].next \in Nat
    BY <1>2, DiscountAssumption, Grouping
  <2>1. PICK o \in Orders, n \in Nat, d \in Discounts, u \in Users :
          /\ o = job[h].order
          /\ n = job[h].next
          /\ d = DiscountOrder[o][n]
          /\ u = UserOf[o]
    BY <1>2, <2>0
  <2>2. /\ NextRow(h) = <<d, u>>
        /\ d \in discounts
        /\ TotalByDiscount[o][d] \in Int
    BY <1>2, <2>1, Grouping
       DEF NextRow, LimitInv, TypeInv, OrdersNameDiscounts
  <2>3. Fits(d, usages[d][u] + TotalByDiscount[o][d])
    <3>1. CheckDiscountUsages(d, usages[d][u], TotalByDiscount[o][d])
      BY <1>4, <2>1, <2>2 DEF UpsertDiscountUsage
    <3>2. QED
      BY <2>2, <3>1, TriggerFits
  <2>4. PICK j : j = [job[h] EXCEPT !.next = n + 1]
    OBVIOUS
  <2>5. j \in Job /\ j.order = o /\ j.next = n + 1 /\ j.pc = "upsert"
    BY <1>1, <2>1, <2>4 DEF Job
  <2>6. job' = [job EXCEPT ![h] = j]
    BY <1>4, <2>1, <2>4 DEF UpsertDiscountUsage, JobTo
  <2>7. Written(h)' = Written(h) \cup {<<d, u>>}
    <3>1. 1 .. (n + 1) - 1 = (1 .. n - 1) \cup {n}
      BY <1>2, <2>1
    <3>2. Written(h) = {<<DiscountOrder[o][i], UserOf[o]>> : i \in 1 .. n - 1}
      BY <1>1, <2>1 DEF Written
    <3>3. Written(h)' = {<<DiscountOrder[o][i], UserOf[o]>> : i \in 1 .. (n + 1) - 1}
      BY <1>1, <2>5, <2>6 DEF Written
    <3>4. QED
      BY <2>1, <3>1, <3>2, <3>3
  <2>8. \A g \in Handlers \ {h} : /\ Written(g)' = Written(g)
                                   /\ job'[g].order = job[g].order
                                   /\ <<d, u>> \notin Written(g)
    <3>1. \A g \in Handlers \ {h} : <<d, u>> \notin Written(g)
      BY <1>1, <2>2 DEF UpsertDiscountUsage, WaitsFor
    <3>2. \A g \in Handlers \ {h} : job'[g] = job[g]
      BY <1>1, <2>6
    <3>3. QED
      BY <3>1, <3>2 DEF Written
  <2>9. WrittenOnce'
    BY <2>7, <2>8 DEF WrittenOnce, LimitInv
  <2>10. job'[h].order = o
    BY <1>1, <2>5, <2>6
  <2>11. WrittenFits'
    <3>1. SUFFICES ASSUME NEW g \in Handlers, NEW x \in Discounts, NEW y \in Users,
                          <<x, y>> \in Written(g)'
                   PROVE  Fits(x, usages[x][y] + TotalByDiscount[job'[g].order][x])
      BY <1>1 DEF WrittenFits, Fits
    <3>2. CASE <<x, y>> \in Written(g)
      BY <2>1, <2>8, <2>10, <3>2 DEF LimitInv, WrittenFits
    <3>3. CASE <<x, y>> \notin Written(g)
      <4>1. g = h /\ x = d /\ y = u
        BY <2>7, <2>8, <3>1, <3>3
      <4>2. QED
        BY <2>3, <2>10, <4>1
    <3>4. QED
      BY <3>2, <3>3
  <2>12. UsagesWithinALimit'
    BY <1>1 DEF LimitInv, UsagesWithinALimit
  <2>13. StartsAtFirst'
    BY <1>1, <2>5, <2>6 DEF LimitInv, StartsAtFirst
  <2>14. QED
    BY <2>9, <2>11, <2>12, <2>13 DEF LimitInv
<1>5. QED
  BY <1>3, <1>4

(* A commit changes the rows its transaction has written, which nobody else *)
(* has.                                                                     *)
LEMMA CommitUsagesLimit ==
    ASSUME LimitInv, TypeInv', NEW h \in Handlers, NEW j \in Job,
           j.pc \in {"idle", "catch"}, CommitUsages(h), JobTo(h, j)
    PROVE  LimitInv'
<1>1. job' = [job EXCEPT ![h] = j] /\ job \in [Handlers -> Job]
  BY DEF JobTo, LimitInv, TypeInv, TypeOK
<1>2. UNCHANGED limits
  BY DEF CommitUsages, JobStep, discountTable
<1>3. Written(h)' = {}
  BY <1>1 DEF Written
<1>4. \A g \in Handlers \ {h} : Written(g)' = Written(g) /\ job'[g] = job[g]
  BY <1>1 DEF Written
<1>5. \A d \in Discounts, u \in Users :
        usages'[d][u] = IF <<d, u>> \in Written(h)
                        THEN usages[d][u] + TotalByDiscount[job[h].order][d]
                        ELSE usages[d][u]
  BY DEF CommitUsages
<1>6. UsagesWithinALimit'
  <2>1. SUFFICES ASSUME NEW d \in Discounts, NEW u \in Users
                 PROVE  Fits(d, usages'[d][u])
    BY <1>2 DEF UsagesWithinALimit, Fits
  <2>2. CASE <<d, u>> \in Written(h)
    BY <1>5, <2>2 DEF LimitInv, WrittenFits
  <2>3. CASE <<d, u>> \notin Written(h)
    BY <1>5, <2>3 DEF LimitInv, UsagesWithinALimit, Fits
  <2>4. QED
    BY <2>2, <2>3
<1>7. WrittenOnce'
  BY <1>3, <1>4 DEF LimitInv, WrittenOnce
<1>8. WrittenFits'
  <2>1. SUFFICES ASSUME NEW g \in Handlers, NEW d \in Discounts, NEW u \in Users,
                        <<d, u>> \in Written(g)'
                 PROVE  Fits(d, usages'[d][u] + TotalByDiscount[job'[g].order][d])
    BY <1>2 DEF WrittenFits, Fits
  <2>2. g # h /\ <<d, u>> \in Written(g) /\ job'[g] = job[g]
    BY <1>3, <1>4, <2>1
  <2>3. <<d, u>> \notin Written(h)
    BY <2>2 DEF LimitInv, WrittenOnce
  <2>4. QED
    BY <1>5, <2>2, <2>3 DEF LimitInv, WrittenFits
<1>9. StartsAtFirst'
  BY <1>1 DEF LimitInv, StartsAtFirst
<1>10. QED
  BY <1>6, <1>7, <1>8, <1>9 DEF LimitInv

LEMMA CommitLimit ==
    ASSUME LimitInv, TypeInv', NEW h \in Handlers, Commit(h) \/ CommitUnanswered(h)
    PROVE  LimitInv'
<1>1. job[h] \in Job
  BY DEF LimitInv, TypeInv, TypeOK
<1>2. PICK j : /\ CommitUsages(h) /\ JobTo(h, j)
               /\ j \in {IdleJob, [job[h] EXCEPT !.pc = "catch"]}
  BY DEF Commit, CommitUnanswered
<1>3. j \in Job /\ j.pc \in {"idle", "catch"}
  BY <1>1, <1>2, IdleJobType DEF Job
<1> QED
  BY <1>2, <1>3, CommitUsagesLimit

(* The other steps of a handler.                                            *)
LEMMA StartLimit ==
    ASSUME LimitInv, TypeInv', NEW h \in Handlers, NEW o \in Orders,
           HandleReservationSucceeded(h, o)
    PROVE  LimitInv'
<1>1. PICK j : j = [IdleJob EXCEPT !.pc = "discounts", !.order = o]
  OBVIOUS
<1>2. j \in Job /\ j.pc = "discounts" /\ j.next = 1
  BY <1>1, IdleJobType DEF Job
<1>3. QED
  BY <1>1, <1>2, NoWriteLimit
     DEF HandleReservationSucceeded, JobStep, discountTable

LEMMA EndLimit ==
    ASSUME LimitInv, TypeInv', NEW h \in Handlers,
           Refuse(h) \/ ValidateOrderFails(h) \/ Dies(h)
    PROVE  LimitInv'
<1>1. JobTo(h, IdleJob) /\ UNCHANGED <<usages, limits>>
  BY DEF Refuse, ValidateOrderFails, Dies, JobStep, discountTable
<1>2. IdleJob \in Job /\ IdleJob.pc = "idle"
  BY IdleJobType
<1>3. QED
  BY <1>1, <1>2, NoWriteLimit

LEMMA CatchLimit ==
    ASSUME LimitInv, TypeInv', NEW h \in Handlers,
           DeadlockDetected(h) \/ CallFails(h) \/ PublishFailsLate(h)
    PROVE  LimitInv'
<1>0. job[h] \in Job
  BY DEF LimitInv, TypeInv, TypeOK
<1>1. PICK j : j = [job[h] EXCEPT !.pc = "catch"]
  OBVIOUS
<1>2. j \in Job /\ j.pc = "catch"
  BY <1>0, <1>1 DEF Job
<1>3. JobTo(h, j) /\ UNCHANGED <<usages, limits>>
  BY <1>1 DEF DeadlockDetected, CallFails, PublishFailsLate, JobStep, discountTable
<1>4. QED
  BY <1>2, <1>3, NoWriteLimit

LEMMA CheckLimit ==
    ASSUME LimitInv, TypeInv', NEW h \in Handlers,
           DiscountsByIDs(h) \/ RemainingUsages(h)
    PROVE  LimitInv'
<1>0. job[h] \in Job
  BY DEF LimitInv, TypeInv, TypeOK
<1>1. /\ job[h] \in Job
      /\ job[h].next = 1
      /\ UNCHANGED <<usages, limits>>
  BY <1>0 DEF DiscountsByIDs, RemainingUsages, JobStep, discountTable, LimitInv,
     StartsAtFirst
<1>2. CASE DiscountsByIDs(h)
  <2>0. limit \in [Discounts -> Limit]
    BY DEF LimitInv, TypeInv, TypeOK
  <2>1. PICK j : j = [job[h] EXCEPT !.pc = "usages", !.read = limit]
    OBVIOUS
  <2>2. j \in Job /\ j.pc = "usages" /\ j.next = 1
    BY <1>1, <2>0, <2>1 DEF Job
  <2>3. JobTo(h, j)
    BY <1>2, <2>1 DEF DiscountsByIDs
  <2>4. QED
    BY <1>1, <2>2, <2>3, NoWriteLimit
<1>3. CASE RemainingUsages(h)
  <2>1. PICK p \in {"refuse", "upsert"} : JobTo(h, [job[h] EXCEPT !.pc = p])
    BY <1>3 DEF RemainingUsages
  <2>2. PICK j : j = [job[h] EXCEPT !.pc = p]
    OBVIOUS
  <2>3. j \in Job /\ j.pc = p /\ j.next = 1
    BY <1>1, <2>2 DEF Job
  <2>4. JobTo(h, j)
    BY <2>1, <2>2
  <2>5. QED
    BY <1>1, <2>3, <2>4, NoWriteLimit
<1>4. QED
  BY <1>2, <1>3

LEMMA PublishLimit ==
    ASSUME LimitInv, TypeInv', NEW h \in Handlers, PublishValidationSucceeded(h)
    PROVE  LimitInv'
<1>0. job[h] \in Job
  BY DEF LimitInv, TypeInv, TypeOK
<1>1. PICK j : j = [job[h] EXCEPT !.pc = "commit"]
  OBVIOUS
<1>2. /\ job[h].pc = "upsert"
      /\ JobTo(h, j)
      /\ UNCHANGED <<usages, limits>>
  BY <1>1 DEF PublishValidationSucceeded, JobStep, discountTable
<1>3. /\ j \in Job
      /\ j.pc = "commit"
      /\ j.order = job[h].order
      /\ j.next = job[h].next
  BY <1>0, <1>1 DEF Job
<1>4. QED
  BY <1>2, <1>3, NoWriteLimit

(* Creating and updating a discount adds to its limits; nobody takes one    *)
(* away.                                                                    *)
LEMMA LimitsGrow ==
    ASSUME TypeInv,
           \/ Replicate
           \/ Create
           \/ \E o \in Orders : Reserved(o)
           \/ \E e \in Editors : Update(e)
           \/ \E s \in Shoppers : Register(s)
    PROVE  /\ UNCHANGED <<job, usages>>
           /\ \A d \in Discounts : limits[d] \subseteq limits'[d]
<1>1. limits \in [Discounts -> SUBSET Limit]
  BY DEF TypeInv, TypeOK
<1>2. CASE Replicate
  BY <1>2 DEF Replicate, RegisterUser, RegisterTarget, discountTable
<1>3. CASE Create
  BY <1>1, <1>3 DEF Create, CreateDiscount, CreateCoupon, discountTable
<1>4. CASE \E o \in Orders : Reserved(o)
  BY <1>4 DEF Reserved, discountTable
<1>5. ASSUME NEW e \in Editors, Update(e)
      PROVE  /\ UNCHANGED <<job, usages>>
             /\ \A d \in Discounts : limits[d] \subseteq limits'[d]
  <2>1. CASE CommitUpdate(e)
    BY <1>1, <2>1 DEF CommitUpdate, EditStep
  <2>2. CASE ~ CommitUpdate(e)
    BY <1>5, <2>2 DEF Update, UpdateStep, UpdateDiscount, UpdateCoupon,
       UpdateReferences, SaveDiscount, ReadAppliesTo, PublishUpdated, SaveCoupon,
       EditFails, EditStep, discountTable
  <2>3. QED
    BY <2>1, <2>2
<1>6. CASE \E s \in Shoppers : Register(s)
  BY <1>6 DEF Register, RegisterCoupon, TriggerSelect, TriggerUpdate,
     CommitRedemption, RedemptionFails, RegStep, discountTable
<1>7. QED
  BY <1>2, <1>3, <1>4, <1>5, <1>6

LEMMA LimitNext == LimitInv /\ [Next]_vars => LimitInv'
<1>1. SUFFICES ASSUME LimitInv, [Next]_vars PROVE LimitInv'
  OBVIOUS
<1>2. TypeInv /\ TypeInv'
  BY <1>1, TypeNext DEF LimitInv
<1>3. CASE UNCHANGED vars
  BY <1>1, <1>2, <1>3, OthersLimit DEF vars, discountTable
<1>4. ASSUME NEW h \in Handlers, Validate(h) PROVE LimitInv'
  BY <1>1, <1>2, <1>4, StartLimit, EndLimit, CatchLimit, CheckLimit, UpsertLimit,
     PublishLimit, CommitLimit DEF Validate, ValidateStep
<1>5. CASE \/ Replicate
           \/ Create
           \/ \E o \in Orders : Reserved(o)
           \/ \E e \in Editors : Update(e)
           \/ \E s \in Shoppers : Register(s)
  BY <1>1, <1>2, <1>5, LimitsGrow, OthersLimit
<1>6. QED
  BY <1>1, <1>3, <1>4, <1>5 DEF Next

(* No user ever has more usages of a discount than a limit the discount has *)
(* had, however many orders of the user are validated at once, repeated or  *)
(* interrupted: the trigger checks a row its transaction has locked, and    *)
(* what it let pass is still what is added when the transaction commits.    *)
THEOREM UsagesBounded == Spec => []UsagesWithinALimit
<1>1. Spec => []LimitInv
  BY LimitInit, LimitNext, PTL DEF Spec
<1>2. LimitInv => UsagesWithinALimit
  BY DEF LimitInv
<1>3. QED
  BY <1>1, <1>2, PTL

-----------------------------------------------------------------------------
(* An update that has locked its discount is the only one of it, and what   *)
(* it has read for the event is what the discount has once it commits.      *)
LocksDiscount(e) == edit[e].pc \in {"reread", "commit"}
OneLock ==
    \A e, f \in Editors :
        e # f /\ LocksDiscount(e) /\ LocksDiscount(f) => edit[e].id # edit[f].id
PayloadIsNext == \A e \in Editors : edit[e].pc = "commit" => edit[e].payload = AppliesAfter(e)

TargetInv == TypeInv /\ OneLock /\ PayloadIsNext

(* A step that does not touch the updates, and no target of a discount that *)
(* exists.                                                                  *)
LEMMA TargetFrame ==
    ASSUME TargetInv, TypeInv', UNCHANGED edit,
           \A d \in discounts : applies'[d] = applies[d]
    PROVE  TargetInv'
<1>1. OneLock'
  BY DEF TargetInv, OneLock, LocksDiscount
<1>2. ASSUME NEW e \in Editors, edit'[e].pc = "commit"
      PROVE  edit'[e].payload = AppliesAfter(e)'
  <2>1. edit[e].id \in discounts /\ edit[e].payload = AppliesAfter(e)
    BY <1>2 DEF TargetInv, TypeInv, EditsNameRows, PayloadIsNext
  <2> QED
    BY <2>1 DEF AppliesAfter
<1> QED
  BY <1>1, <1>2 DEF TargetInv, PayloadIsNext

(* A step of update e alone, which leaves the targets.                      *)
LEMMA EditTarget ==
    ASSUME TargetInv, TypeInv', NEW e \in Editors, NEW r, EditTo(e, r), UNCHANGED applies,
           \/ r.pc \notin {"reread", "commit"}
           \/ /\ r.pc = "reread" /\ r.id = edit[e].id
              /\ \A f \in Editors \ {e} : ~ (edit[f].id = edit[e].id /\ LocksDiscount(f))
           \/ /\ LocksDiscount(e) /\ r.id = edit[e].id
              /\ r.payload = (applies[r.id] \cup r.add) \ r.remove
    PROVE  TargetInv'
<1>1. edit' = [edit EXCEPT ![e] = r] /\ edit \in [Editors -> Edit]
  BY DEF EditTo, TargetInv, TypeInv, TypeOK
<1>2. edit'[e] = r /\ \A f \in Editors \ {e} : edit'[f] = edit[f]
  BY <1>1
<1>3. OneLock'
  BY <1>2 DEF TargetInv, OneLock, LocksDiscount
<1>4. PayloadIsNext'
  <2>1. ASSUME NEW f \in Editors, edit'[f].pc = "commit"
        PROVE  edit'[f].payload = AppliesAfter(f)'
    BY <1>2, <2>1 DEF TargetInv, PayloadIsNext, AppliesAfter
  <2> QED
    BY <2>1 DEF PayloadIsNext
<1> QED
  BY <1>3, <1>4 DEF TargetInv

LEMMA CommitUpdateTarget ==
    ASSUME TargetInv, TypeInv', NEW e \in Editors, CommitUpdate(e)
    PROVE  TargetInv' /\ edit[e].payload = applies'[edit[e].id]
<1>0. /\ edit[e] \in Edit /\ edit \in [Editors -> Edit] /\ edit[e].pc = "commit"
      /\ applies \in [Discounts -> SUBSET Targets]
  BY DEF CommitUpdate, TargetInv, TypeInv, TypeOK
<1>1. PICK r : r = [edit[e] EXCEPT !.pc = "announce"]
  OBVIOUS
<1>2. r.pc = "announce"
  BY <1>0, <1>1 DEF Edit
<1>3. edit' = [edit EXCEPT ![e] = r]
  BY <1>1 DEF CommitUpdate, EditTo
<1>4. edit'[e] = r /\ \A f \in Editors \ {e} : edit'[f] = edit[f]
  BY <1>0, <1>3
<1>5. edit[e].id \in discounts /\ edit[e].id \in Discounts
  BY <1>0 DEF TargetInv, TypeInv, TypeOK, EditsNameRows
<1>6. /\ applies'[edit[e].id] = AppliesAfter(e)
      /\ \A d \in Discounts \ {edit[e].id} : applies'[d] = applies[d]
  BY <1>0, <1>5 DEF CommitUpdate
<1>7. OneLock'
  BY <1>2, <1>4 DEF TargetInv, OneLock, LocksDiscount
<1>8. PayloadIsNext'
  <2>1. ASSUME NEW f \in Editors, edit'[f].pc = "commit"
        PROVE  edit'[f].payload = AppliesAfter(f)'
    <3>1. f # e /\ edit'[f] = edit[f]
      BY <1>2, <1>4, <2>1
    <3>2. edit[f].id # edit[e].id
      BY <1>0, <2>1, <3>1 DEF TargetInv, OneLock, LocksDiscount
    <3>3. edit[f].id \in Discounts
      BY <2>1, <3>1 DEF TargetInv, TypeInv, TypeOK, EditsNameRows
    <3>4. edit[f].payload = AppliesAfter(f)
      BY <2>1, <3>1 DEF TargetInv, PayloadIsNext
    <3> QED
      BY <1>6, <3>1, <3>2, <3>3, <3>4 DEF AppliesAfter
  <2> QED
    BY <2>1 DEF PayloadIsNext
<1>9. edit[e].payload = applies'[edit[e].id]
  BY <1>0, <1>6 DEF TargetInv, PayloadIsNext
<1> QED
  BY <1>7, <1>8, <1>9 DEF TargetInv

LEMMA UpdateTarget ==
    ASSUME TargetInv, TypeInv', NEW e \in Editors, Update(e), ~ CommitUpdate(e)
    PROVE  TargetInv' /\ ~ (edit[e].pc = "commit" /\ edit'[e].pc = "announce")
<1>0. edit[e] \in Edit /\ edit \in [Editors -> Edit]
  BY DEF TargetInv, TypeInv, TypeOK
<1>1. \A r : EditTo(e, r) => edit'[e] = r
  BY <1>0 DEF EditTo
<1>2. ASSUME NEW d \in Discounts, NEW l \in Limits \cup {Null, Keep},
             NEW add \in SUBSET Targets, NEW remove \in SUBSET Targets,
             UpdateDiscount(e, d, l, add, remove)
      PROVE  TargetInv' /\ edit'[e].pc = "refs"
  <2>1. PICK r : r = [IdleEdit EXCEPT !.pc = "refs", !.id = d, !.add = add,
                         !.remove = remove, !.limit = Patched(l, limit[d])]
    OBVIOUS
  <2>2. r.pc = "refs"
    BY <2>1 DEF IdleEdit
  <2>3. EditTo(e, r) /\ UNCHANGED applies
    BY <1>2, <2>1 DEF UpdateDiscount, discountTable
  <2> QED
    BY <1>1, <2>2, <2>3, EditTarget
<1>3. ASSUME NEW c \in Coupons, NEW m \in Limits \cup {Null, Keep}, UpdateCoupon(e, c, m)
      PROVE  TargetInv' /\ edit'[e].pc = "coupon"
  <2>1. PICK r : r = [IdleEdit EXCEPT !.pc = "coupon", !.id = c,
                         !.limit = Patched(m, couponMax[c])]
    OBVIOUS
  <2>2. r.pc = "coupon"
    BY <2>1 DEF IdleEdit
  <2>3. EditTo(e, r) /\ UNCHANGED applies
    BY <1>3, <2>1 DEF UpdateCoupon, discountTable
  <2> QED
    BY <1>1, <2>2, <2>3, EditTarget
<1>4. CASE UpdateReferences(e) /\ ~ EditEnds(e)
  <2>1. PICK r : r = [edit[e] EXCEPT !.pc = "save",
                        !.remove = @ \cap (applies[edit[e].id] \cup edit[e].add)]
    OBVIOUS
  <2>2. r.pc = "save"
    BY <1>0, <2>1 DEF Edit
  <2>3. EditTo(e, r) /\ UNCHANGED applies
    BY <1>4, <2>1 DEF UpdateReferences, discountTable
  <2> QED
    BY <1>1, <2>2, <2>3, EditTarget
<1>5. CASE EditEnds(e) /\ UNCHANGED applies
  BY <1>1, <1>5, IdleEditType, EditTarget DEF EditEnds
<1>6. CASE SaveDiscount(e)
  <2>1. PICK r : r = [edit[e] EXCEPT !.pc = "reread"]
    OBVIOUS
  <2>2. r.pc = "reread" /\ r.id = edit[e].id
    BY <1>0, <2>1 DEF Edit
  <2>3. EditTo(e, r) /\ UNCHANGED applies
    BY <1>6, <2>1 DEF SaveDiscount, discountTable
  <2>4. \A f \in Editors \ {e} : ~ (edit[f].id = edit[e].id /\ LocksDiscount(f))
    BY <1>6 DEF SaveDiscount, LocksDiscount
  <2> QED
    BY <1>1, <2>2, <2>3, <2>4, EditTarget
<1>7. CASE ReadAppliesTo(e)
  <2>1. PICK r : r = [edit[e] EXCEPT !.pc = "commit", !.payload = AppliesAfter(e)]
    OBVIOUS
  <2>2. /\ r.pc = "commit" /\ r.id = edit[e].id /\ r.payload = AppliesAfter(e)
        /\ r.add = edit[e].add /\ r.remove = edit[e].remove
    BY <1>0, <2>1 DEF Edit
  <2>3. EditTo(e, r) /\ UNCHANGED applies
    BY <1>7, <2>1 DEF ReadAppliesTo, discountTable
  <2>4. LocksDiscount(e) /\ r.payload = (applies[r.id] \cup r.add) \ r.remove
    BY <1>7, <2>2 DEF ReadAppliesTo, LocksDiscount, AppliesAfter
  <2> QED
    BY <1>1, <2>2, <2>3, <2>4, EditTarget
<1>8. CASE PublishUpdated(e) \/ SaveCoupon(e) \/ EditFails(e)
  BY <1>5, <1>8 DEF PublishUpdated, SaveCoupon, EditFails, discountTable
<1>9. CASE UpdateReferences(e) /\ EditEnds(e)
  BY <1>5, <1>9 DEF UpdateReferences, discountTable
<1> QED
  BY <1>2, <1>3, <1>4, <1>6, <1>7, <1>8, <1>9 DEF Update, UpdateStep

(* The targets a discount has when it is updated.                           *)
CarriesAll(e) ==
    (edit[e].pc = "commit" /\ edit'[e].pc = "announce") =>
        edit[e].payload = applies'[edit[e].id]

LEMMA TargetNext ==
    ASSUME TargetInv, [Next]_vars
    PROVE  TargetInv' /\ \A e \in Editors : CarriesAll(e)
<1>1. TypeInv /\ TypeInv'
  BY TypeNext DEF TargetInv
<1>2. applies \in [Discounts -> SUBSET Targets] /\ discounts \in SUBSET Discounts
  BY <1>1 DEF TypeInv, TypeOK
<1>3. CASE UNCHANGED edit /\ \A d \in discounts : applies'[d] = applies[d]
  BY <1>1, <1>3, TargetFrame DEF CarriesAll
<1>4. CASE UNCHANGED vars
  BY <1>3, <1>4 DEF vars, discountTable
<1>5. CASE Replicate
  BY <1>3, <1>5 DEF Replicate, RegisterUser, RegisterTarget, discountTable
<1>6. CASE Create
  <2>1. UNCHANGED edit
    BY <1>6 DEF Create, CreateDiscount, CreateCoupon
  <2>2. \A d \in discounts : applies'[d] = applies[d]
    BY <1>2, <1>6 DEF Create, CreateDiscount, CreateCoupon, discountTable
  <2> QED
    BY <1>3, <2>1, <2>2
<1>7. CASE \E o \in Orders : Reserved(o)
  BY <1>3, <1>7 DEF Reserved, discountTable
<1>8. CASE \E s \in Shoppers : Register(s)
  BY <1>3, <1>8 DEF Register, RegisterCoupon, TriggerSelect, TriggerUpdate,
     CommitRedemption, RedemptionFails, RegStep, discountTable
<1>9. CASE \E h \in Handlers : Validate(h)
  BY <1>3, <1>9 DEF Validate, ValidateStep, HandleReservationSucceeded, DiscountsByIDs,
     RemainingUsages, Refuse, UpsertDiscountUsage, DeadlockDetected,
     PublishValidationSucceeded, Commit, CommitUnanswered, CommitUsages,
     ValidateOrderFails, CallFails, PublishFailsLate, Dies, JobStep, discountTable
<1>10. ASSUME NEW e \in Editors, Update(e)
       PROVE  TargetInv' /\ \A f \in Editors : CarriesAll(f)
  <2>1. TargetInv' /\ CarriesAll(e)
    BY <1>1, <1>10, CommitUpdateTarget, UpdateTarget DEF CarriesAll
  <2>2. PICK r : edit' = [edit EXCEPT ![e] = r]
    BY <1>10 DEF Update, UpdateStep, UpdateDiscount, UpdateCoupon, UpdateReferences,
       SaveDiscount, ReadAppliesTo, CommitUpdate, PublishUpdated, SaveCoupon,
       EditFails, EditTo, EditEnds
  <2>3. \A f \in Editors \ {e} : edit'[f] = edit[f]
    BY <1>1, <2>2 DEF TypeInv, TypeOK
  <2> QED
    BY <2>1, <2>3 DEF CarriesAll
<1> QED
  BY <1>4, <1>5, <1>6, <1>7, <1>8, <1>9, <1>10 DEF Next

(* The event of an update carries the targets the discount has once that    *)
(* update is committed, whatever other updates of it are under way: the     *)
(* join tables are read under the lock of the discount row.                 *)
THEOREM UpdatesCarryAllTargets == Spec => UpdatedCarriesAllTargets
<1>1. Init => TargetInv
  <2> SUFFICES ASSUME Init PROVE TargetInv
    OBVIOUS
  <2>1. \A e \in Editors : edit[e].pc = "idle"
    BY DEF Init, IdleEdit
  <2> QED
    BY <2>1, TypeInit DEF TargetInv, OneLock, PayloadIsNext, LocksDiscount
<1>2. TargetInv /\ [Next]_vars => TargetInv'
  BY TargetNext
<1>3. TargetInv /\ [Next]_vars =>
        [\A e \in Editors : (edit[e].pc = "commit" /\ edit'[e].pc = "announce") =>
            edit[e].payload = applies'[edit[e].id]]_vars
  BY TargetNext DEF CarriesAll
<1> QED
  BY <1>1, <1>2, <1>3, PTL DEF Spec, UpdatedCarriesAllTargets

-----------------------------------------------------------------------------
(* A redemption under way counts one more than there are, at most, is not   *)
(* recorded yet when it holds the coupon, and is then the only one that     *)
(* does.                                                                    *)
RedeemersFinite == \A c \in Coupons : IsFiniteSet(Redeemers(c))
CountsOneMore ==
    \A s \in Shoppers :
        reg[s].pc \in {"update", "commit"} =>
            reg[s].count <= Cardinality(Redeemers(reg[s].coupon)) + 1
CommitsNew ==
    \A s \in Shoppers :
        reg[s].pc = "commit" => <<reg[s].coupon, reg[s].user>> \notin redeemed
OneCommits ==
    \A s, t \in Shoppers :
        s # t /\ reg[s].pc = "commit" /\ reg[t].pc = "commit" =>
            reg[s].coupon # reg[t].coupon

CouponInv ==
    /\ TypeInv
    /\ CouponUsagesAreRedeemed
    /\ RedeemersFinite
    /\ CountsOneMore
    /\ CommitsNew
    /\ OneCommits

LEMMA CouponFrame ==
    ASSUME CouponInv, TypeInv', UNCHANGED <<couponUsages, redeemed, reg>>
    PROVE  CouponInv'
BY DEF CouponInv, CouponUsagesAreRedeemed, RedeemersFinite, CountsOneMore,
   CommitsNew, OneCommits, Redeemers

(* A step of redemption s that records nothing.                             *)
LEMMA RegCoupon ==
    ASSUME CouponInv, TypeInv', NEW s \in Shoppers, NEW r, RegTo(s, r),
           UNCHANGED <<couponUsages, redeemed>>,
           r.pc \in {"update", "commit"} =>
               r.count <= Cardinality(Redeemers(r.coupon)) + 1,
           r.pc = "commit" =>
               /\ <<r.coupon, r.user>> \notin redeemed
               /\ ~ CouponLocked(r.coupon)
    PROVE  CouponInv'
<1>1. reg' = [reg EXCEPT ![s] = r] /\ reg \in [Shoppers -> Reg]
  BY DEF RegTo, CouponInv, TypeInv, TypeOK
<1>2. reg'[s] = r /\ \A t \in Shoppers \ {s} : reg'[t] = reg[t]
  BY <1>1
<1>3. \A c : Redeemers(c)' = Redeemers(c)
  BY DEF Redeemers
<1>4. CouponUsagesAreRedeemed' /\ RedeemersFinite'
  BY <1>3 DEF CouponInv, CouponUsagesAreRedeemed, RedeemersFinite
<1>5. CountsOneMore'
  <2>1. ASSUME NEW t \in Shoppers, reg'[t].pc \in {"update", "commit"}
        PROVE  reg'[t].count <= Cardinality(Redeemers(reg'[t].coupon)) + 1
    BY <1>2, <2>1 DEF CouponInv, CountsOneMore
  <2>2. \A t \in Shoppers : Redeemers(reg[t].coupon)' = Redeemers(reg'[t].coupon)
    BY DEF Redeemers
  <2> QED
    BY <2>1, <2>2 DEF CountsOneMore
<1>6. CommitsNew' /\ OneCommits'
  BY <1>2 DEF CouponInv, CommitsNew, OneCommits, CouponLocked
<1> QED
  BY <1>4, <1>5, <1>6 DEF CouponInv

LEMMA RegStepsCoupon ==
    ASSUME CouponInv, TypeInv', NEW s \in Shoppers, Register(s), ~ CommitRedemption(s)
    PROVE  CouponInv'
<1>0. /\ reg[s] \in Reg
      /\ couponUsages \in [Coupons -> Int]
      /\ reg[s].pc # "idle" => reg[s].coupon \in Coupons
  BY DEF CouponInv, TypeInv, TypeOK, RegsNameRows
<1>1. IdleReg.pc = "idle"
  BY DEF IdleReg
<1>2. ASSUME NEW c \in Coupons, NEW u \in Users, RegisterCoupon(s, c, u)
      PROVE  CouponInv'
  <2>1. PICK r : r = [pc |-> "select", coupon |-> c, user |-> u, count |-> 0]
    OBVIOUS
  <2>2. r.pc = "select"
    BY <2>1
  <2>3. RegTo(s, r) /\ UNCHANGED <<couponUsages, redeemed>>
    BY <1>2, <2>1 DEF RegisterCoupon
  <2> QED
    BY <2>2, <2>3, RegCoupon
<1>3. CASE RegTo(s, IdleReg) /\ UNCHANGED <<couponUsages, redeemed>>
  BY <1>1, <1>3, RegCoupon
<1>4. CASE TriggerSelect(s)
  <2>1. CASE RegTo(s, IdleReg)
    BY <1>3, <1>4, <2>1 DEF TriggerSelect
  <2>2. CASE ~ RegTo(s, IdleReg)
    <3>1. PICK c \in Coupons : c = reg[s].coupon /\ reg[s].pc = "select"
      BY <1>0, <1>4 DEF TriggerSelect
    <3>2. PICK r : r = [reg[s] EXCEPT !.pc = "update", !.count = couponUsages[c] + 1]
      OBVIOUS
    <3>3. r.pc = "update" /\ r.coupon = c /\ r.count = couponUsages[c] + 1
      BY <1>0, <3>1, <3>2 DEF Reg
    <3>4. RegTo(s, r) /\ UNCHANGED <<couponUsages, redeemed>>
      BY <1>4, <2>2, <3>1, <3>2 DEF TriggerSelect
    <3>5. couponUsages[c] + 1 <= Cardinality(Redeemers(c)) + 1
      <4>1. IsFiniteSet(Redeemers(c)) /\ couponUsages[c] <= Cardinality(Redeemers(c))
        BY DEF CouponInv, RedeemersFinite, CouponUsagesAreRedeemed
      <4>2. Cardinality(Redeemers(c)) \in Nat /\ couponUsages[c] \in Int
        BY <1>0, <4>1, FS_CardinalityType
      <4> QED
        BY <4>1, <4>2
    <3> QED
      BY <3>3, <3>4, <3>5, RegCoupon
  <2> QED
    BY <2>1, <2>2
<1>5. CASE TriggerUpdate(s)
  <2>1. CASE RegTo(s, IdleReg)
    BY <1>3, <1>5, <2>1 DEF TriggerUpdate
  <2>2. CASE ~ RegTo(s, IdleReg)
    <3>1. PICK r : r = [reg[s] EXCEPT !.pc = "commit"]
      OBVIOUS
    <3>2. /\ r.pc = "commit" /\ r.coupon = reg[s].coupon
          /\ r.user = reg[s].user /\ r.count = reg[s].count
      BY <1>0, <3>1 DEF Reg
    <3>3. RegTo(s, r) /\ UNCHANGED <<couponUsages, redeemed>>
      BY <1>5, <2>2, <3>1 DEF TriggerUpdate
    <3>4. /\ reg[s].pc = "update"
          /\ <<reg[s].coupon, reg[s].user>> \notin redeemed
          /\ ~ CouponLocked(reg[s].coupon)
      BY <1>5, <2>2 DEF TriggerUpdate
    <3>5. reg[s].count <= Cardinality(Redeemers(reg[s].coupon)) + 1
      BY <3>4 DEF CouponInv, CountsOneMore
    <3>6. /\ r.count <= Cardinality(Redeemers(r.coupon)) + 1
          /\ <<r.coupon, r.user>> \notin redeemed
          /\ ~ CouponLocked(r.coupon)
      BY <3>2, <3>4, <3>5, Zenon
    <3> QED
      BY <3>3, <3>6, RegCoupon
  <2> QED
    BY <2>1, <2>2
<1>6. CASE RedemptionFails(s)
  BY <1>3, <1>6 DEF RedemptionFails
<1> QED
  BY <1>2, <1>4, <1>5, <1>6 DEF Register

LEMMA CommitRedemptionCoupon ==
    ASSUME CouponInv, TypeInv', NEW s \in Shoppers, CommitRedemption(s)
    PROVE  CouponInv'
<1>0. /\ reg \in [Shoppers -> Reg] /\ reg[s] \in Reg /\ reg[s].pc = "commit"
      /\ couponUsages \in [Coupons -> Int]
      /\ reg[s].coupon \in Coupons /\ reg[s].user \in Users
  BY DEF CommitRedemption, CouponInv, TypeInv, TypeOK, RegsNameRows
<1>1. PICK c \in Coupons, u \in Users, n \in Int :
         c = reg[s].coupon /\ u = reg[s].user /\ n = reg[s].count
  BY <1>0 DEF Reg
<1>2. reg' = [reg EXCEPT ![s] = IdleReg]
  BY DEF CommitRedemption, RegTo
<1>3. reg'[s] = IdleReg /\ IdleReg.pc = "idle" /\ \A t \in Shoppers \ {s} : reg'[t] = reg[t]
  BY <1>0, <1>2, IdleRegType
<1>4. /\ couponUsages' = [couponUsages EXCEPT ![c] = n]
      /\ redeemed' = redeemed \cup {<<c, u>>}
  BY <1>1 DEF CommitRedemption
<1>5. u \notin Redeemers(c) /\ Redeemers(c)' = Redeemers(c) \cup {u}
  BY <1>0, <1>1, <1>4 DEF CouponInv, CommitsNew, Redeemers
<1>6. \A x \in Coupons \ {c} : Redeemers(x)' = Redeemers(x)
  BY <1>4 DEF Redeemers
<1>7. \A x \in Coupons : IsFiniteSet(Redeemers(x)) /\ Cardinality(Redeemers(x)) \in Nat
  BY FS_CardinalityType DEF CouponInv, RedeemersFinite
<1>8. /\ IsFiniteSet(Redeemers(c) \cup {u})
      /\ Cardinality(Redeemers(c) \cup {u}) = Cardinality(Redeemers(c)) + 1
  BY <1>5, <1>7, FS_AddElement
<1>9. RedeemersFinite'
  BY <1>5, <1>6, <1>7, <1>8 DEF RedeemersFinite
<1>10. CouponUsagesAreRedeemed'
  <2>1. n <= Cardinality(Redeemers(c)) + 1
    BY <1>0, <1>1 DEF CouponInv, CountsOneMore
  <2>2. couponUsages'[c] <= Cardinality(Redeemers(c)')
    <3>1. couponUsages'[c] = n
      BY <1>0, <1>4
    <3> QED
      BY <1>5, <1>8, <2>1, <3>1
  <2>3. ASSUME NEW x \in Coupons \ {c}
        PROVE  couponUsages'[x] <= Cardinality(Redeemers(x)')
    <3>1. couponUsages'[x] = couponUsages[x] /\ Redeemers(x)' = Redeemers(x)
      BY <1>0, <1>4, <1>6
    <3>2. couponUsages[x] <= Cardinality(Redeemers(x))
      BY DEF CouponInv, CouponUsagesAreRedeemed
    <3> QED
      BY <3>1, <3>2
  <2> QED
    BY <2>2, <2>3 DEF CouponUsagesAreRedeemed
<1>11. CountsOneMore'
  <2>1. SUFFICES ASSUME NEW t \in Shoppers, reg'[t].pc \in {"update", "commit"}
                 PROVE  reg'[t].count <= Cardinality(Redeemers(reg[t].coupon)') + 1
    BY DEF CountsOneMore
  <2>2. t # s /\ reg'[t] = reg[t]
    BY <1>3, <2>1
  <2>3. PICK x \in Coupons, m \in Int : x = reg[t].coupon /\ m = reg[t].count
    BY <2>1, <2>2 DEF CouponInv, TypeInv, TypeOK, RegsNameRows, Reg
  <2>4. m <= Cardinality(Redeemers(x)) + 1
    BY <2>1, <2>2, <2>3 DEF CouponInv, CountsOneMore
  <2>5. CASE x = c
    <3>1. m <= Cardinality(Redeemers(c) \cup {u}) + 1
      BY <1>7, <1>8, <2>4, <2>5
    <3>2. Redeemers(reg[t].coupon)' = Redeemers(c) \cup {u}
      BY <1>5, <2>2, <2>3, <2>5 DEF Redeemers
    <3> QED
      BY <2>2, <2>3, <3>1, <3>2, Zenon
  <2>6. CASE x # c
    <3>1. Redeemers(reg[t].coupon)' = Redeemers(x)
      BY <1>6, <2>2, <2>3, <2>6 DEF Redeemers
    <3> QED
      BY <2>2, <2>3, <2>4, <3>1, Zenon
  <2> QED
    BY <2>5, <2>6
<1>12. CommitsNew'
  <2>1. SUFFICES ASSUME NEW t \in Shoppers, reg'[t].pc = "commit"
                 PROVE  <<reg'[t].coupon, reg'[t].user>> \notin redeemed'
    BY DEF CommitsNew
  <2>2. t # s /\ reg'[t] = reg[t]
    BY <1>3, <2>1
  <2>3. reg[t].coupon # c
    BY <1>0, <1>1, <2>1, <2>2 DEF CouponInv, OneCommits
  <2>4. <<reg[t].coupon, reg[t].user>> \notin redeemed
    BY <2>1, <2>2 DEF CouponInv, CommitsNew
  <2> QED
    BY <1>4, <2>2, <2>3, <2>4
<1>13. OneCommits'
  BY <1>3 DEF CouponInv, OneCommits
<1> QED
  BY <1>9, <1>10, <1>11, <1>12, <1>13 DEF CouponInv

LEMMA CouponNext == CouponInv /\ [Next]_vars => CouponInv'
<1>1. SUFFICES ASSUME CouponInv, [Next]_vars PROVE CouponInv'
  OBVIOUS
<1>2. TypeInv'
  BY <1>1, TypeNext DEF CouponInv
<1>3. CASE UNCHANGED <<couponUsages, redeemed, reg>>
  BY <1>1, <1>2, <1>3, CouponFrame
<1>4. CASE UNCHANGED vars
  BY <1>3, <1>4 DEF vars, couponTable
<1>5. CASE Replicate \/ Create \/ \E o \in Orders : Reserved(o)
  BY <1>3, <1>5 DEF Replicate, RegisterUser, RegisterTarget, Create, CreateDiscount,
     CreateCoupon, Reserved, couponTable
<1>6. CASE \E e \in Editors : Update(e)
  BY <1>3, <1>6 DEF Update, UpdateStep, UpdateDiscount, UpdateCoupon, UpdateReferences,
     SaveDiscount, ReadAppliesTo, CommitUpdate, PublishUpdated, SaveCoupon, EditFails,
     EditStep
<1>7. CASE \E h \in Handlers : Validate(h)
  BY <1>3, <1>7 DEF Validate, ValidateStep, HandleReservationSucceeded, DiscountsByIDs,
     RemainingUsages, Refuse, UpsertDiscountUsage, DeadlockDetected,
     PublishValidationSucceeded, Commit, CommitUnanswered, CommitUsages,
     ValidateOrderFails, CallFails, PublishFailsLate, Dies, JobStep, couponTable
<1>8. CASE \E s \in Shoppers : Register(s)
  BY <1>1, <1>2, <1>8, RegStepsCoupon, CommitRedemptionCoupon
<1> QED
  BY <1>1, <1>4, <1>5, <1>6, <1>7, <1>8 DEF Next

(* A coupon is never counted as used more often than users have redeemed    *)
(* it, however redemptions interleave, are refused or fail: the trigger's   *)
(* update and the insert share a transaction, which holds the coupon's row. *)
THEOREM CouponsAreRedeemed == Spec => []CouponUsagesAreRedeemed
<1>1. Init => CouponInv
  <2> SUFFICES ASSUME Init PROVE CouponInv
    OBVIOUS
  <2>1. \A s \in Shoppers : reg[s].pc = "idle"
    BY DEF Init, IdleReg
  <2>2. \A c \in Coupons : Redeemers(c) = {} /\ couponUsages[c] = 0
    BY DEF Init, Redeemers
  <2>3. CouponUsagesAreRedeemed /\ RedeemersFinite
    BY <2>2, FS_EmptySet DEF CouponUsagesAreRedeemed, RedeemersFinite
  <2> QED
    BY <2>1, <2>3, TypeInit DEF CouponInv, CountsOneMore, CommitsNew, OneCommits
<1>2. CouponInv => CouponUsagesAreRedeemed
  BY DEF CouponInv
<1> QED
  BY <1>1, <1>2, CouponNext, PTL DEF Spec

-----------------------------------------------------------------------------
(* No item of an order is of less than nothing.                             *)
PositiveCounts ==
    \A o \in Orders : \A k \in DOMAIN Mentions[o] : Mentions[o][k].count >= 0

LEMMA TotalIsCount ==
    ASSUME PositiveCounts, NEW o \in Orders, NEW d \in Discounts
    PROVE  TotalByDiscount[o][d] \in Nat
<1>1. Counts(Asked(o, d), DOMAIN Mentions[o])
  <2>1. Mentions[o] \in Seq(Mention)
    BY DiscountAssumption
  <2>2. \A k \in DOMAIN Mentions[o] : Mentions[o][k].count \in Nat
    BY <2>1, Positions DEF PositiveCounts
  <2> QED
    BY <2>1, <2>2, Positions DEF Counts, Asked
<1> QED
  BY <1>1, SumCount, TotalIsSum

OrdersOf(u) == {o \in Orders : UserOf[o] = u}

LEMMA AnnouncedIsSum ==
    ASSUME TypeInv, NEW d \in Discounts, NEW u \in Users
    PROVE  /\ Announced(d, u) = SumOf(Taken(d), OrdersOf(u))
           /\ Amounts(Taken(d), OrdersOf(u))
           /\ Announced(d, u) \in Int
<1>1. Announced(d, u) = SumOf(Taken(d), OrdersOf(u))
  BY DEF Announced, SumOf, OrdersOf
<1>2. \A o \in Orders : Taken(d)[o] \in Int
  <2>1. \A o \in Orders : succeeded[o] \in Int /\ TotalByDiscount[o][d] \in Int
    BY Grouping DEF TypeInv, TypeOK
  <2>2. \A a, b \in Int : a * b \in Int
    OBVIOUS
  <2> QED
    BY <2>1, <2>2 DEF Taken
<1>3. IsFiniteSet(OrdersOf(u))
  BY DiscountAssumption, FS_Subset DEF OrdersOf
<1>4. Amounts(Taken(d), OrdersOf(u))
  BY <1>2, <1>3 DEF Amounts, OrdersOf
<1> QED
  BY <1>1, <1>4, SumRec

(* A validation that is announced takes what its order asks for.            *)
LEMMA AnnouncedGrows ==
    ASSUME TypeInv, TypeInv', NEW o \in Orders,
           succeeded' = [succeeded EXCEPT ![o] = @ + 1],
           NEW d \in Discounts, NEW u \in Users
    PROVE  Announced(d, u)' = IF UserOf[o] = u
                              THEN Announced(d, u) + TotalByDiscount[o][d]
                              ELSE Announced(d, u)
<1>1. PICK A, B : A = Taken(d) /\ B = Taken(d)'
  OBVIOUS
<1>2. Announced(d, u) = SumOf(A, OrdersOf(u)) /\ Amounts(A, OrdersOf(u))
  BY <1>1, AnnouncedIsSum
<1>3. Announced(d, u)' = SumOf(B, OrdersOf(u))
  <2>1. Announced(d, u)' = SumFunctionOnSet(Taken(d)', OrdersOf(u))
    BY DEF Announced, OrdersOf
  <2> QED
    BY <1>1, <2>1 DEF SumOf
<1>4. succeeded \in [Orders -> Nat] /\ TotalByDiscount[o][d] \in Int
  <2>1. succeeded \in [Orders -> Nat]
    BY DEF TypeInv, TypeOK
  <2> QED
    BY <2>1, Grouping
<1>5. \A x \in Orders \ {o} : A[x] = B[x]
  BY <1>1, <1>4 DEF Taken
<1>6. B[o] = A[o] + TotalByDiscount[o][d]
  <2>1. A[o] = succeeded[o] * TotalByDiscount[o][d]
    BY <1>1 DEF Taken
  <2>2. B[o] = (succeeded[o] + 1) * TotalByDiscount[o][d]
    BY <1>1, <1>4 DEF Taken
  <2>3. PICK n \in Int, t \in Int : n = succeeded[o] /\ t = TotalByDiscount[o][d]
    BY <1>4
  <2>4. (n + 1) * t = n * t + t
    OBVIOUS
  <2> QED
    BY <2>1, <2>2, <2>3, <2>4, Zenon
<1>7. CASE UserOf[o] = u
  <2>1. o \in OrdersOf(u) /\ \A x \in OrdersOf(u) \ {o} : A[x] = B[x]
    BY <1>5, <1>7 DEF OrdersOf
  <2>2. SumOf(B, OrdersOf(u)) = SumOf(A, OrdersOf(u)) + TotalByDiscount[o][d]
    BY <1>2, <1>4, <1>6, <2>1, SumGrows
  <2> QED
    BY <1>2, <1>3, <1>7, <2>2
<1>8. CASE UserOf[o] # u
  <2>1. \A x \in OrdersOf(u) : A[x] = B[x]
    BY <1>5, <1>8 DEF OrdersOf
  <2>2. SumOf(A, OrdersOf(u)) = SumOf(B, OrdersOf(u))
    BY <1>2, <2>1, SumSame
  <2> QED
    BY <1>2, <1>3, <1>8, <2>2
<1> QED
  BY <1>7, <1>8

LEMMA AnnouncedKept ==
    ASSUME UNCHANGED succeeded
    PROVE  \A d \in Discounts, u \in Users : Announced(d, u)' = Announced(d, u)
<1>1. ASSUME NEW d \in Discounts, NEW u \in Users
      PROVE  Announced(d, u)' = Announced(d, u)
  <2>1. Taken(d)' = Taken(d)
    BY DEF Taken
  <2> QED
    BY <2>1 DEF Announced
<1> QED
  BY <1>1

(* A row that a transaction is about to commit.                             *)
Commits(h, d, u) == job[h].pc = "commit" /\ <<d, u>> \in Written(h)

(* n usages account for what was announced, exactly if no call has failed.  *)
Accounted(n, d, u) ==
    n <= Announced(d, u) /\ (faults = 0 => n = Announced(d, u))

CommittedAccounts ==
    \A d \in Discounts, u \in Users :
        (\A h \in Handlers : ~ Commits(h, d, u)) => Accounted(usages[d][u], d, u)
CommittingAccounts ==
    \A h \in Handlers, d \in Discounts, u \in Users :
        Commits(h, d, u) =>
            Accounted(usages[d][u] + TotalByDiscount[job[h].order][d], d, u)

AnnouncedInv == LimitInv /\ CommittedAccounts /\ CommittingAccounts
(* A step that commits and announces nothing, and drops no commit.          *)
LEMMA AnnouncedFrame ==
    ASSUME AnnouncedInv, LimitInv', UNCHANGED <<usages, succeeded>>,
           faults' \in {faults, faults + 1},
           \A h \in Handlers, d \in Discounts, u \in Users :
               /\ Commits(h, d, u)' <=> Commits(h, d, u)
               /\ Commits(h, d, u) => job'[h].order = job[h].order
    PROVE  AnnouncedInv'
<1>1. faults \in Nat
  BY DEF AnnouncedInv, LimitInv, TypeInv, TypeOK
<1>2. faults' = 0 => faults = 0
  BY <1>1
<1>3. \A d \in Discounts, u \in Users : Announced(d, u)' = Announced(d, u)
  BY AnnouncedKept
<1>4. ASSUME NEW d \in Discounts, NEW u \in Users,
             \A h \in Handlers : ~ Commits(h, d, u)'
      PROVE  Accounted(usages[d][u], d, u)'
  <2>1. Accounted(usages[d][u], d, u)
    BY <1>4 DEF AnnouncedInv, CommittedAccounts
  <2> QED
    BY <1>2, <1>3, <2>1 DEF Accounted
<1>5. ASSUME NEW h \in Handlers, NEW d \in Discounts, NEW u \in Users, Commits(h, d, u)'
      PROVE  Accounted(usages[d][u] + TotalByDiscount[job[h].order][d], d, u)'
  <2>1. /\ Accounted(usages[d][u] + TotalByDiscount[job[h].order][d], d, u)
        /\ job'[h].order = job[h].order
    BY <1>5 DEF AnnouncedInv, CommittingAccounts
  <2> QED
    BY <1>2, <1>3, <2>1 DEF Accounted
<1> QED
  BY <1>4, <1>5 DEF AnnouncedInv, CommittedAccounts, CommittingAccounts

(* Facts of a step of handler h, about the commits of the others.           *)
LEMMA OtherCommits ==
    ASSUME TypeInv, NEW h \in Handlers, NEW j, JobTo(h, j)
    PROVE  /\ job'[h] = j
           /\ \A g \in Handlers \ {h} :
                 /\ job'[g] = job[g]
                 /\ \A d, u : Commits(g, d, u)' <=> Commits(g, d, u)
<1>1. job' = [job EXCEPT ![h] = j] /\ job \in [Handlers -> Job]
  BY DEF JobTo, TypeInv, TypeOK
<1>2. job'[h] = j /\ \A g \in Handlers \ {h} : job'[g] = job[g]
  BY <1>1
<1> QED
  BY <1>2 DEF Commits, Written

(* A step of handler h that neither commits nor announces, from a job that  *)
(* is not about to commit.                                                  *)
LEMMA WorkAnnounced ==
    ASSUME AnnouncedInv, LimitInv', NEW h \in Handlers, NEW j, JobTo(h, j),
           UNCHANGED <<usages, succeeded>>, faults' \in {faults, faults + 1},
           job[h].pc # "commit", j.pc # "commit"
    PROVE  AnnouncedInv'
<1>1. TypeInv
  BY DEF AnnouncedInv, LimitInv
<1>2. \A d, u : ~ Commits(h, d, u)' /\ ~ Commits(h, d, u)
  BY <1>1, OtherCommits DEF Commits
<1> QED
  BY <1>1, <1>2, OtherCommits, AnnouncedFrame

(* The transaction of h is lost: what it was about to commit was announced  *)
(* and stays free.                                                          *)
LEMMA LostAnnounced ==
    ASSUME PositiveCounts, AnnouncedInv, LimitInv', NEW h \in Handlers, NEW j, JobTo(h, j),
           UNCHANGED <<usages, succeeded>>, faults' = faults + 1, j.pc # "commit"
    PROVE  AnnouncedInv'
<1>1. TypeInv /\ TypeInv'
  BY DEF AnnouncedInv, LimitInv
<1>2. faults' # 0
  BY <1>1 DEF TypeInv, TypeOK
<1>3. \A d \in Discounts, u \in Users : Announced(d, u)' = Announced(d, u)
  BY AnnouncedKept
<1>4. \A d, u : ~ Commits(h, d, u)'
  BY <1>1, OtherCommits DEF Commits
<1>5. ASSUME NEW d \in Discounts, NEW u \in Users,
             \A g \in Handlers : ~ Commits(g, d, u)'
      PROVE  usages[d][u] <= Announced(d, u)
  <2>1. \A g \in Handlers \ {h} : ~ Commits(g, d, u)
    BY <1>1, <1>5, OtherCommits
  <2>2. CASE ~ Commits(h, d, u)
    BY <2>1, <2>2 DEF AnnouncedInv, CommittedAccounts, Accounted
  <2>3. CASE Commits(h, d, u)
    <3>1. usages[d][u] + TotalByDiscount[job[h].order][d] <= Announced(d, u)
      BY <2>3 DEF AnnouncedInv, CommittingAccounts, Accounted
    <3>2. job[h].order \in Orders
      BY <1>1, <2>3 DEF Commits, TypeInv, TypeOK, JobsHaveOrders
    <3>3. TotalByDiscount[job[h].order][d] \in Nat /\ usages[d][u] \in Int
      BY <1>1, <3>2, TotalIsCount DEF TypeInv, TypeOK
    <3>4. Announced(d, u) \in Int
      BY <1>1, AnnouncedIsSum
    <3> QED
      BY <3>1, <3>3, <3>4
  <2> QED
    BY <2>2, <2>3
<1>6. CommittedAccounts'
  BY <1>2, <1>3, <1>5 DEF CommittedAccounts, Accounted
<1>7. ASSUME NEW g \in Handlers, NEW d \in Discounts, NEW u \in Users, Commits(g, d, u)'
      PROVE  Accounted(usages[d][u] + TotalByDiscount[job[g].order][d], d, u)'
  <2>1. g # h /\ Commits(g, d, u) /\ job'[g] = job[g]
    BY <1>1, <1>4, <1>7, OtherCommits
  <2>2. Accounted(usages[d][u] + TotalByDiscount[job[g].order][d], d, u)
    BY <2>1 DEF AnnouncedInv, CommittingAccounts
  <2> QED
    BY <1>2, <1>3, <2>1, <2>2 DEF Accounted
<1> QED
  BY <1>6, <1>7 DEF AnnouncedInv, CommittingAccounts

(* A publish that reached the broker and failed for the caller.             *)
LEMMA LateAnnounced ==
    ASSUME PositiveCounts, AnnouncedInv, LimitInv', NEW h \in Handlers, PublishFailsLate(h)
    PROVE  AnnouncedInv'
<1>1. TypeInv /\ TypeInv'
  BY DEF AnnouncedInv, LimitInv
<1>2. job[h] \in Job /\ job[h].pc = "upsert" /\ job[h].order \in Orders
  BY <1>1 DEF PublishFailsLate, TypeInv, TypeOK, JobsHaveOrders
<1>3. PICK o \in Orders : o = job[h].order
  BY <1>2
<1>4. PICK j : j = [job[h] EXCEPT !.pc = "catch"]
  OBVIOUS
<1>5. j.pc = "catch" /\ JobTo(h, j)
  BY <1>2, <1>4 DEF Job, PublishFailsLate
<1>6. /\ succeeded' = [succeeded EXCEPT ![o] = @ + 1]
      /\ UNCHANGED usages /\ faults' = faults + 1
  BY <1>3 DEF PublishFailsLate, Fault
<1>7. faults' # 0
  BY <1>1, <1>6 DEF TypeInv, TypeOK
<1>8. \A d \in Discounts, u \in Users : Announced(d, u) <= Announced(d, u)'
  <2> SUFFICES ASSUME NEW d \in Discounts, NEW u \in Users
               PROVE  Announced(d, u) <= Announced(d, u)'
    OBVIOUS
  <2>1. PICK a \in Int, t \in Nat : a = Announced(d, u) /\ t = TotalByDiscount[o][d]
    BY <1>1, AnnouncedIsSum, TotalIsCount
  <2>2. Announced(d, u)' = IF UserOf[o] = u THEN a + t ELSE a
    BY <1>1, <1>6, <2>1, AnnouncedGrows
  <2> QED
    BY <2>1, <2>2
<1>9. \A d \in Discounts, u \in Users : Announced(d, u) \in Int /\ Announced(d, u)' \in Int
  <2>1. \A d \in Discounts, u \in Users : Announced(d, u) \in Int
    BY <1>1, AnnouncedIsSum
  <2>2. ASSUME NEW d \in Discounts, NEW u \in Users PROVE Announced(d, u)' \in Int
    <3>1. Announced(d, u)' = IF UserOf[o] = u THEN Announced(d, u) + TotalByDiscount[o][d]
                             ELSE Announced(d, u)
      BY <1>1, <1>6, AnnouncedGrows
    <3>2. TotalByDiscount[o][d] \in Int
      BY Grouping
    <3> QED
      BY <2>1, <3>1, <3>2
  <2> QED
    BY <2>1, <2>2
<1>10. \A g \in Handlers : \A d, u : Commits(g, d, u)' <=> Commits(g, d, u)
  BY <1>1, <1>2, <1>5, OtherCommits DEF Commits
<1>11. \A g \in Handlers : \A d, u : Commits(g, d, u)' => job'[g] = job[g]
  BY <1>1, <1>2, <1>5, OtherCommits DEF Commits
<1>12. usages \in [Discounts -> [Users -> Int]]
  BY <1>1 DEF TypeInv, TypeOK
<1>13. ASSUME NEW d \in Discounts, NEW u \in Users,
              \A g \in Handlers : ~ Commits(g, d, u)'
       PROVE  usages[d][u] <= Announced(d, u)'
  <2>1. usages[d][u] <= Announced(d, u)
    BY <1>10, <1>13 DEF AnnouncedInv, CommittedAccounts, Accounted
  <2> QED
    BY <1>8, <1>9, <1>12, <2>1
<1>14. ASSUME NEW g \in Handlers, NEW d \in Discounts, NEW u \in Users, Commits(g, d, u)'
       PROVE  usages[d][u] + TotalByDiscount[job[g].order][d] <= Announced(d, u)'
  <2>1. usages[d][u] + TotalByDiscount[job[g].order][d] <= Announced(d, u)
    BY <1>10, <1>14 DEF AnnouncedInv, CommittingAccounts, Accounted
  <2>2. TotalByDiscount[job[g].order][d] \in Int
    <3>1. job[g].order \in Orders
      BY <1>1, <1>10, <1>14 DEF Commits, TypeInv, TypeOK, JobsHaveOrders
    <3> QED
      BY <3>1, Grouping
  <2> QED
    BY <1>8, <1>9, <1>12, <2>1, <2>2
<1>15. CommittedAccounts'
  BY <1>6, <1>7, <1>13 DEF CommittedAccounts, Accounted
<1>16. CommittingAccounts'
  BY <1>6, <1>7, <1>11, <1>14 DEF CommittingAccounts, Accounted
<1> QED
  BY <1>15, <1>16 DEF AnnouncedInv
(* The success of an order is announced when all its rows are written, and  *)
(* nobody else is about to commit one of them.                              *)
LEMMA PublishAnnounced ==
    ASSUME AnnouncedInv, LimitInv', NEW h \in Handlers, PublishValidationSucceeded(h)
    PROVE  AnnouncedInv'
<1>1. TypeInv /\ TypeInv' /\ WrittenOnce
  BY DEF AnnouncedInv, LimitInv
<1>2. /\ job[h] \in Job /\ job[h].pc = "upsert" /\ job[h].order \in Orders
      /\ job[h].next \in 1 .. Len(DiscountOrder[job[h].order]) + 1
  BY <1>1 DEF PublishValidationSucceeded, TypeInv, TypeOK, JobsHaveOrders
<1>3. PICK o \in Orders : o = job[h].order
  BY <1>2
<1>4. PICK j : j = [job[h] EXCEPT !.pc = "commit"]
  OBVIOUS
<1>5. j.pc = "commit" /\ j.order = o /\ j.next = job[h].next /\ JobTo(h, j)
  BY <1>2, <1>3, <1>4 DEF Job, PublishValidationSucceeded
<1>6. /\ succeeded' = [succeeded EXCEPT ![o] = @ + 1]
      /\ UNCHANGED <<usages, faults>>
  BY <1>3 DEF PublishValidationSucceeded, NoFault
<1>7. /\ job'[h] = j
      /\ \A g \in Handlers \ {h} : job'[g] = job[g]
      /\ \A g \in Handlers \ {h} : \A d, u : Commits(g, d, u)' <=> Commits(g, d, u)
  BY <1>1, <1>5, OtherCommits
<1>8. DiscountOrder[o] \in Seq(Discounts) /\ UserOf[o] \in Users
  BY Grouping, DiscountAssumption
<1>9. Written(h)' = Written(h)
  BY <1>2, <1>3, <1>5, <1>7 DEF Written
<1>10. Written(h) = {<<d, UserOf[o]>> : d \in ToSet(DiscountOrder[o])}
  <2>1. job[h].next = Len(DiscountOrder[o]) + 1
    BY <1>2, <1>3, <1>8 DEF PublishValidationSucceeded, MoreUpserts
  <2>2. Written(h) = {<<DiscountOrder[o][i], UserOf[o]>> : i \in 1 .. job[h].next - 1}
    BY <1>2, <1>3 DEF Written
  <2>3. 1 .. job[h].next - 1 = DOMAIN DiscountOrder[o]
    BY <1>8, <2>1
  <2> QED
    BY <2>2, <2>3 DEF ToSet
<1>11. \A d \in Discounts, u \in Users :
          Commits(h, d, u)' <=> d \in ToSet(DiscountOrder[o]) /\ u = UserOf[o]
  BY <1>5, <1>7, <1>9, <1>10 DEF Commits
<1>12. \A d \in Discounts, u \in Users : ~ Commits(h, d, u)
  BY <1>2 DEF Commits
<1>13. ASSUME NEW d \in Discounts, NEW u \in Users,
              ~ (d \in ToSet(DiscountOrder[o]) /\ u = UserOf[o])
       PROVE  Announced(d, u)' = Announced(d, u)
  <2>1. Announced(d, u)' = IF UserOf[o] = u THEN Announced(d, u) + TotalByDiscount[o][d]
                           ELSE Announced(d, u)
    BY <1>1, <1>6, AnnouncedGrows
  <2>2. u = UserOf[o] => TotalByDiscount[o][d] = 0
    BY <1>13, UnnamedIsZero
  <2>3. PICK a \in Int : a = Announced(d, u)
    BY <1>1, AnnouncedIsSum
  <2>4. a + 0 = a
    OBVIOUS
  <2> QED
    BY <2>1, <2>2, <2>3, <2>4, Zenon
<1>14. ASSUME NEW d \in Discounts, NEW u \in Users,
              \A g \in Handlers : ~ Commits(g, d, u)'
       PROVE  Accounted(usages[d][u], d, u)'
  <2>1. Accounted(usages[d][u], d, u)
    BY <1>7, <1>12, <1>14 DEF AnnouncedInv, CommittedAccounts
  <2>2. Announced(d, u)' = Announced(d, u)
    BY <1>11, <1>13, <1>14
  <2> QED
    BY <1>6, <2>1, <2>2 DEF Accounted
<1>15. ASSUME NEW g \in Handlers, NEW d \in Discounts, NEW u \in Users, Commits(g, d, u)'
       PROVE  Accounted(usages[d][u] + TotalByDiscount[job[g].order][d], d, u)'
  <2>1. CASE g # h
    <3>1. Commits(g, d, u) /\ job'[g] = job[g]
      BY <1>7, <1>15, <2>1
    <3>2. Accounted(usages[d][u] + TotalByDiscount[job[g].order][d], d, u)
      BY <3>1 DEF AnnouncedInv, CommittingAccounts
    <3>3. <<d, u>> \notin Written(h)
      BY <1>1, <2>1, <3>1 DEF Commits, WrittenOnce
    <3>4. Announced(d, u)' = Announced(d, u)
      BY <1>10, <1>13, <3>3
    <3> QED
      BY <1>6, <3>1, <3>2, <3>4 DEF Accounted
  <2>2. CASE g = h
    <3>1. d \in ToSet(DiscountOrder[o]) /\ u = UserOf[o] /\ <<d, u>> \in Written(h)
      BY <1>10, <1>11, <1>15, <2>2
    <3>2. \A f \in Handlers : ~ Commits(f, d, u)
      BY <1>1, <1>12, <3>1 DEF Commits, WrittenOnce
    <3>3. Accounted(usages[d][u], d, u)
      BY <3>2 DEF AnnouncedInv, CommittedAccounts
    <3>4. PICK a \in Int, t \in Int, n \in Int :
             a = Announced(d, u) /\ t = TotalByDiscount[o][d] /\ n = usages[d][u]
      BY <1>1, AnnouncedIsSum, Grouping DEF TypeInv, TypeOK
    <3>5. Announced(d, u)' = a + t
      BY <1>1, <1>6, <3>1, <3>4, AnnouncedGrows
    <3>6. n <= a /\ (faults = 0 => n = a)
      BY <3>3, <3>4 DEF Accounted
    <3>7. n + t <= a + t /\ (faults = 0 => n + t = a + t)
      BY <3>6
    <3>8. usages'[d][u] + TotalByDiscount[job'[g].order][d] = n + t
      BY <1>5, <1>6, <1>7, <2>2, <3>4
    <3> QED
      BY <1>6, <3>5, <3>7, <3>8 DEF Accounted
  <2> QED
    BY <2>1, <2>2
<1> QED
  BY <1>14, <1>15 DEF AnnouncedInv, CommittedAccounts, CommittingAccounts

LEMMA CommitAnnounced ==
    ASSUME AnnouncedInv, LimitInv', NEW h \in Handlers, Commit(h) \/ CommitUnanswered(h)
    PROVE  AnnouncedInv'
<1>1. TypeInv /\ TypeInv' /\ WrittenOnce
  BY DEF AnnouncedInv, LimitInv
<1>2. /\ CommitUsages(h) /\ job[h].pc = "commit" /\ UNCHANGED succeeded
      /\ faults' = 0 => faults = 0
  BY <1>1 DEF Commit, CommitUnanswered, CommitUsages, NoFault, Fault, TypeInv, TypeOK
<1>j. PICK j : JobTo(h, j) /\ j \in {IdleJob, [job[h] EXCEPT !.pc = "catch"]}
  BY DEF Commit, CommitUnanswered
<1>k. j.pc # "commit"
  <2>1. job[h] \in Job
    BY <1>1 DEF TypeInv, TypeOK
  <2> QED
    BY <2>1, <1>j, IdleJobType DEF Job
<1>3. /\ job'[h] = j
      /\ \A g \in Handlers \ {h} : job'[g] = job[g]
      /\ \A g \in Handlers \ {h} : \A d, u : Commits(g, d, u)' <=> Commits(g, d, u)
  BY <1>1, <1>2, <1>j, <1>k, OtherCommits
<1>4. \A d, u : ~ Commits(h, d, u)'
  BY <1>3, <1>k DEF Commits
<1>5. \A d \in Discounts, u \in Users : Announced(d, u)' = Announced(d, u)
  BY <1>2, AnnouncedKept
<1>6. \A d \in Discounts, u \in Users :
         usages'[d][u] = IF <<d, u>> \in Written(h)
                         THEN usages[d][u] + TotalByDiscount[job[h].order][d]
                         ELSE usages[d][u]
  BY <1>2 DEF CommitUsages
<1>7. ASSUME NEW d \in Discounts, NEW u \in Users,
             \A g \in Handlers : ~ Commits(g, d, u)'
      PROVE  Accounted(usages[d][u], d, u)'
  <2>1. CASE <<d, u>> \in Written(h)
    <3>1. Accounted(usages[d][u] + TotalByDiscount[job[h].order][d], d, u)
      BY <1>2, <2>1 DEF AnnouncedInv, CommittingAccounts, Commits
    <3> QED
      BY <1>2, <1>5, <1>6, <2>1, <3>1 DEF Accounted
  <2>2. CASE <<d, u>> \notin Written(h)
    <3>1. \A g \in Handlers : ~ Commits(g, d, u)
      BY <1>3, <1>7, <2>2 DEF Commits
    <3>2. Accounted(usages[d][u], d, u)
      BY <3>1 DEF AnnouncedInv, CommittedAccounts
    <3> QED
      BY <1>2, <1>5, <1>6, <2>2, <3>2 DEF Accounted
  <2> QED
    BY <2>1, <2>2
<1>8. ASSUME NEW g \in Handlers, NEW d \in Discounts, NEW u \in Users, Commits(g, d, u)'
      PROVE  Accounted(usages[d][u] + TotalByDiscount[job[g].order][d], d, u)'
  <2>1. g # h /\ Commits(g, d, u) /\ job'[g] = job[g]
    BY <1>3, <1>4, <1>8
  <2>2. Accounted(usages[d][u] + TotalByDiscount[job[g].order][d], d, u)
    BY <2>1 DEF AnnouncedInv, CommittingAccounts
  <2>3. usages'[d][u] = usages[d][u]
    BY <1>1, <1>6, <2>1 DEF Commits, WrittenOnce
  <2> QED
    BY <1>2, <1>5, <2>1, <2>2, <2>3 DEF Accounted
<1> QED
  BY <1>7, <1>8 DEF AnnouncedInv, CommittedAccounts, CommittingAccounts

LEMMA ValidateAnnounced ==
    ASSUME PositiveCounts, AnnouncedInv, LimitInv', NEW h \in Handlers, Validate(h)
    PROVE  AnnouncedInv'
<1>1. job[h] \in Job
  BY DEF AnnouncedInv, LimitInv, TypeInv, TypeOK
<1>2. IdleJob.pc # "commit"
  BY DEF IdleJob
<1>3. ASSUME NEW o \in Orders, HandleReservationSucceeded(h, o) PROVE AnnouncedInv'
  <2>1. PICK j : j = [IdleJob EXCEPT !.pc = "discounts", !.order = o]
    OBVIOUS
  <2>2. j.pc = "discounts"
    BY <2>1 DEF IdleJob
  <2>3. /\ JobTo(h, j) /\ job[h].pc = "idle" /\ UNCHANGED <<usages, succeeded>>
        /\ faults' \in {faults, faults + 1}
    BY <1>3, <2>1 DEF HandleReservationSucceeded, NoFault
  <2> QED
    BY <2>2, <2>3, WorkAnnounced
<1>4. CASE DiscountsByIDs(h)
  <2>1. PICK j : j = [job[h] EXCEPT !.pc = "usages", !.read = limit]
    OBVIOUS
  <2>2. j.pc = "usages"
    BY <1>1, <2>1 DEF Job
  <2>3. /\ JobTo(h, j) /\ job[h].pc = "discounts" /\ UNCHANGED <<usages, succeeded>>
        /\ faults' \in {faults, faults + 1}
    BY <1>4, <2>1 DEF DiscountsByIDs, NoFault
  <2> QED
    BY <2>2, <2>3, WorkAnnounced
<1>5. CASE RemainingUsages(h)
  <2>1. PICK p \in {"refuse", "upsert"} : JobTo(h, [job[h] EXCEPT !.pc = p])
    BY <1>5 DEF RemainingUsages
  <2>2. PICK j : j = [job[h] EXCEPT !.pc = p]
    OBVIOUS
  <2>3. j.pc = p /\ JobTo(h, j)
    BY <1>1, <2>1, <2>2 DEF Job
  <2>4. /\ job[h].pc = "usages" /\ UNCHANGED <<usages, succeeded>>
        /\ faults' \in {faults, faults + 1}
    BY <1>5 DEF RemainingUsages, NoFault
  <2> QED
    BY <2>1, <2>3, <2>4, WorkAnnounced
<1>6. CASE Refuse(h)
  <2>1. /\ JobTo(h, IdleJob) /\ job[h].pc = "refuse" /\ UNCHANGED <<usages, succeeded>>
        /\ faults' \in {faults, faults + 1}
    BY <1>6 DEF Refuse, NoFault
  <2> QED
    BY <1>2, <2>1, WorkAnnounced
<1>7. CASE UpsertDiscountUsage(h)
  <2>0. /\ job[h].pc = "upsert" /\ UNCHANGED <<usages, succeeded>>
        /\ faults' \in {faults, faults + 1}
    BY <1>7 DEF UpsertDiscountUsage, MoreUpserts, NoFault
  <2>1. PICK j : JobTo(h, j) /\ j \in {[job[h] EXCEPT !.next = @ + 1],
                                       [job[h] EXCEPT !.pc = "catch"]}
    BY <1>7 DEF UpsertDiscountUsage
  <2>2. j.pc # "commit"
    BY <1>1, <2>0, <2>1 DEF Job
  <2> QED
    BY <2>0, <2>1, <2>2, WorkAnnounced
<1>8. CASE DeadlockDetected(h)
  <2>0. /\ job[h].pc = "upsert" /\ UNCHANGED <<usages, succeeded>>
        /\ faults' \in {faults, faults + 1}
    BY <1>8 DEF DeadlockDetected, WaitsFor, MoreUpserts, NoFault
  <2>1. PICK j : j = [job[h] EXCEPT !.pc = "catch"]
    OBVIOUS
  <2>2. j.pc = "catch" /\ JobTo(h, j)
    BY <1>1, <1>8, <2>1 DEF Job, DeadlockDetected
  <2> QED
    BY <2>0, <2>2, WorkAnnounced
<1>9. CASE CallFails(h)
  <2>1. PICK j : j = [job[h] EXCEPT !.pc = "catch"]
    OBVIOUS
  <2>2. /\ j.pc = "catch" /\ JobTo(h, j) /\ UNCHANGED <<usages, succeeded>>
        /\ faults' = faults + 1
    BY <1>1, <1>9, <2>1 DEF Job, CallFails, Fault
  <2> QED
    BY <2>2, LostAnnounced
<1>10. CASE Dies(h)
  <2>1. JobTo(h, IdleJob) /\ UNCHANGED <<usages, succeeded>> /\ faults' = faults + 1
    BY <1>10 DEF Dies, Fault
  <2> QED
    BY <1>2, <2>1, LostAnnounced
<1>11. CASE ValidateOrderFails(h)
  <2>1. /\ JobTo(h, IdleJob) /\ job[h].pc = "catch" /\ UNCHANGED <<usages, succeeded>>
        /\ faults' \in {faults, faults + 1}
    BY <1>11 DEF ValidateOrderFails, NoFault, Fault
  <2> QED
    BY <1>2, <2>1, WorkAnnounced
<1> QED
  BY <1>3, <1>4, <1>5, <1>6, <1>7, <1>8, <1>9, <1>10, <1>11, LateAnnounced,
     PublishAnnounced, CommitAnnounced DEF Validate, ValidateStep

(* The other steps leave the handlers, the usages and the announcements.    *)
LEMMA OthersAnnounced ==
    ASSUME AnnouncedInv, LimitInv', UNCHANGED <<job, usages, succeeded>>,
           faults' \in {faults, faults + 1}
    PROVE  AnnouncedInv'
<1>1. \A h \in Handlers, d \in Discounts, u \in Users :
         /\ Commits(h, d, u)' <=> Commits(h, d, u)
         /\ Commits(h, d, u) => job'[h].order = job[h].order
  BY DEF Commits, Written
<1> QED
  BY <1>1, AnnouncedFrame

LEMMA AnnouncedNext ==
    ASSUME PositiveCounts, AnnouncedInv, [Next]_vars
    PROVE  AnnouncedInv'
<1>1. LimitInv'
  BY LimitNext DEF AnnouncedInv
<1>2. CASE UNCHANGED <<job, usages, succeeded>> /\ faults' \in {faults, faults + 1}
  BY <1>1, <1>2, OthersAnnounced
<1>3. CASE UNCHANGED vars
  BY <1>2, <1>3 DEF vars, messages, bounds
<1>4. CASE Replicate \/ Create \/ \E o \in Orders : Reserved(o)
  BY <1>2, <1>4 DEF Replicate, RegisterUser, RegisterTarget, Create, CreateDiscount,
     CreateCoupon, Reserved, messages, bounds
<1>5. CASE \E e \in Editors : Update(e)
  BY <1>2, <1>5 DEF Update, UpdateStep, UpdateDiscount, UpdateCoupon, UpdateReferences,
     SaveDiscount, ReadAppliesTo, CommitUpdate, PublishUpdated, SaveCoupon, EditFails,
     EditStep, messages, NoFault, Fault
<1>6. CASE \E s \in Shoppers : Register(s)
  BY <1>2, <1>6 DEF Register, RegisterCoupon, TriggerSelect, TriggerUpdate,
     CommitRedemption, RedemptionFails, RegStep, messages, NoFault, Fault
<1>7. CASE \E h \in Handlers : Validate(h)
  BY <1>1, <1>7, ValidateAnnounced
<1> QED
  BY <1>3, <1>4, <1>5, <1>6, <1>7 DEF Next

LEMMA AnnouncedInit == ASSUME Init PROVE AnnouncedInv
<1>1. LimitInv /\ TypeInv
  BY LimitInit DEF LimitInv
<1>2. \A h \in Handlers, d \in Discounts, u \in Users : ~ Commits(h, d, u)
  BY DEF Init, Commits, IdleJob
<1>3. ASSUME NEW d \in Discounts, NEW u \in Users
      PROVE  Announced(d, u) = 0 /\ usages[d][u] = 0
  <2>1. \A o \in Orders : Taken(d)[o] = 0
    <3>1. \A o \in Orders : TotalByDiscount[o][d] \in Int /\ succeeded[o] = 0
      BY Grouping DEF Init
    <3>2. \A t \in Int : 0 * t = 0
      OBVIOUS
    <3> QED
      BY <3>1, <3>2 DEF Taken
  <2>2. IsFiniteSet(OrdersOf(u)) /\ \A o \in OrdersOf(u) : Taken(d)[o] = 0
    BY <1>1, <2>1, AnnouncedIsSum DEF Amounts, OrdersOf
  <2>3. SumOf(Taken(d), OrdersOf(u)) = 0
    BY <2>2, SumZero
  <2>4. usages[d][u] = 0
    BY DEF Init
  <2> QED
    BY <1>1, <2>3, <2>4, AnnouncedIsSum
<1> QED
  BY <1>1, <1>2, <1>3 DEF AnnouncedInv, CommittedAccounts, CommittingAccounts, Accounted

LEMMA AnnouncedMatches == ASSUME PositiveCounts, AnnouncedInv PROVE UsagesMatchAnnounced
<1>1. TypeInv
  BY DEF AnnouncedInv, LimitInv
<1>2. UsagesAreAnnounced
  <2> SUFFICES ASSUME NEW d \in Discounts, NEW u \in Users
               PROVE  usages[d][u] <= Announced(d, u)
    BY DEF UsagesAreAnnounced
  <2>1. CASE \A h \in Handlers : ~ Commits(h, d, u)
    BY <2>1 DEF AnnouncedInv, CommittedAccounts, Accounted
  <2>2. ASSUME NEW h \in Handlers, Commits(h, d, u)
        PROVE  usages[d][u] <= Announced(d, u)
    <3>1. job[h].order \in Orders
      BY <1>1, <2>2 DEF Commits, TypeInv, TypeOK, JobsHaveOrders
    <3>2. PICK a \in Int, t \in Nat, n \in Int :
             /\ a = Announced(d, u) /\ n = usages[d][u]
             /\ t = TotalByDiscount[job[h].order][d]
      <4>1. usages[d][u] \in Int
        BY <1>1 DEF TypeInv, TypeOK
      <4> QED
        BY <1>1, <3>1, <4>1, AnnouncedIsSum, TotalIsCount
    <3>3. n + t <= a
      BY <2>2, <3>2 DEF AnnouncedInv, CommittingAccounts, Accounted
    <3> QED
      BY <3>2, <3>3
  <2> QED
    BY <2>1, <2>2
<1>3. AnnouncedIsRecorded
  BY DEF AnnouncedInv, CommittedAccounts, Accounted, AnnouncedIsRecorded, Commits
<1> QED
  BY <1>2, <1>3 DEF UsagesMatchAnnounced

(* Usages are taken from a user only for orders whose validation was        *)
(* announced as succeeded, whichever call fails; and as long as none does,  *)
(* what was announced is recorded once its transaction has ended.  For      *)
(* orders no item of which is of less than nothing: an order of -1 that was *)
(* announced and rolled back would account for less than was recorded.      *)
THEOREM UsagesAccounted == ASSUME PositiveCounts PROVE Spec => []UsagesMatchAnnounced
<1>1. Init => AnnouncedInv
  BY AnnouncedInit
<1>2. AnnouncedInv /\ [Next]_vars => AnnouncedInv'
  BY AnnouncedNext
<1>3. AnnouncedInv => UsagesMatchAnnounced
  BY AnnouncedMatches
<1> QED
  BY <1>1, <1>2, <1>3, PTL DEF Spec
=============================================================================
