------------------------------ MODULE Discount ------------------------------
(***************************************************************************)
(* The discount service: discounts with a limit of usages per user, the    *)
(* coupons that unlock them, and the step of the order saga that checks    *)
(* the discounts of a reserved order and records their usages.             *)
(*                                                                         *)
(* Every call is a Postgres transaction under READ COMMITTED: a statement  *)
(* sees what was committed when it started, a written row stays locked     *)
(* until the transaction ends, and a second writer of it waits.  A step    *)
(* here is one statement, so transactions interleave between statements.   *)
(* What a transaction has written and not committed is kept in its job.    *)
(*                                                                         *)
(* Left out: names, percentages, validity windows and minimum amounts.     *)
(* Whether a coupon's window contains the time of a call is up to the      *)
(* clock; a call outside it is refused before it writes, and so are the    *)
(* other refusals that only answer the caller.                             *)
(***************************************************************************)
EXTENDS Integers, Sequences, FiniteSets, SequencesExt

CONSTANTS
    Users, Discounts, Coupons, Orders,
    Targets,       \* the products, variants and categories of the catalog
    Handlers,      \* deliveries of reservation-succeeded in progress
    Editors,       \* updateDiscount and updateCoupon requests in progress
    Shoppers,      \* registerCoupon requests in progress
    Limits,        \* the limits employees set
    Seed,          \* Seed[d]: limit of a discount created before the start
    UserOf,        \* UserOf[o]: the user of an order
    Mentions,      \* Mentions[o]: the discounts named by the items of an order,
                   \* one after the other, each with the count of its item
    Null,          \* SQL NULL: no limit
    Keep,          \* a field the update does not name
    MaxUpdates,    \* bound: updates that commit
    MaxRepeats,    \* bound: deliveries that repeat one already acknowledged
    MaxFaults      \* bound: calls that fail

Mention == [discount : Discounts, count : Int]

ASSUME DiscountAssumption ==
    /\ UserOf \in [Orders -> Users]
    /\ IsFiniteSet(Orders)
    /\ Mentions \in [Orders -> Seq(Mention)]
    /\ Limits \subseteq Int
    /\ DOMAIN Seed \subseteq Discounts
    /\ \A d \in DOMAIN Seed : Seed[d] \in Int \cup {Null}
    /\ Null \notin Int /\ Keep \notin Int
    /\ MaxUpdates \in Nat /\ MaxRepeats \in Nat /\ MaxFaults \in Nat

VARIABLES
    users, targets, \* replicas of the users and of the catalog
    discounts,      \* discounts created
    limit,          \* limit[d]: maxusagesperuser
    applies,        \* applies[d]: rows of the three join tables of d
    usages,         \* usages[d][u]: usages, 0 when there is no row
    coupons,        \* coupons created
    couponMax,      \* couponMax[c]: maxusages
    couponUsages,   \* couponUsages[c]: usages
    redeemed,       \* pairs of a coupon and a user: the redemptions
    job,            \* job[h]: the delivery h handles
    edit,           \* edit[e]: the update e makes
    reg,            \* reg[s]: the redemption s makes
    inbox,          \* orders whose reservation-succeeded waits for delivery
    reserved,       \* orders whose reservation was announced
    succeeded,      \* succeeded[o]: validation-succeeded sent for o
    failed,         \* orders with a validation-failed
    limits,         \* history: limits[d], every limit d has had
    updates, repeats, faults

replicas == <<users, targets>>
discountTable == <<discounts, limit, applies, limits>>
couponTable == <<coupons, couponMax, couponUsages, redeemed>>
messages == <<inbox, reserved, succeeded, failed>>
bounds == <<updates, repeats, faults>>
vars == <<replicas, discountTable, usages, couponTable, job, edit, reg,
          messages, bounds>>

Limit == Int \cup {Null}

Job == [pc : {"idle", "discounts", "usages", "refuse", "upsert", "commit", "catch"},
        order : Orders \cup {Null}, next : Nat, read : [Discounts -> Limit]]
IdleJob == [pc |-> "idle", order |-> Null, next |-> 1,
            read |-> [d \in Discounts |-> Null]]

Edit == [pc : {"idle", "refs", "save", "reread", "commit", "announce", "coupon"},
         id : Discounts \cup Coupons \cup {Null}, limit : Limit,
         add : SUBSET Targets, remove : SUBSET Targets, payload : SUBSET Targets]
IdleEdit == [pc |-> "idle", id |-> Null, limit |-> Null,
             add |-> {}, remove |-> {}, payload |-> {}]

Reg == [pc : {"idle", "select", "update", "commit"},
        coupon : Coupons \cup {Null}, user : Users \cup {Null}, count : Int]
IdleReg == [pc |-> "idle", coupon |-> Null, user |-> Null, count |-> 0]

(* The state keeps its type.                                                *)
TypeOK ==
    /\ users \subseteq Users /\ targets \subseteq Targets
    /\ discounts \subseteq Discounts /\ coupons \subseteq Coupons
    /\ limit \in [Discounts -> Limit]
    /\ limits \in [Discounts -> SUBSET Limit]
    /\ applies \in [Discounts -> SUBSET Targets]
    /\ usages \in [Discounts -> [Users -> Int]]
    /\ couponMax \in [Coupons -> Limit]
    /\ couponUsages \in [Coupons -> Int]
    /\ redeemed \subseteq Coupons \X Users
    /\ job \in [Handlers -> Job]
    /\ edit \in [Editors -> Edit]
    /\ reg \in [Shoppers -> Reg]
    /\ inbox \subseteq Orders /\ reserved \subseteq Orders
    /\ succeeded \in [Orders -> Nat]
    /\ failed \subseteq Orders
    /\ updates \in Nat /\ repeats \in Nat /\ faults \in Nat

Init ==
    /\ users = {} /\ targets = {} /\ coupons = {}
    /\ discounts = DOMAIN Seed
    /\ limit = [d \in Discounts |-> IF d \in DOMAIN Seed THEN Seed[d] ELSE Null]
    /\ limits = [d \in Discounts |-> {Seed[x] : x \in DOMAIN Seed \cap {d}}]
    /\ applies = [d \in Discounts |-> {}]
    /\ usages = [d \in Discounts |-> [u \in Users |-> 0]]
    /\ couponMax = [c \in Coupons |-> Null]
    /\ couponUsages = [c \in Coupons |-> 0]
    /\ redeemed = {}
    /\ job = [h \in Handlers |-> IdleJob]
    /\ edit = [e \in Editors |-> IdleEdit]
    /\ reg = [s \in Shoppers |-> IdleReg]
    /\ inbox = {} /\ reserved = {} /\ failed = {}
    /\ succeeded = [o \in Orders |-> 0]
    /\ updates = 0 /\ repeats = 0 /\ faults = 0

Fault == faults < MaxFaults /\ faults' = faults + 1
NoFault == UNCHANGED faults

-----------------------------------------------------------------------------
(* Replicas of foreign entities: a plain INSERT, so an event delivered      *)
(* again fails on the primary key and changes nothing.                      *)
RegisterUser(u) ==
    /\ u \notin users
    /\ users' = users \cup {u}
    /\ UNCHANGED <<targets, discountTable, usages, couponTable, job, edit, reg,
                   messages, bounds>>

RegisterTarget(t) ==
    /\ t \notin targets
    /\ targets' = targets \cup {t}
    /\ UNCHANGED <<users, discountTable, usages, couponTable, job, edit, reg,
                   messages, bounds>>

(* createDiscount: at least one target, all of them known.  Its rows are    *)
(* seen by nobody before the commit, so the transaction is one step.        *)
CreateDiscount(d, l, ts) ==
    /\ d \notin discounts
    /\ ts # {} /\ ts \subseteq targets
    /\ discounts' = discounts \cup {d}
    /\ limit' = [limit EXCEPT ![d] = l]
    /\ limits' = [limits EXCEPT ![d] = @ \cup {l}]
    /\ applies' = [applies EXCEPT ![d] = ts]
    /\ UNCHANGED <<replicas, usages, couponTable, job, edit, reg, messages, bounds>>

CreateCoupon(c, d, m) ==
    /\ d \in discounts
    /\ c \notin coupons
    /\ coupons' = coupons \cup {c}
    /\ couponMax' = [couponMax EXCEPT ![c] = m]
    /\ UNCHANGED <<replicas, discountTable, usages, couponUsages, redeemed, job,
                   edit, reg, messages, bounds>>

-----------------------------------------------------------------------------
(* PatchedRaw: the mark of a field left out reaches the table.              *)
PatchedRaw(l, old) == l

(* updateDiscount: read the row, change the join rows, write the row, read  *)
(* the join rows again for the event, commit, publish.  A field the request *)
(* leaves out is written back as it was read.                               *)
Patched(l, old) == IF l = Keep THEN old ELSE l
EditTo(e, r) == edit' = [edit EXCEPT ![e] = r]
EditEnds(e) == EditTo(e, IdleEdit)
EditStep == UNCHANGED <<replicas, usages, couponUsages, coupons, redeemed, job, reg,
                        messages, repeats>>

UpdateDiscount(e, d, l, add, remove) ==
    /\ edit[e].pc = "idle"
    /\ updates < MaxUpdates
    /\ d \in discounts
    /\ EditTo(e, [IdleEdit EXCEPT !.pc = "refs", !.id = d, !.add = add,
                     !.remove = remove, !.limit = Patched(l, limit[d])])
    /\ updates' = updates + 1
    /\ EditStep /\ NoFault /\ UNCHANGED <<discountTable, couponMax>>

(* Another update of d has written a join row that this one writes too.     *)
RefsLocked(e) ==
    \E f \in Editors \ {e} :
        /\ edit[f].id = edit[e].id
        /\ edit[f].pc \in {"save", "reread", "commit"}
        /\ \/ edit[e].add \cap (edit[f].add \cup edit[f].remove) # {}
           \/ edit[e].remove \cap edit[f].remove # {}

(* A target that is unknown, or joined already, fails the whole update.     *)
(* DELETE hits the rows it sees: the committed ones and its own.            *)
UpdateReferences(e) ==
    LET d == edit[e].id IN
    /\ edit[e].pc = "refs"
    /\ ~ RefsLocked(e)
    /\ IF edit[e].add \subseteq targets \ applies[d]
       THEN EditTo(e, [edit[e] EXCEPT !.pc = "save",
                          !.remove = @ \cap (applies[d] \cup edit[e].add)])
       ELSE EditEnds(e)
    /\ EditStep /\ NoFault /\ UNCHANGED <<discountTable, couponMax, updates>>
(* SaveAfterReading: the join tables are read before the discount is        *)
(* locked.                                                                  *)
SaveAfterReading(e) ==
    /\ edit[e].pc = "save"
    /\ EditTo(e, [edit[e] EXCEPT !.pc = "reread"])
    /\ EditStep /\ NoFault /\ UNCHANGED <<discountTable, couponMax, updates>>

SaveDiscount(e) ==
    /\ edit[e].pc = "save"
    /\ \A f \in Editors \ {e} :
          ~ (edit[f].id = edit[e].id /\ edit[f].pc \in {"reread", "commit"})
    /\ EditTo(e, [edit[e] EXCEPT !.pc = "reread"])
    /\ EditStep /\ NoFault /\ UNCHANGED <<discountTable, couponMax, updates>>

AppliesAfter(e) == (applies[edit[e].id] \cup edit[e].add) \ edit[e].remove

ReadAppliesTo(e) ==
    /\ edit[e].pc = "reread"
    /\ EditTo(e, [edit[e] EXCEPT !.pc = "commit", !.payload = AppliesAfter(e)])
    /\ EditStep /\ NoFault /\ UNCHANGED <<discountTable, couponMax, updates>>

CommitUpdate(e) ==
    LET d == edit[e].id IN
    /\ edit[e].pc = "commit"
    /\ applies' = [applies EXCEPT ![d] = AppliesAfter(e)]
    /\ limit' = [limit EXCEPT ![d] = edit[e].limit]
    /\ limits' = [limits EXCEPT ![d] = @ \cup {edit[e].limit}]
    /\ EditTo(e, [edit[e] EXCEPT !.pc = "announce"])
    /\ EditStep /\ NoFault /\ UNCHANGED <<discounts, couponMax, updates>>

(* discount/discount/updated; the caller alone learns of a failed publish.  *)
PublishUpdated(e) ==
    /\ edit[e].pc = "announce"
    /\ EditEnds(e)
    /\ EditStep /\ NoFault /\ UNCHANGED <<discountTable, couponMax, updates>>

(* updateCoupon reads the row and writes all of it but the usages.          *)
UpdateCoupon(e, c, m) ==
    /\ edit[e].pc = "idle"
    /\ updates < MaxUpdates
    /\ c \in coupons
    /\ EditTo(e, [IdleEdit EXCEPT !.pc = "coupon", !.id = c,
                     !.limit = Patched(m, couponMax[c])])
    /\ updates' = updates + 1
    /\ EditStep /\ NoFault /\ UNCHANGED <<discountTable, couponMax>>

CouponLocked(c) == \E s \in Shoppers : reg[s].pc = "commit" /\ reg[s].coupon = c

SaveCoupon(e) ==
    /\ edit[e].pc = "coupon"
    /\ ~ CouponLocked(edit[e].id)
    /\ couponMax' = [couponMax EXCEPT ![edit[e].id] = edit[e].limit]
    /\ EditEnds(e)
    /\ EditStep /\ NoFault /\ UNCHANGED <<discountTable, updates>>

EditFails(e) ==
    /\ edit[e].pc \in {"refs", "save", "reread", "commit", "coupon"}
    /\ Fault
    /\ EditEnds(e)
    /\ EditStep /\ UNCHANGED <<discountTable, couponMax, updates>>

-----------------------------------------------------------------------------
(* registerCoupon inserts a redemption; the trigger before the insert reads *)
(* the usages, compares them with the maximum and writes the number it      *)
(* computed.                                                                *)
RegTo(s, r) == reg' = [reg EXCEPT ![s] = r]
RegStep == UNCHANGED <<replicas, discountTable, usages, coupons, couponMax, job,
                       edit, messages, updates, repeats>>

RegisterCoupon(s, c, u) ==
    /\ reg[s].pc = "idle"
    /\ c \in coupons
    /\ RegTo(s, [pc |-> "select", coupon |-> c, user |-> u, count |-> 0])
    /\ RegStep /\ NoFault /\ UNCHANGED <<couponUsages, redeemed>>

TriggerSelect(s) ==
    LET c == reg[s].coupon
        count == couponUsages[c] + 1 IN
    /\ reg[s].pc = "select"
    /\ IF couponMax[c] # Null /\ count > couponMax[c]
       THEN RegTo(s, IdleReg)
       ELSE RegTo(s, [reg[s] EXCEPT !.pc = "update", !.count = count])
    /\ RegStep /\ NoFault /\ UNCHANGED <<couponUsages, redeemed>>

(* TriggerUpdateApart: the coupon is updated outside the transaction of the *)
(* insert.                                                                  *)
TriggerUpdateApart(s) ==
    LET c == reg[s].coupon IN
    /\ reg[s].pc = "update"
    /\ ~ CouponLocked(c)
    /\ IF <<c, reg[s].user>> \notin redeemed /\ reg[s].user \in users
       THEN RegTo(s, [reg[s] EXCEPT !.pc = "commit"])
       ELSE RegTo(s, IdleReg)
    /\ couponUsages' = [couponUsages EXCEPT ![c] = reg[s].count]
    /\ RegStep /\ NoFault /\ UNCHANGED redeemed

(* The UPDATE of the coupon, then the INSERT: one redemption per coupon and *)
(* user, of a known user.  A failed insert takes the update back.           *)
TriggerUpdate(s) ==
    LET c == reg[s].coupon IN
    /\ reg[s].pc = "update"
    /\ ~ CouponLocked(c)
    /\ IF <<c, reg[s].user>> \notin redeemed /\ reg[s].user \in users
       THEN RegTo(s, [reg[s] EXCEPT !.pc = "commit"])
       ELSE RegTo(s, IdleReg)
    /\ RegStep /\ NoFault /\ UNCHANGED <<couponUsages, redeemed>>

CommitRedemption(s) ==
    /\ reg[s].pc = "commit"
    /\ couponUsages' = [couponUsages EXCEPT ![reg[s].coupon] = reg[s].count]
    /\ redeemed' = redeemed \cup {<<reg[s].coupon, reg[s].user>>}
    /\ RegTo(s, IdleReg)
    /\ RegStep /\ NoFault

RedemptionFails(s) ==
    /\ reg[s].pc # "idle"
    /\ Fault
    /\ RegTo(s, IdleReg)
    /\ RegStep /\ UNCHANGED <<couponUsages, redeemed>>

-----------------------------------------------------------------------------
(* The order saga.  totalByDiscount: an item adds its count to every        *)
(* discount it names; discountOrder: the discounts as first met.            *)
Asked(o, d) ==
    [k \in DOMAIN Mentions[o] |->
        IF Mentions[o][k].discount = d THEN Mentions[o][k].count ELSE 0]
TotalByDiscount == [o \in Orders |-> [d \in Discounts |-> SumFunction(Asked(o, d))]]

DiscountOrder ==
    [o \in Orders |->
        FoldLeft(LAMBDA seen, m : IF m.discount \in ToSet(seen) THEN seen
                                  ELSE Append(seen, m.discount),
                 <<>>, Mentions[o])]

(* The inventory service has reserved an order; the discounts it names are  *)
(* those findApplicableDiscounts returned to the order service.             *)
Reserved(o) ==
    /\ o \notin reserved
    /\ ToSet(DiscountOrder[o]) \subseteq discounts
    /\ reserved' = reserved \cup {o}
    /\ inbox' = inbox \cup {o}
    /\ UNCHANGED <<replicas, discountTable, usages, couponTable, job, edit, reg,
                   succeeded, failed, bounds>>

JobTo(h, j) == job' = [job EXCEPT ![h] = j]
JobStep == UNCHANGED <<replicas, discountTable, couponTable, edit, reg, reserved,
                       updates>>

(* A delivery; the acknowledgement of an earlier one may have been lost.    *)
HandleReservationSucceeded(h, o) ==
    /\ job[h].pc = "idle"
    /\ o \in inbox
    /\ \/ inbox' = inbox \ {o} /\ UNCHANGED repeats
       \/ /\ repeats < MaxRepeats
          /\ repeats' = repeats + 1
          /\ UNCHANGED inbox
    /\ JobTo(h, [IdleJob EXCEPT !.pc = "discounts", !.order = o])
    /\ JobStep /\ NoFault /\ UNCHANGED <<usages, succeeded, failed>>

(* DiscountsByIDs: unknown ids are left out, and so are never refused here. *)
DiscountsByIDs(h) ==
    /\ job[h].pc = "discounts"
    /\ JobTo(h, [job[h] EXCEPT !.pc = "usages", !.read = limit])
    /\ JobStep /\ NoFault /\ UNCHANGED <<usages, inbox, succeeded, failed, repeats>>

(* RemainingUsages of the discounts that had a limit, compared with what    *)
(* the order asks for.                                                      *)
OverBudget(h) ==
    LET o == job[h].order IN
    {d \in ToSet(DiscountOrder[o]) :
        /\ job[h].read[d] # Null
        /\ TotalByDiscount[o][d] > job[h].read[d] - usages[d][UserOf[o]]}

RemainingUsages(h) ==
    /\ job[h].pc = "usages"
    /\ JobTo(h, [job[h] EXCEPT !.pc = IF OverBudget(h) # {} THEN "refuse"
                                                            ELSE "upsert"])
    /\ JobStep /\ NoFault /\ UNCHANGED <<usages, inbox, succeeded, failed, repeats>>

(* RefuseSilently: the message is consumed and nobody is told.              *)
RefuseSilently(h) ==
    /\ job[h].pc = "refuse"
    /\ JobTo(h, IdleJob)
    /\ JobStep /\ NoFault /\ UNCHANGED <<usages, inbox, succeeded, failed, repeats>>

(* validation-failed with the failing ids; the message is consumed.         *)
Refuse(h) ==
    /\ job[h].pc = "refuse"
    /\ failed' = failed \cup {job[h].order}
    /\ JobTo(h, IdleJob)
    /\ JobStep /\ NoFault /\ UNCHANGED <<usages, inbox, succeeded, repeats>>

(* The rows of discountusageentity this transaction has written.            *)
Written(h) ==
    IF job[h].pc \notin {"upsert", "commit"} THEN {}
    ELSE {<<DiscountOrder[job[h].order][i], UserOf[job[h].order]>> :
             i \in 1 .. job[h].next - 1}

MoreUpserts(h) == /\ job[h].pc = "upsert"
                  /\ job[h].next <= Len(DiscountOrder[job[h].order])
NextRow(h) == <<DiscountOrder[job[h].order][job[h].next], UserOf[job[h].order]>>
WaitsFor(h, g) == g # h /\ MoreUpserts(h) /\ NextRow(h) \in Written(g)

(* CheckAmountAlone: the trigger compares the amount of this order alone.   *)
CheckAmountAlone(d, old, delta) == limit[d] = Null \/ delta <= limit[d]

(* check_discount_usages: fires for the INSERT with the amount alone and,   *)
(* where there is a row, for the UPDATE if it raises the usages.            *)
CheckDiscountUsages(d, old, delta) ==
    \/ limit[d] = Null
    \/ /\ delta <= limit[d]
       /\ delta <= 0 \/ old + delta <= limit[d]

(* INSERT ... ON CONFLICT DO UPDATE, with the foreign keys of the row.      *)
UpsertDiscountUsage(h) ==
    LET d == NextRow(h)[1]
        u == NextRow(h)[2] IN
    /\ MoreUpserts(h)
    /\ \A g \in Handlers : ~ WaitsFor(h, g)
    /\ IF CheckDiscountUsages(d, usages[d][u], TotalByDiscount[job[h].order][d]) /\ u \in users
       THEN JobTo(h, [job[h] EXCEPT !.next = @ + 1])
       ELSE JobTo(h, [job[h] EXCEPT !.pc = "catch"])
    /\ JobStep /\ NoFault /\ UNCHANGED <<usages, inbox, succeeded, failed, repeats>>

(* Transactions that wait for each other: Postgres ends one of them.        *)
DeadlockDetected(h) ==
    /\ \E W \in SUBSET Handlers :
          /\ h \in W
          /\ \A g \in W : \E f \in W : WaitsFor(g, f)
    /\ JobTo(h, [job[h] EXCEPT !.pc = "catch"])
    /\ JobStep /\ NoFault /\ UNCHANGED <<usages, inbox, succeeded, failed, repeats>>

(* validation-succeeded is published inside the transaction.                *)
PublishValidationSucceeded(h) ==
    /\ job[h].pc = "upsert"
    /\ ~ MoreUpserts(h)
    /\ succeeded' = [succeeded EXCEPT ![job[h].order] = @ + 1]
    /\ JobTo(h, [job[h] EXCEPT !.pc = "commit"])
    /\ JobStep /\ NoFault /\ UNCHANGED <<usages, inbox, failed, repeats>>
(* CommitOverwrites: the usages are set from what the upsert was given.     *)
CommitOverwrites(h) ==
    LET o == job[h].order IN
    /\ job[h].pc = "commit"
    /\ usages' = [d \in Discounts |-> [u \in Users |->
           IF <<d, u>> \in Written(h) THEN TotalByDiscount[o][d] ELSE usages[d][u]]]
    /\ JobTo(h, IdleJob)
    /\ JobStep /\ NoFault /\ UNCHANGED <<inbox, succeeded, failed, repeats>>

CommitUsages(h) ==
    LET o == job[h].order IN
    /\ job[h].pc = "commit"
    /\ usages' = [d \in Discounts |-> [u \in Users |->
           IF <<d, u>> \in Written(h) THEN usages[d][u] + TotalByDiscount[o][d]
                                      ELSE usages[d][u]]]
    /\ JobStep /\ UNCHANGED <<inbox, succeeded, failed, repeats>>

Commit(h) == CommitUsages(h) /\ JobTo(h, IdleJob) /\ NoFault

(* The commit took effect, and its answer is lost: validateOrder sees an    *)
(* error of a transaction that stands.                                      *)
CommitUnanswered(h) ==
    CommitUsages(h) /\ JobTo(h, [job[h] EXCEPT !.pc = "catch"]) /\ Fault

(* CallFailsCommitted: the upserts are committed although a later call      *)
(* failed.                                                                  *)
CallFailsCommitted(h) ==
    /\ job[h].pc \in {"discounts", "usages", "refuse", "upsert", "commit"}
    /\ Fault
    /\ JobTo(h, [job[h] EXCEPT !.pc = "catch"])
    /\ usages' = [d \in Discounts |-> [u \in Users |->
           IF <<d, u>> \in Written(h) THEN usages[d][u] + TotalByDiscount[job[h].order][d]
                                      ELSE usages[d][u]]]
    /\ JobStep /\ UNCHANGED <<inbox, succeeded, failed, repeats>>

(* Any query, publish or commit may fail.  The error reaches validateOrder, *)
(* and the transaction is rolled back; a publish that failed for the caller *)
(* may have reached the broker.                                             *)
CallFails(h) ==
    /\ job[h].pc \in {"discounts", "usages", "refuse", "upsert", "commit"}
    /\ Fault
    /\ JobTo(h, [job[h] EXCEPT !.pc = "catch"])
    /\ JobStep /\ UNCHANGED <<usages, inbox, succeeded, failed, repeats>>

PublishFailsLate(h) ==
    /\ job[h].pc = "upsert"
    /\ ~ MoreUpserts(h)
    /\ Fault
    /\ succeeded' = [succeeded EXCEPT ![job[h].order] = @ + 1]
    /\ JobTo(h, [job[h] EXCEPT !.pc = "catch"])
    /\ JobStep /\ UNCHANGED <<usages, inbox, failed, repeats>>

(* validateOrder on an error: validation-failed without ids, best effort,   *)
(* then the error, which makes Dapr deliver the message again.              *)
ValidateOrderFails(h) ==
    /\ job[h].pc = "catch"
    /\ \/ failed' = failed \cup {job[h].order} /\ NoFault
       \/ UNCHANGED failed /\ Fault
    /\ inbox' = inbox \cup {job[h].order}
    /\ JobTo(h, IdleJob)
    /\ JobStep /\ UNCHANGED <<usages, succeeded, repeats>>

(* The process dies: the database rolls back and Dapr delivers again.       *)
Dies(h) ==
    /\ job[h].pc # "idle"
    /\ Fault
    /\ inbox' = inbox \cup {job[h].order}
    /\ JobTo(h, IdleJob)
    /\ JobStep /\ UNCHANGED <<usages, succeeded, failed, repeats>>

-----------------------------------------------------------------------------
Replicate == \/ \E u \in Users : RegisterUser(u)
             \/ \E t \in Targets : RegisterTarget(t)

Create == \/ \E d \in Discounts, l \in Limits, ts \in SUBSET Targets :
                CreateDiscount(d, l, ts)
          \/ \E c \in Coupons, d \in Discounts, m \in Limits : CreateCoupon(c, d, m)

UpdateStep(e) == \/ UpdateReferences(e) \/ SaveDiscount(e) \/ ReadAppliesTo(e)
                 \/ CommitUpdate(e) \/ PublishUpdated(e) \/ SaveCoupon(e)

Update(e) ==
    \/ \E d \in Discounts, l \in Limits \cup {Null, Keep} :
          \E add \in SUBSET Targets : \E remove \in SUBSET Targets :
              UpdateDiscount(e, d, l, add, remove)
    \/ \E c \in Coupons, m \in Limits \cup {Null, Keep} : UpdateCoupon(e, c, m)
    \/ UpdateStep(e)
    \/ EditFails(e)

Register(s) ==
    \/ \E c \in Coupons, u \in Users : RegisterCoupon(s, c, u)
    \/ TriggerSelect(s) \/ TriggerUpdate(s) \/ CommitRedemption(s)
    \/ RedemptionFails(s)

ValidateStep(h) ==
    \/ DiscountsByIDs(h) \/ RemainingUsages(h) \/ Refuse(h)
    \/ UpsertDiscountUsage(h) \/ DeadlockDetected(h)
    \/ PublishValidationSucceeded(h) \/ Commit(h) \/ ValidateOrderFails(h)

Validate(h) ==
    \/ \E o \in Orders : HandleReservationSucceeded(h, o)
    \/ ValidateStep(h)
    \/ CallFails(h) \/ PublishFailsLate(h) \/ CommitUnanswered(h) \/ Dies(h)

Next ==
    \/ Replicate
    \/ Create
    \/ \E o \in Orders : Reserved(o)
    \/ \E e \in Editors : Update(e)
    \/ \E s \in Shoppers : Register(s)
    \/ \E h \in Handlers : Validate(h)

Spec == Init /\ [][Next]_vars

(* A handler that has started runs on, a waiting message is delivered, and  *)
(* the replica of a user arrives.  A transaction that waits for a row gets  *)
(* it when the holder ends: Postgres queues the waiters of a row.           *)
UpsertOf(h, d) == UpsertDiscountUsage(h) /\ NextRow(h)[1] = d
Fairness ==
    /\ \A u \in Users : WF_vars(RegisterUser(u))
    /\ \A h \in Handlers : WF_vars(ValidateStep(h))
    /\ \A h \in Handlers, d \in Discounts : SF_vars(UpsertOf(h, d))
    /\ \A o \in Orders :
          WF_vars(\E h \in Handlers : HandleReservationSucceeded(h, o))
FairSpec == Spec /\ Fairness

-----------------------------------------------------------------------------
(* No user ever has more usages of a discount than a limit the discount has *)
(* had, whatever orders of the user are validated at once: the check before *)
(* the transaction reads stale rows, and the trigger sees the row it locks. *)
UsagesWithinALimit ==
    \A d \in Discounts, u \in Users :
        \/ usages[d][u] <= 0
        \/ \E l \in limits[d] : l = Null \/ usages[d][u] <= l

(* What the validations that were announced take from a user.               *)
Taken(d) == [o \in Orders |-> succeeded[o] * TotalByDiscount[o][d]]
Announced(d, u) == SumFunctionOnSet(Taken(d), {o \in Orders : UserOf[o] = u})

(* Usages are taken from a user only for orders whose validation was        *)
(* announced as succeeded: a failure of the publish, of the commit or of    *)
(* one of several upserts leaves none behind.                               *)
UsagesAreAnnounced ==
    \A d \in Discounts, u \in Users : usages[d][u] <= Announced(d, u)

(* As long as no call fails, a success that was announced is recorded once  *)
(* its transaction has ended: the discount was not given for free.          *)
AnnouncedIsRecorded ==
    (faults = 0 /\ \A h \in Handlers : job[h].pc # "commit") =>
        \A d \in Discounts, u \in Users : usages[d][u] = Announced(d, u)

(* The usages of a user and the validations that were announced agree.      *)
UsagesMatchAnnounced == UsagesAreAnnounced /\ AnnouncedIsRecorded

(* Every reserved order is answered and its message is consumed, also when  *)
(* its transactions deadlock, are refused by the trigger or come before the *)
(* replica of their user.                                                   *)
ValidationsSettle ==
    \A o \in Orders :
        (o \in reserved) ~>
            [](/\ o \notin inbox
               /\ \A h \in Handlers : job[h].order # o
               /\ succeeded[o] > 0 \/ o \in failed)

(* The event of an update carries the targets the discount has once that    *)
(* update is committed, those of concurrent updates included: the update    *)
(* reads the join tables after it has locked the discount.                  *)
UpdatedCarriesAllTargets ==
    [][\A e \in Editors :
          (edit[e].pc = "commit" /\ edit'[e].pc = "announce") =>
              edit[e].payload = applies'[edit[e].id]]_vars

Redeemers(c) == {u \in Users : <<c, u>> \in redeemed}

(* A coupon is never counted as used without a redemption: the trigger's    *)
(* update goes when the insert is refused or the call fails.                *)
CouponUsagesAreRedeemed ==
    \A c \in Coupons : couponUsages[c] <= Cardinality(Redeemers(c))

(* The trigger "enforces the global maxusages cap": no more users than the  *)
(* maximum have redeemed a coupon.                                          *)
CouponCapHolds ==
    \A c \in coupons :
        couponMax[c] = Null \/ Cardinality(Redeemers(c)) <= couponMax[c]
=============================================================================
