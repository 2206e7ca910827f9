--------------------------- MODULE StorefrontProofs --------------------------
(***************************************************************************)
(* The proofs of the customer-facing services, the owners of the master    *)
(* data and the stand-in for the outside providers.  Each service has an   *)
(* inductive invariant of its own (ReviewInv, WishInv, CartInv, ProdInv,   *)
(* NotifInv, AcctInv, VerInv, RetInv and SimInv): the types, what a        *)
(* request or a handler was checked for and still relies on when it        *)
(* writes, and who shares a row with whom.  For each of them come first    *)
(* the steps that write, then the steps that only load, then that the      *)
(* invariant is kept and what it gives.  Then the services are put         *)
(* together; the simulation, which no other service of this part calls,    *)
(* comes last.                                                             *)
(***************************************************************************)
EXTENDS MCStorefront, Simulation, FiniteSetTheorems, WellFoundedInduction, TLAPS

-----------------------------------------------------------------------------
(* The review service.  A request is a record of this shape.                *)
ReviewReqs == [pc : {"idle", "insert", "set", "delete"}, user : Users \cup {None},
               variant : Variants \cup {None}, id : Nat,
               set : UNION {[F -> Contents] : F \in SUBSET ReviewFields}]

(* What a request was checked for stays true until it writes: the users and *)
(* the variants are never removed, and ids are never used again.            *)
ReviewShape ==
    /\ reviewUsers \subseteq Users /\ reviewVariants \subseteq Variants
    /\ reviewIssued \in 0 .. MaxReviews
    /\ review \in [ReviewIds -> ReviewDocs \cup {None}]
    /\ reviewReq \in [Requests -> ReviewReqs]
    /\ reviewTwice \subseteq Users \X Variants
ReviewKnown ==
    /\ \A i \in ReviewIds : Exists(i) =>
          /\ i <= reviewIssued
          /\ review[i].user \in reviewUsers
          /\ review[i].variant \in reviewVariants
          /\ review[i].product = ProductOf[review[i].variant]
    /\ \A r \in Requests :
          /\ reviewReq[r].id \in 0 .. reviewIssued
          /\ reviewReq[r].pc = "insert" =>
                /\ reviewReq[r].user \in reviewUsers
                /\ reviewReq[r].variant \in reviewVariants
                /\ reviewReq[r].set \in [ReviewFields -> Contents]
ReviewTypeInv == ReviewShape /\ ReviewKnown

(* Two requests insert the same pair, or one inserts a pair that has a      *)
(* review by now, only if their creations overlapped.                       *)
Asked(r) == <<reviewReq[r].user, reviewReq[r].variant>>
ReviewPairs ==
    /\ ReviewedOnce
    /\ \A r \in Requests, i \in ReviewIds :
          reviewReq[r].pc = "insert" /\ Exists(i) /\ PairOf(i) = Asked(r)
             => Asked(r) \in reviewTwice
    /\ \A r, x \in Requests :
          /\ r # x /\ reviewReq[r].pc = "insert" /\ reviewReq[x].pc = "insert"
          /\ Asked(r) = Asked(x)
          => Asked(r) \in reviewTwice

ReviewInv == ReviewTypeInv /\ ReviewPairs

LEMMA ReviewIdleType == ReviewIdle \in ReviewReqs
<1>1. Fieldless \in [{} -> Contents]
  BY DEF Fieldless
<1> QED
  BY <1>1 DEF ReviewIdle, ReviewReqs

(* The steps of a request, each with the request it leaves.                 *)
LEMMA ReviewRequestType ==
    ASSUME ReviewTypeInv, NEW r \in Requests, ReviewRequest(r)
    PROVE  ReviewTypeInv'
<1>t. /\ reviewReq \in [Requests -> ReviewReqs] /\ reviewIssued \in 0 .. MaxReviews
      /\ review \in [ReviewIds -> ReviewDocs \cup {None}]
      /\ reviewUsers \subseteq Users /\ reviewVariants \subseteq Variants
      /\ reviewTwice \subseteq Users \X Variants
      /\ MaxReviews \in Nat
  BY ReviewAssumption DEF ReviewTypeInv, ReviewShape
<1>q. reviewReq[r] \in ReviewReqs
  BY <1>t
<1>i. ReviewIdle \in ReviewReqs /\ ReviewIdle.id = 0 /\ ReviewIdle.pc = "idle"
  BY ReviewIdleType DEF ReviewIdle
<1>1. ASSUME NEW u \in Users, NEW v \in Variants,
             NEW fields \in [ReviewFields -> Contents], CreateReview(r, u, v, fields)
      PROVE  ReviewTypeInv'
  <2> DEFINE q == [ReviewIdle EXCEPT !.pc = "insert", !.user = u,
                                     !.variant = v, !.set = fields]
  <2>1. /\ q \in ReviewReqs /\ q.id = 0 /\ q.user = u /\ q.variant = v
        /\ q.set = fields
    BY DEF ReviewIdle, ReviewReqs
  <2>2. /\ reviewReq' = [reviewReq EXCEPT ![r] = q]
        /\ u \in reviewUsers /\ v \in reviewVariants
        /\ reviewTwice' \subseteq reviewTwice \cup {<<u, v>>}
        /\ UNCHANGED <<reviewUsers, reviewVariants, review, reviewIssued>>
    BY <1>1 DEF CreateReview, ReviewGoto
  <2> HIDE DEF q
  <2>3. ReviewShape'
    BY <1>t, <2>1, <2>2 DEF ReviewShape
  <2>4. ReviewKnown'
    BY <1>t, <2>1, <2>2 DEF ReviewTypeInv, ReviewKnown, Exists
  <2> QED
    BY <2>3, <2>4 DEF ReviewTypeInv
<1>2. ASSUME NEW i \in ReviewIds, NEW F \in SUBSET ReviewFields,
             NEW fields \in [F -> Contents], UpdateReview(r, i, fields)
      PROVE  ReviewTypeInv'
  <2> DEFINE q == [ReviewIdle EXCEPT !.pc = "set", !.id = i,
                         !.user = review[i].user,
                         !.variant = review[i].variant, !.set = fields]
  <2>1. /\ reviewReq' = [reviewReq EXCEPT ![r] = q] /\ Exists(i)
        /\ UNCHANGED <<reviewUsers, reviewVariants, review, reviewIssued, reviewTwice>>
    BY <1>2 DEF UpdateReview, ReviewGoto
  <2>2. review[i] \in ReviewDocs /\ i \in Nat /\ i <= reviewIssued
    BY <1>t, <2>1 DEF Exists, ReviewTypeInv, ReviewKnown, ReviewIds
  <2>3. review[i].user \in Users /\ review[i].variant \in Variants
    BY <2>2 DEF ReviewDocs
  <2>4. q \in ReviewReqs /\ q.id = i /\ q.pc = "set"
    BY <2>2, <2>3 DEF ReviewIdle, ReviewReqs
  <2> HIDE DEF q
  <2>5. ReviewShape'
    BY <1>t, <2>1, <2>4 DEF ReviewShape
  <2>6. ReviewKnown'
    BY <1>t, <2>1, <2>2, <2>4 DEF ReviewTypeInv, ReviewKnown, Exists
  <2> QED
    BY <2>5, <2>6 DEF ReviewTypeInv
<1>3. ASSUME NEW i \in ReviewIds, DeleteReview(r, i)
      PROVE  ReviewTypeInv'
  <2> DEFINE q == [ReviewIdle EXCEPT !.pc = "delete", !.id = i]
  <2>1. /\ reviewReq' = [reviewReq EXCEPT ![r] = q] /\ Exists(i)
        /\ UNCHANGED <<reviewUsers, reviewVariants, review, reviewIssued, reviewTwice>>
    BY <1>3 DEF DeleteReview, ReviewGoto
  <2>2. i \in Nat /\ i <= reviewIssued
    BY <1>t, <2>1 DEF ReviewTypeInv, ReviewKnown, ReviewIds
  <2>4. q \in ReviewReqs /\ q.id = i /\ q.pc = "delete"
    BY <2>2, ReviewIdleType DEF ReviewIdle, ReviewReqs
  <2> HIDE DEF q
  <2>5. ReviewShape'
    BY <1>t, <2>1, <2>4 DEF ReviewShape
  <2>6. ReviewKnown'
    BY <1>t, <2>1, <2>2, <2>4 DEF ReviewTypeInv, ReviewKnown, Exists
  <2> QED
    BY <2>5, <2>6 DEF ReviewTypeInv
<1>4. ASSUME NEW f \in ReviewFields, SetReviewField(r, f)
      PROVE  ReviewTypeInv'
  <2> DEFINE q == reviewReq[r]
  <2>1. /\ q.pc = "set" /\ f \in DOMAIN q.set
        /\ review' = IF Exists(q.id)
                     THEN [review EXCEPT ![q.id].fields[f] = q.set[f]] ELSE review
        /\ reviewReq' = [reviewReq EXCEPT ![r] = FieldWritten(q, f)]
        /\ UNCHANGED <<reviewUsers, reviewVariants, reviewIssued, reviewTwice>>
    BY <1>4 DEF SetReviewField, ReviewGoto
  <2>2. PICK F \in SUBSET ReviewFields : q.set \in [F -> Contents]
    BY <1>q DEF ReviewReqs
  <2>3. q.set[f] \in Contents
    BY <2>1, <2>2
  <2>4. /\ FieldWritten(q, f) \in ReviewReqs
        /\ \/ FieldWritten(q, f) = ReviewIdle
           \/ FieldWritten(q, f).id = q.id /\ FieldWritten(q, f).pc = "set"
    <3>1. \A G \in SUBSET ReviewFields : \A g \in [G -> Contents] :
             /\ [q EXCEPT !.set = g] \in ReviewReqs
             /\ [q EXCEPT !.set = g].id = q.id /\ [q EXCEPT !.set = g].pc = q.pc
      BY <1>q DEF ReviewReqs
    <3>2. [g \in DOMAIN q.set \ {f} |-> q.set[g]] \in [DOMAIN q.set \ {f} -> Contents]
          /\ DOMAIN q.set \ {f} \in SUBSET ReviewFields
      BY <2>2
    <3>3. FieldWritten(q, f) \in
             {ReviewIdle, [q EXCEPT !.set = [g \in DOMAIN q.set \ {f} |-> q.set[g]]]}
      BY DEF FieldWritten
    <3> HIDE DEF q
    <3> QED
      BY <1>i, <2>1, <3>1, <3>2, <3>3
  <2>5. \A i \in ReviewIds :
           \/ review'[i] = review[i]
           \/ /\ Exists(i) /\ review'[i] \in ReviewDocs
              /\ review'[i].user = review[i].user /\ review'[i].variant = review[i].variant
              /\ review'[i].product = review[i].product
    <3> SUFFICES ASSUME NEW i \in ReviewIds, review'[i] # review[i]
                 PROVE  /\ Exists(i) /\ review'[i] \in ReviewDocs
                        /\ review'[i].user = review[i].user
                        /\ review'[i].variant = review[i].variant
                        /\ review'[i].product = review[i].product
      OBVIOUS
    <3>1. i = q.id /\ Exists(i) /\ review[i] \in ReviewDocs
      BY <1>t, <2>1 DEF Exists
    <3>2. review'[i] = [review[i] EXCEPT !.fields[f] = q.set[f]]
      BY <1>t, <2>1, <3>1
    <3>3. [review[i].fields EXCEPT ![f] = q.set[f]] \in [ReviewFields -> Contents]
      BY <2>3, <3>1 DEF ReviewDocs
    <3> QED
      BY <3>1, <3>2, <3>3 DEF ReviewDocs
  <2>6. review' \in [ReviewIds -> ReviewDocs \cup {None}]
    <3>1. DOMAIN review' = ReviewIds /\ review' = [i \in ReviewIds |-> review'[i]]
      BY <1>t, <2>1
    <3>2. \A i \in ReviewIds : review'[i] \in ReviewDocs \cup {None}
      BY <1>t, <2>5
    <3> QED
      BY <3>1, <3>2
  <2>7. ReviewShape'
    BY <1>t, <2>1, <2>4, <2>6 DEF ReviewShape
  <2>8. \A i \in ReviewIds : review'[i] # None => Exists(i)
    BY <2>5 DEF Exists
  <2>9. ReviewKnown'
    BY <1>t, <1>i, <2>1, <2>4, <2>5, <2>8 DEF ReviewTypeInv, ReviewKnown, Exists
  <2> QED
    BY <2>7, <2>9 DEF ReviewTypeInv
<1>5. CASE InsertReview(r)
  <2> DEFINE q == reviewReq[r]
             d == [user |-> q.user, variant |-> q.variant,
                   product |-> ProductOf[q.variant], fields |-> q.set]
  <2>1. /\ q.pc = "insert" /\ reviewIssued' = reviewIssued + 1
        /\ reviewIssued < MaxReviews
        /\ review' = [review EXCEPT ![reviewIssued + 1] = d]
        /\ reviewReq' = [reviewReq EXCEPT ![r] = ReviewIdle]
        /\ UNCHANGED <<reviewUsers, reviewVariants, reviewTwice>>
    BY <1>5 DEF InsertReview, ReviewGoto
  <2>2. /\ q.user \in reviewUsers /\ q.variant \in reviewVariants
        /\ q.set \in [ReviewFields -> Contents]
    BY <2>1 DEF ReviewTypeInv, ReviewKnown
  <2>3. d \in ReviewDocs /\ d.user = q.user /\ d.variant = q.variant
        /\ d.product = ProductOf[q.variant]
    BY <1>t, <2>2 DEF ReviewDocs
  <2>4. reviewIssued + 1 \in 1 .. MaxReviews /\ reviewIssued' \in 0 .. MaxReviews
    BY <1>t, <2>1
  <2> HIDE DEF d
  <2>5. /\ review' \in [ReviewIds -> ReviewDocs \cup {None}]
        /\ review'[reviewIssued + 1] = d
        /\ \A i \in ReviewIds : i # reviewIssued + 1 => review'[i] = review[i]
    BY <1>t, <2>1, <2>3, <2>4 DEF ReviewIds
  <2>6. ReviewShape'
    BY <1>t, <1>i, <2>1, <2>4, <2>5 DEF ReviewShape
  <2>7. \A i \in ReviewIds : i <= reviewIssued => i <= reviewIssued'
    BY <1>t, <2>1 DEF ReviewIds
  <2>8. reviewIssued + 1 <= reviewIssued' /\ 0 .. reviewIssued \subseteq 0 .. reviewIssued'
        /\ 0 \in 0 .. reviewIssued'
    BY <1>t, <2>1
  <2>9. ReviewKnown'
    BY <1>t, <1>i, <2>1, <2>2, <2>3, <2>5, <2>7, <2>8
       DEF ReviewTypeInv, ReviewKnown, Exists
  <2> QED
    BY <2>6, <2>9 DEF ReviewTypeInv
<1>6. CASE DeleteOne(r)
  <2>1. /\ reviewReq' = [reviewReq EXCEPT ![r] = ReviewIdle]
        /\ review' = [review EXCEPT ![reviewReq[r].id] = None]
        /\ UNCHANGED <<reviewUsers, reviewVariants, reviewIssued, reviewTwice>>
    BY <1>6 DEF DeleteOne, ReviewGoto
  <2>2. \A i \in ReviewIds : review'[i] \in {None, review[i]}
    BY <1>t, <2>1
  <2>3. ReviewShape'
    BY <1>t, <1>i, <2>1 DEF ReviewShape
  <2>4. ReviewKnown'
    BY <1>t, <1>i, <2>1, <2>2 DEF ReviewTypeInv, ReviewKnown, Exists
  <2> QED
    BY <2>3, <2>4 DEF ReviewTypeInv
<1>7. CASE ReviewRequestFails(r)
  <2>1. /\ reviewReq' = [reviewReq EXCEPT ![r] = ReviewIdle]
        /\ UNCHANGED <<reviewUsers, reviewVariants, review, reviewIssued, reviewTwice>>
    BY <1>7 DEF ReviewRequestFails, ReviewGoto
  <2>2. ReviewShape'
    BY <1>t, <1>i, <2>1 DEF ReviewShape
  <2>3. ReviewKnown'
    BY <1>t, <1>i, <2>1 DEF ReviewTypeInv, ReviewKnown, Exists
  <2> QED
    BY <2>2, <2>3 DEF ReviewTypeInv
<1> QED
  BY <1>1, <1>2, <1>3, <1>4, <1>5, <1>6, <1>7 DEF ReviewRequest

LEMMA ReviewTypeStep == ReviewTypeInv /\ [ReviewNext]_reviewVars => ReviewTypeInv'
<1> SUFFICES ASSUME ReviewTypeInv, [ReviewNext]_reviewVars PROVE ReviewTypeInv'
  OBVIOUS
<1>1. CASE \/ \E u \in Users : ReviewUserCreated(u)
           \/ \E v \in Variants : ReviewVariantCreated(v)
           \/ UNCHANGED reviewVars
  <2>1. /\ UNCHANGED <<review, reviewIssued, reviewReq, reviewTwice>>
        /\ reviewUsers \subseteq reviewUsers' /\ reviewVariants \subseteq reviewVariants'
        /\ reviewUsers' \subseteq reviewUsers \cup Users
        /\ reviewVariants' \subseteq reviewVariants \cup Variants
    BY <1>1 DEF ReviewUserCreated, ReviewVariantCreated, reviewVars
  <2>2. ReviewShape'
    BY <2>1 DEF ReviewTypeInv, ReviewShape
  <2>3. ReviewKnown'
    BY <2>1 DEF ReviewTypeInv, ReviewKnown, Exists
  <2> QED
    BY <2>2, <2>3 DEF ReviewTypeInv
<1> QED
  BY <1>1, ReviewRequestType DEF ReviewNext

LEMMA ReviewInitInv == ReviewInit => ReviewInv
<1> SUFFICES ASSUME ReviewInit PROVE ReviewInv
  OBVIOUS
<1>1. \A r \in Requests : reviewReq[r] = ReviewIdle
  BY DEF ReviewInit
<1>2. ReviewIdle.pc = "idle" /\ ReviewIdle.id = 0
  BY DEF ReviewIdle
<1>3. ReviewShape
  BY ReviewIdleType, ReviewAssumption DEF ReviewInit, ReviewShape
<1>4. ReviewKnown
  BY <1>1, <1>2 DEF ReviewInit, ReviewKnown, Exists
<1>5. ReviewPairs
  BY <1>1, <1>2 DEF ReviewInit, ReviewPairs, ReviewedOnce, Exists
<1> QED
  BY <1>3, <1>4, <1>5 DEF ReviewInv, ReviewTypeInv

(* Seen from the pairs, a step creates a request, inserts what a request    *)
(* asked for, or at most takes reviews and requests away.                   *)
ReviewShrinks ==
    /\ UNCHANGED <<reviewIssued, reviewTwice>>
    /\ \A i \in ReviewIds : \/ review'[i] = None
                            \/ /\ Exists(i) /\ review'[i] # None
                               /\ PairOf(i)' = PairOf(i)
    /\ \A r \in Requests : reviewReq'[r] = reviewReq[r] \/ reviewReq'[r].pc # "insert"

LEMMA ReviewSteps ==
    ASSUME ReviewTypeInv, [ReviewNext]_reviewVars
    PROVE  \/ ReviewShrinks
           \/ \E r \in Requests, u \in Users, v \in Variants :
                 \E fields \in [ReviewFields -> Contents] : CreateReview(r, u, v, fields)
           \/ \E r \in Requests : InsertReview(r)
<1>t. /\ reviewReq \in [Requests -> ReviewReqs]
      /\ review \in [ReviewIds -> ReviewDocs \cup {None}]
  BY DEF ReviewTypeInv, ReviewShape
<1>i. ReviewIdle.pc = "idle"
  BY DEF ReviewIdle
<1>1. CASE \/ \E u \in Users : ReviewUserCreated(u)
           \/ \E v \in Variants : ReviewVariantCreated(v)
           \/ UNCHANGED reviewVars
  <2>1. UNCHANGED <<review, reviewIssued, reviewReq, reviewTwice>>
    BY <1>1 DEF ReviewUserCreated, ReviewVariantCreated, reviewVars
  <2> QED
    BY <2>1 DEF ReviewShrinks, PairOf, Exists
<1>2. ASSUME NEW r \in Requests,
             \/ \E i \in ReviewIds : \E F \in SUBSET ReviewFields \ {{}} :
                   \E fields \in [F -> Contents] : UpdateReview(r, i, fields)
             \/ \E i \in ReviewIds : DeleteReview(r, i)
             \/ ReviewRequestFails(r)
      PROVE  ReviewShrinks
  <2>1. UNCHANGED <<review, reviewIssued, reviewTwice>>
    BY <1>2 DEF UpdateReview, DeleteReview, ReviewRequestFails
  <2>2. \E q : q.pc # "insert" /\ reviewReq' = [reviewReq EXCEPT ![r] = q]
    <3>1. ASSUME NEW i, NEW fields, UpdateReview(r, i, fields)
          PROVE  \E q : q.pc # "insert" /\ reviewReq' = [reviewReq EXCEPT ![r] = q]
      BY <3>1 DEF UpdateReview, ReviewGoto, ReviewIdle
    <3>2. ASSUME NEW i, DeleteReview(r, i)
          PROVE  \E q : q.pc # "insert" /\ reviewReq' = [reviewReq EXCEPT ![r] = q]
      BY <3>2 DEF DeleteReview, ReviewGoto, ReviewIdle
    <3>3. CASE ReviewRequestFails(r)
      BY <1>i, <3>3 DEF ReviewRequestFails, ReviewGoto
    <3> QED
      BY <1>2, <3>1, <3>2, <3>3
  <2> QED
    BY <1>t, <2>1, <2>2 DEF ReviewShrinks, PairOf, Exists
<1>3. ASSUME NEW r \in Requests, NEW f \in ReviewFields, SetReviewField(r, f)
      PROVE  ReviewShrinks
  <2> DEFINE q == reviewReq[r]
  <2>1. /\ q.pc = "set"
        /\ review' = IF Exists(q.id)
                     THEN [review EXCEPT ![q.id].fields[f] = q.set[f]] ELSE review
        /\ reviewReq' = [reviewReq EXCEPT ![r] = FieldWritten(q, f)]
        /\ UNCHANGED <<reviewIssued, reviewTwice>>
    BY <1>3 DEF SetReviewField, ReviewGoto
  <2>2. FieldWritten(q, f).pc # "insert"
    <3>1. q \in ReviewReqs
      BY <1>t
    <3>2. \A g : [q EXCEPT !.set = g].pc = q.pc
      BY <3>1 DEF ReviewReqs
    <3>3. \E g : FieldWritten(q, f) \in {ReviewIdle, [q EXCEPT !.set = g]}
      BY DEF FieldWritten
    <3> HIDE DEF q
    <3> QED
      BY <1>i, <2>1, <3>2, <3>3
  <2>3. ASSUME NEW i \in ReviewIds, review'[i] # None
        PROVE  Exists(i) /\ PairOf(i)' = PairOf(i)
    <3>1. CASE review'[i] = review[i]
      BY <2>3, <3>1 DEF Exists, PairOf
    <3>2. CASE review'[i] # review[i]
      <4>1. i = q.id /\ Exists(i) /\ review[i] \in ReviewDocs
        BY <1>t, <2>1, <3>2 DEF Exists
      <4>2. review'[i] = [review[i] EXCEPT !.fields[f] = q.set[f]]
        BY <1>t, <2>1, <4>1
      <4>3. review'[i].user = review[i].user /\ review'[i].variant = review[i].variant
        BY <4>1, <4>2 DEF ReviewDocs
      <4> QED
        BY <4>1, <4>3 DEF PairOf
    <3> QED
      BY <3>1, <3>2
  <2> QED
    BY <1>t, <2>1, <2>2, <2>3 DEF ReviewShrinks
<1>4. ASSUME NEW r \in Requests, DeleteOne(r)
      PROVE  ReviewShrinks
  <2>1. /\ UNCHANGED <<reviewIssued, reviewTwice>>
        /\ \A x \in Requests : reviewReq'[x] = reviewReq[x] \/ reviewReq'[x] = ReviewIdle
        /\ \A i \in ReviewIds : review'[i] \in {None, review[i]}
    BY <1>t, <1>4 DEF DeleteOne, ReviewGoto
  <2> QED
    BY <1>i, <2>1 DEF ReviewShrinks, PairOf, Exists
<1> QED
  BY <1>1, <1>2, <1>3, <1>4 DEF ReviewNext, ReviewRequest

LEMMA ReviewPairsStep ==
    ASSUME ReviewInv, [ReviewNext]_reviewVars
    PROVE  ReviewPairs'
<1>t. /\ reviewReq \in [Requests -> ReviewReqs]
      /\ review \in [ReviewIds -> ReviewDocs \cup {None}]
      /\ reviewIssued \in 0 .. MaxReviews /\ MaxReviews \in Nat
  BY ReviewAssumption DEF ReviewInv, ReviewTypeInv, ReviewShape
<1>p. ReviewPairs /\ ReviewKnown /\ ReviewTypeInv
  BY DEF ReviewInv, ReviewTypeInv
<1>1. CASE ReviewShrinks
  <2>1. \A r \in Requests : reviewReq'[r].pc = "insert" =>
           reviewReq[r].pc = "insert" /\ Asked(r)' = Asked(r)
    BY <1>1 DEF ReviewShrinks, Asked
  <2>2. \A i \in ReviewIds : Exists(i)' => Exists(i) /\ PairOf(i)' = PairOf(i)
    BY <1>1 DEF ReviewShrinks, Exists
  <2>3. reviewTwice' = reviewTwice
    BY <1>1 DEF ReviewShrinks
  <2> QED
    BY <1>p, <2>1, <2>2, <2>3 DEF ReviewPairs, ReviewedOnce
<1>2. ASSUME NEW r \in Requests, NEW u \in Users, NEW v \in Variants, NEW fields,
             CreateReview(r, u, v, fields)
      PROVE  ReviewPairs'
  <2>1. /\ PairFree(u, v) /\ UNCHANGED <<review, reviewIssued>>
        /\ reviewTwice' = IF Inserting(u, v) # {}
                          THEN reviewTwice \cup {<<u, v>>} ELSE reviewTwice
        /\ reviewReq'[r].user = u /\ reviewReq'[r].variant = v
        /\ \A x \in Requests \ {r} : reviewReq'[x] = reviewReq[x]
    BY <1>2, <1>t DEF CreateReview, ReviewGoto, ReviewIdle
  <2>2. Asked(r)' = <<u, v>> /\ \A x \in Requests \ {r} : Asked(x)' = Asked(x)
    BY <2>1 DEF Asked
  <2>3. \A x \in Requests : reviewReq[x].pc = "insert" /\ Asked(x) = <<u, v>>
           => <<u, v>> \in reviewTwice'
    BY <2>1 DEF Asked, Inserting
  <2>4. \A i \in ReviewIds : /\ Exists(i)' = Exists(i) /\ PairOf(i)' = PairOf(i)
                             /\ Exists(i) => PairOf(i) # <<u, v>>
    BY <2>1 DEF Exists, PairOf, PairFree
  <2>5. reviewTwice \subseteq reviewTwice'
    BY <2>1
  <2>6. ReviewedOnce'
    BY <1>p, <2>4, <2>5 DEF ReviewPairs, ReviewedOnce
  <2>7. \A x \in Requests, i \in ReviewIds :
           reviewReq'[x].pc = "insert" /\ Exists(i)' /\ PairOf(i)' = Asked(x)'
              => Asked(x)' \in reviewTwice'
    BY <1>p, <2>1, <2>2, <2>4, <2>5 DEF ReviewPairs
  <2>8. \A y, x \in Requests :
           /\ y # x /\ reviewReq'[y].pc = "insert" /\ reviewReq'[x].pc = "insert"
           /\ Asked(y)' = Asked(x)'
           => Asked(y)' \in reviewTwice'
    BY <1>p, <2>1, <2>2, <2>3, <2>5 DEF ReviewPairs
  <2> QED
    BY <2>6, <2>7, <2>8 DEF ReviewPairs
<1>3. ASSUME NEW r \in Requests, InsertReview(r)
      PROVE  ReviewPairs'
  <2> DEFINE n == reviewIssued + 1
  <2>1. /\ reviewReq[r].pc = "insert" /\ n \in ReviewIds
        /\ review' = [review EXCEPT ![n] =
              [user |-> reviewReq[r].user, variant |-> reviewReq[r].variant,
               product |-> ProductOf[reviewReq[r].variant], fields |-> reviewReq[r].set]]
        /\ reviewReq' = [reviewReq EXCEPT ![r] = ReviewIdle]
        /\ reviewTwice' = reviewTwice
    BY <1>3, <1>t DEF InsertReview, ReviewGoto, ReviewIds
  <2>2. /\ review'[n].user = reviewReq[r].user /\ review'[n].variant = reviewReq[r].variant
        /\ \A i \in ReviewIds \ {n} : review'[i] = review[i]
    BY <1>t, <2>1
  <2>3. /\ reviewReq'[r].pc # "insert"
        /\ \A x \in Requests \ {r} : reviewReq'[x] = reviewReq[x]
    BY <1>t, <2>1 DEF ReviewIdle
  <2>k. PICK m \in ReviewIds : m = n
    BY <2>1
  <2>4. /\ PairOf(m)' = Asked(r)
        /\ \A i \in ReviewIds \ {m} : Exists(i)' = Exists(i) /\ PairOf(i)' = PairOf(i)
    BY <2>2, <2>k DEF PairOf, Asked, Exists
  <2>5. \A x \in Requests : reviewReq'[x].pc = "insert" =>
           x # r /\ reviewReq[x].pc = "insert" /\ Asked(x)' = Asked(x)
    BY <2>3 DEF Asked
  <2>6. ReviewedOnce'
    BY <1>p, <2>1, <2>4 DEF ReviewPairs, ReviewedOnce
  <2>7. \A x \in Requests, i \in ReviewIds :
           reviewReq'[x].pc = "insert" /\ Exists(i)' /\ PairOf(i)' = Asked(x)'
              => Asked(x)' \in reviewTwice'
    BY <1>p, <2>1, <2>4, <2>5 DEF ReviewPairs
  <2>8. \A y, x \in Requests :
           /\ y # x /\ reviewReq'[y].pc = "insert" /\ reviewReq'[x].pc = "insert"
           /\ Asked(y)' = Asked(x)'
           => Asked(y)' \in reviewTwice'
    BY <1>p, <2>1, <2>5 DEF ReviewPairs
  <2> QED
    BY <2>6, <2>7, <2>8 DEF ReviewPairs
<1> QED
  BY <1>1, <1>2, <1>3, <1>p, ReviewSteps

LEMMA ReviewInvStep == ReviewInv /\ [ReviewNext]_reviewVars => ReviewInv'
BY ReviewTypeStep, ReviewPairsStep DEF ReviewInv

(* The invariant gives the type invariant of the review service.            *)
LEMMA ReviewInvTypes == ReviewInv => ReviewTypeOK
<1> SUFFICES ASSUME ReviewInv PROVE ReviewTypeOK
  OBVIOUS
<1>1. ReviewShape /\ ReviewKnown
  BY DEF ReviewInv, ReviewTypeInv
<1>2. \A i \in ReviewIds : Exists(i) => review[i] \in ReviewDocs
  BY <1>1 DEF ReviewShape, Exists
<1>3. \A r \in Requests :
         /\ reviewReq[r] \in ReviewReqs
         /\ DOMAIN reviewReq[r].set \subseteq ReviewFields
         /\ \A f \in DOMAIN reviewReq[r].set : reviewReq[r].set[f] \in Contents
  <2> SUFFICES ASSUME NEW r \in Requests
               PROVE  /\ reviewReq[r] \in ReviewReqs
                      /\ DOMAIN reviewReq[r].set \subseteq ReviewFields
                      /\ \A f \in DOMAIN reviewReq[r].set :
                            reviewReq[r].set[f] \in Contents
    OBVIOUS
  <2>1. reviewReq[r] \in ReviewReqs
    BY <1>1 DEF ReviewShape
  <2>2. PICK F \in SUBSET ReviewFields : reviewReq[r].set \in [F -> Contents]
    BY <2>1 DEF ReviewReqs
  <2> QED
    BY <2>1, <2>2
<1> QED
  BY <1>1, <1>2, <1>3 DEF ReviewTypeOK, ReviewShape, ReviewKnown, ReviewDocs, ReviewReqs

(* Every step inserts, deletes or keeps each review.                        *)
LEMMA ReviewLifeStep ==
    ASSUME ReviewInv, [ReviewNext]_reviewVars
    PROVE  ReviewLife!Write
<1>t. /\ reviewReq \in [Requests -> ReviewReqs]
      /\ review \in [ReviewIds -> ReviewDocs \cup {None}]
      /\ reviewIssued \in 0 .. MaxReviews /\ MaxReviews \in Nat
      /\ None \notin ReviewDocs
  BY ReviewAssumption DEF ReviewInv, ReviewTypeInv, ReviewShape
<1>k. ReviewKnown /\ ReviewTypeInv
  BY DEF ReviewInv, ReviewTypeInv
<1> SUFFICES ASSUME NEW i \in ReviewIds
             PROVE  ReviewLife!Keep(i) \/ ReviewLife!Insert(i) \/ ReviewLife!Delete(i)
  BY DEF ReviewLife!Write
<1>1. CASE /\ reviewIssued' = reviewIssued
           /\ \/ review'[i] = None
              \/ Exists(i) /\ review'[i] # None /\ PairOf(i)' = PairOf(i)
  <2>1. Exists(i) => i <= reviewIssued
    BY <1>k DEF ReviewKnown
  <2> QED
    BY <1>1, <2>1 DEF ReviewLife!Keep, ReviewLife!Delete, Exists
<1>2. ASSUME NEW r \in Requests, InsertReview(r)
      PROVE  ReviewLife!Keep(i) \/ ReviewLife!Insert(i)
  <2> DEFINE q == reviewReq[r]
             n == reviewIssued + 1
             d == [user |-> q.user, variant |-> q.variant,
                   product |-> ProductOf[q.variant], fields |-> q.set]
  <2>1. /\ q.pc = "insert" /\ n \in ReviewIds /\ reviewIssued' = n
        /\ review' = [review EXCEPT ![n] = d]
    BY <1>2, <1>t DEF InsertReview, ReviewIds
  <2>2. /\ q.user \in Users /\ q.variant \in Variants
        /\ q.set \in [ReviewFields -> Contents]
    BY <2>1, <1>k DEF ReviewTypeInv, ReviewKnown, ReviewShape
  <2>3. d \in ReviewDocs /\ d # None /\ d.user = q.user /\ d.variant = q.variant
    BY <1>t, <2>2 DEF ReviewDocs
  <2>4. review'[n] = d /\ (i # n => review'[i] = review[i])
    BY <1>t, <2>1
  <2>5. i \in Nat /\ (i <= reviewIssued' <=> (i <= reviewIssued \/ i = n))
        /\ ~(n <= reviewIssued)
    BY <1>t, <2>1 DEF ReviewIds
  <2> HIDE DEF d
  <2>6. CASE i # n
    BY <2>4, <2>5, <2>6 DEF ReviewLife!Keep, Exists, PairOf
  <2>7. CASE i = n
    <3>1. review[i] = None
      BY <1>k, <2>5, <2>7 DEF ReviewKnown, Exists
    <3>2. review'[i] # None /\ <<review'[i].user, review'[i].variant>> \in Users \X Variants
      BY <2>2, <2>3, <2>4, <2>7
    <3> QED
      BY <2>5, <2>7, <3>1, <3>2 DEF ReviewLife!Insert, Exists, PairOf
  <2> QED
    BY <2>6, <2>7
<1>3. ASSUME NEW r, NEW u, NEW v, NEW fields, CreateReview(r, u, v, fields)
      PROVE  ReviewLife!Keep(i)
  BY <1>3 DEF CreateReview, ReviewLife!Keep, Exists, PairOf
<1>4. CASE ReviewShrinks
  BY <1>1, <1>4 DEF ReviewShrinks
<1> QED
  BY <1>2, <1>3, <1>4, <1>k, ReviewSteps
-----------------------------------------------------------------------------
(* The wishlist service.  A request is a record of this shape.              *)
WishReqs == [pc : {"idle", "insert", "variants", "name", "refetch", "delete"},
             id : Nat, user : Users \cup {None}, fetched : WishlistDocs \cup {None},
             variants : (SUBSET Variants) \cup {None}, name : Names \cup {None},
             alone : BOOLEAN]
Updating == {"variants", "name", "refetch"}

WishShape ==
    /\ wishUsers \subseteq Users /\ wishVariants \subseteq Variants
    /\ wishIssued \in 0 .. MaxWishlists
    /\ wishlist \in [WishlistIds -> WishlistDocs \cup {None}]
    /\ wishReq \in [Requests -> WishReqs]
(* What a request was checked for stays true until it writes.               *)
WishReqKnown(q) ==
    /\ q.id \in 0 .. wishIssued
    /\ q.variants # None => q.variants \subseteq wishVariants
    /\ q.pc = "insert" => /\ q.user \in wishUsers
                          /\ q.variants # None /\ q.name # None
    /\ q.pc \in Updating => q.fetched # None
    /\ q.pc \notin {"idle", "insert"} => q.id \in WishlistIds
    /\ q.pc = "variants" => q.variants # None
    /\ q.pc = "name" => q.name # None
WishKnown ==
    /\ \A i \in WishlistIds : Listed(i) =>
          /\ i <= wishIssued
          /\ wishlist[i].user \in wishUsers
          /\ wishlist[i].variants \subseteq wishVariants
    /\ \A r \in Requests : WishReqKnown(wishReq[r])
WishTypeInv == WishShape /\ WishKnown

(* A request that is alone shares its wishlist with no other, and finds it  *)
(* as it has left it.                                                       *)
Expected(q) ==
    [user |-> q.fetched.user,
     variants |-> IF q.pc # "variants" /\ q.variants # None THEN q.variants
                  ELSE q.fetched.variants,
     name |-> IF q.pc = "refetch" /\ q.name # None THEN q.name ELSE q.fetched.name]
WishAlone ==
    \A r \in Requests : wishReq[r].pc # "idle" /\ wishReq[r].alone =>
       /\ \A x \in Requests : wishReq[x].pc # "idle" /\ wishReq[x].id = wishReq[r].id
                                 => x = r
       /\ wishReq[r].pc \in Updating => wishlist[wishReq[r].id] = Expected(wishReq[r])

WishInv == WishTypeInv /\ WishAlone

LEMMA WishIdleType ==
    /\ WishIdle \in WishReqs /\ WishIdle.pc = "idle" /\ WishIdle.id = 0
    /\ WishIdle.variants = None
BY DEF WishIdle, WishReqs

(* A request keeps its shape and its other fields when its solitude ends.    *)
LEMMA WishAloneFields ==
    ASSUME NEW q \in WishReqs, NEW b \in BOOLEAN
    PROVE  LET p == [q EXCEPT !.alone = b]
           IN  /\ p \in WishReqs /\ p.alone = b /\ p.pc = q.pc /\ p.id = q.id
               /\ p.user = q.user /\ p.fetched = q.fetched
               /\ p.variants = q.variants /\ p.name = q.name
BY DEF WishReqs

(* What a started request changes: its own record, and the solitude of the  *)
(* others on its wishlist.                                                  *)
LEMMA WishStartStep ==
    ASSUME WishInv, NEW r \in Requests, NEW q \in WishReqs, WishReqKnown(q),
           q.pc # "idle", q.pc \in Updating => wishlist[q.id] = Expected(q),
           WishStart(r, q)
    PROVE  WishInv'
<1>t. /\ wishReq \in [Requests -> WishReqs] /\ WishShape /\ WishKnown
  BY DEF WishInv, WishTypeInv, WishShape
<1>f. UNCHANGED <<wishlist, wishUsers, wishVariants, wishIssued>>
      /\ wishReq[r].pc = "idle"
  BY DEF WishStart, WishFrame
<1> DEFINE b == (On(q.id) = {})
<1>1. /\ wishReq'[r] = [q EXCEPT !.alone = b]
      /\ \A s \in Requests \ {r} :
            wishReq'[s] = IF s \in On(q.id) THEN [wishReq[s] EXCEPT !.alone = FALSE]
                          ELSE wishReq[s]
      /\ wishReq' = [s \in Requests |-> wishReq'[s]]
  BY DEF WishStart
<1>2. b \in BOOLEAN
  OBVIOUS
<1> HIDE DEF b
<1>3. /\ wishReq'[r] \in WishReqs /\ wishReq'[r].alone = b /\ wishReq'[r].pc = q.pc
      /\ wishReq'[r].id = q.id /\ wishReq'[r].user = q.user
      /\ wishReq'[r].fetched = q.fetched
      /\ wishReq'[r].variants = q.variants /\ wishReq'[r].name = q.name
  BY <1>1, <1>2, WishAloneFields
<1>4. ASSUME NEW s \in Requests \ {r}
      PROVE  /\ wishReq'[s] \in WishReqs /\ wishReq'[s].pc = wishReq[s].pc
             /\ wishReq'[s].id = wishReq[s].id /\ wishReq'[s].user = wishReq[s].user
             /\ wishReq'[s].fetched = wishReq[s].fetched
             /\ wishReq'[s].variants = wishReq[s].variants
             /\ wishReq'[s].name = wishReq[s].name
             /\ s \in On(q.id) => ~wishReq'[s].alone
             /\ wishReq'[s].alone => wishReq[s].alone
  <2>1. wishReq[s] \in WishReqs
    BY <1>t
  <2>2. CASE s \in On(q.id)
    <3>1. wishReq'[s] = [wishReq[s] EXCEPT !.alone = FALSE]
      BY <1>1, <2>2
    <3> QED
      BY <2>1, <3>1, WishAloneFields
  <2>3. CASE s \notin On(q.id)
    BY <1>1, <2>1, <2>3
  <2> QED
    BY <2>2, <2>3
<1>5. wishReq' \in [Requests -> WishReqs]
  BY <1>1, <1>3, <1>4
<1>6. WishShape'
  BY <1>t, <1>f, <1>5 DEF WishShape
<1>7. WishKnown'
  <2>1. \A s \in Requests : WishReqKnown(wishReq[s])'
    <3> SUFFICES ASSUME NEW s \in Requests PROVE WishReqKnown(wishReq[s])'
      OBVIOUS
    <3>1. CASE s = r
      BY <1>f, <1>3, <3>1 DEF WishReqKnown
    <3>2. CASE s # r
      <4>1. WishReqKnown(wishReq[s])
        BY <1>t DEF WishKnown
      <4> QED
        BY <1>f, <1>4, <3>2, <4>1 DEF WishReqKnown
    <3> QED
      BY <3>1, <3>2
  <2> QED
    BY <1>t, <1>f, <2>1 DEF WishKnown, Listed
<1>8. WishAlone'
  <2> SUFFICES ASSUME NEW s \in Requests, wishReq'[s].pc # "idle", wishReq'[s].alone
               PROVE  /\ \A x \in Requests :
                            wishReq'[x].pc # "idle" /\ wishReq'[x].id = wishReq'[s].id
                               => x = s
                      /\ wishReq'[s].pc \in Updating =>
                            wishlist'[wishReq'[s].id] = Expected(wishReq'[s])
    BY DEF WishAlone, Expected
  <2>1. CASE s = r
    <3>1. On(q.id) = {}
      BY <1>3, <2>1 DEF b
    <3>2. \A x \in Requests \ {r} : ~(wishReq'[x].pc # "idle" /\ wishReq'[x].id = q.id)
      BY <1>4, <3>1 DEF On
    <3>3. Expected(wishReq'[r]) = Expected(q)
      BY <1>3 DEF Expected
    <3> QED
      BY <1>f, <1>3, <2>1, <3>2, <3>3
  <2>2. CASE s # r
    <3>1. s \notin On(q.id) /\ wishReq[s].alone /\ wishReq[s].pc # "idle"
      BY <1>4, <2>2
    <3>2. q.id # wishReq[s].id
      BY <3>1 DEF On
    <3>3. Expected(wishReq'[s]) = Expected(wishReq[s])
      BY <1>4, <2>2 DEF Expected
    <3>4. \A x \in Requests : wishReq'[x].pc # "idle" /\ wishReq'[x].id = wishReq'[s].id
             => x = s
      BY <1>3, <1>4, <2>2, <3>1, <3>2 DEF WishInv, WishAlone
    <3>5. wishReq[s].pc \in Updating => wishlist[wishReq[s].id] = Expected(wishReq[s])
      BY <3>1 DEF WishInv, WishAlone
    <3> QED
      BY <1>f, <1>4, <2>2, <3>3, <3>4, <3>5
  <2> QED
    BY <2>1, <2>2
<1> QED
  BY <1>6, <1>7, <1>8 DEF WishInv, WishTypeInv

(* What a request in progress writes: its own record, and no wishlist other *)
(* than its own or a new one.                                               *)
LEMMA WishWriteStep ==
    ASSUME WishInv, NEW r \in Requests, wishReq[r].pc # "idle",
           NEW p \in WishReqs, wishReq' = [wishReq EXCEPT ![r] = p],
           UNCHANGED <<wishUsers, wishVariants>>,
           wishIssued' \in wishIssued .. MaxWishlists,
           wishlist' \in [WishlistIds -> WishlistDocs \cup {None}],
           p.pc = "idle" \/ (p.id = wishReq[r].id /\ p.alone = wishReq[r].alone),
           WishReqKnown(p)',
           \A i \in WishlistIds : wishlist'[i] # None =>
              /\ i <= wishIssued'
              /\ wishlist'[i].user \in wishUsers
              /\ wishlist'[i].variants \subseteq wishVariants,
           \A i \in WishlistIds :
              wishlist'[i] # wishlist[i] => i = wishReq[r].id \/ i > wishIssued,
           p.pc \in Updating /\ p.alone => wishlist'[p.id] = Expected(p)
    PROVE  WishInv'
<1>t. /\ wishReq \in [Requests -> WishReqs] /\ WishShape /\ WishKnown /\ WishAlone
      /\ wishIssued \in Nat /\ MaxWishlists \in Nat /\ wishIssued' \in Nat
      /\ wishIssued <= wishIssued'
  BY WishlistAssumption DEF WishInv, WishTypeInv, WishShape
<1>1. /\ wishReq'[r] = p /\ \A s \in Requests \ {r} : wishReq'[s] = wishReq[s]
      /\ wishReq' \in [Requests -> WishReqs]
  BY <1>t
<1>2. WishShape'
  BY <1>t, <1>1 DEF WishShape
<1>3. WishKnown'
  <2>1. \A s \in Requests : WishReqKnown(wishReq[s])'
    <3> SUFFICES ASSUME NEW s \in Requests PROVE WishReqKnown(wishReq[s])'
      OBVIOUS
    <3>1. CASE s = r
      BY <1>1, <3>1 DEF WishReqKnown
    <3>2. CASE s # r
      <4>1. WishReqKnown(wishReq[s]) /\ wishReq[s] \in WishReqs
        BY <1>t DEF WishKnown
      <4>2. wishReq'[s] = wishReq[s] /\ wishReq[s].id \in Nat
        BY <1>1, <3>2, <4>1 DEF WishReqs
      <4> QED
        BY <1>t, <4>1, <4>2 DEF WishReqKnown
    <3> QED
      BY <3>1, <3>2
  <2> QED
    BY <1>t, <2>1 DEF WishKnown, Listed
<1>4. WishAlone'
  <2> SUFFICES ASSUME NEW s \in Requests, wishReq'[s].pc # "idle", wishReq'[s].alone
               PROVE  /\ \A x \in Requests :
                            wishReq'[x].pc # "idle" /\ wishReq'[x].id = wishReq'[s].id
                               => x = s
                      /\ wishReq'[s].pc \in Updating =>
                            wishlist'[wishReq'[s].id] = Expected(wishReq'[s])
    BY DEF WishAlone, Expected
  <2>1. CASE s = r
    BY <1>t, <1>1, <2>1 DEF WishAlone
  <2>2. CASE s # r
    <3>1. wishReq'[s] = wishReq[s] /\ wishReq[s].id # wishReq[r].id
      BY <1>t, <1>1, <2>2 DEF WishAlone
    <3>2. \A x \in Requests : wishReq'[x].pc # "idle" /\ wishReq'[x].id = wishReq'[s].id
             => x = s
      BY <1>t, <1>1, <2>2, <3>1 DEF WishAlone
    <3>3. ASSUME wishReq[s].pc \in Updating
          PROVE  wishlist'[wishReq[s].id] = Expected(wishReq[s])
      <4>1. wishlist[wishReq[s].id] = Expected(wishReq[s])
        BY <1>t, <3>1, <3>3 DEF WishAlone
      <4>2. wishReq[s].id \in WishlistIds /\ wishReq[s].id <= wishIssued
        BY <1>t, <3>3 DEF WishKnown, WishReqKnown, Updating
      <4>3. ~(wishReq[s].id > wishIssued)
        BY <1>t, <4>2 DEF WishlistIds
      <4> QED
        BY <3>1, <4>1, <4>2, <4>3
    <3> QED
      BY <3>1, <3>2, <3>3
  <2> QED
    BY <2>1, <2>2
<1> QED
  BY <1>2, <1>3, <1>4 DEF WishInv, WishTypeInv

(* The steps of a request of the wishlist service.                          *)
LEMMA WishRequestStep ==
    ASSUME WishInv, NEW r \in Requests, WishRequest(r)
    PROVE  WishInv'
<1>t. /\ wishReq \in [Requests -> WishReqs] /\ WishShape /\ WishKnown /\ WishAlone
      /\ wishIssued \in 0 .. MaxWishlists /\ MaxWishlists \in Nat
      /\ wishlist \in [WishlistIds -> WishlistDocs \cup {None}]
      /\ wishUsers \subseteq Users /\ wishVariants \subseteq Variants
  BY WishlistAssumption DEF WishInv, WishTypeInv, WishShape
<1>q. wishReq[r] \in WishReqs /\ WishReqKnown(wishReq[r])
  BY <1>t DEF WishKnown
<1>z. wishIssued' \in Nat => WishReqKnown(WishIdle)'
  BY WishIdleType DEF WishReqKnown, Updating
<1>k. /\ wishIssued \in wishIssued .. MaxWishlists
      /\ \A i \in WishlistIds : wishlist[i] # None =>
            /\ i <= wishIssued /\ wishlist[i] \in WishlistDocs
            /\ wishlist[i].user \in wishUsers
            /\ wishlist[i].variants \subseteq wishVariants
  BY <1>t DEF WishKnown, Listed
<1>1. ASSUME NEW u \in Users, NEW name \in Names, NEW variants \in SUBSET Variants,
             CreateWishlist(r, u, variants, name)
      PROVE  WishInv'
  <2> DEFINE q == [WishIdle EXCEPT !.pc = "insert", !.user = u,
                                   !.variants = variants, !.name = name]
  <2>1. /\ q \in WishReqs /\ q.pc = "insert" /\ q.id = 0 /\ q.user = u
        /\ q.variants = variants /\ q.name = name
    BY DEF WishIdle, WishReqs
  <2>2. WishStart(r, q) /\ variants \subseteq wishVariants /\ u \in wishUsers
    BY <1>1 DEF CreateWishlist
  <2> HIDE DEF q
  <2>3. WishReqKnown(q) /\ q.pc \notin Updating
    BY <1>t, <2>1, <2>2, WishlistAssumption DEF WishReqKnown, Updating
  <2> QED
    BY <2>1, <2>2, <2>3, WishStartStep
<1>2. ASSUME NEW i \in WishlistIds, NEW name \in Names \cup {None},
             NEW variants \in (SUBSET Variants) \cup {None},
             UpdateWishlist(r, i, variants, name)
      PROVE  WishInv'
  <2> DEFINE pc == IF variants # None THEN "variants"
                   ELSE IF name # None THEN "name" ELSE "refetch"
             q == [WishIdle EXCEPT !.id = i, !.user = wishlist[i].user,
                        !.fetched = wishlist[i],
                        !.variants = variants, !.name = name, !.pc = pc]
  <2>0. /\ pc \in Updating /\ (pc = "variants" <=> variants # None)
        /\ (pc = "refetch" => name = None) /\ (pc = "name" => name # None)
    BY DEF Updating
  <2>1. WishStart(r, q) /\ Listed(i) /\ (variants # None => variants \subseteq wishVariants)
    BY <1>2 DEF UpdateWishlist
  <2> HIDE DEF pc
  <2>2. /\ wishlist[i] \in WishlistDocs /\ wishlist[i].user \in Users
        /\ i <= wishIssued /\ i \in Nat
    BY <1>t, <1>k, <2>1 DEF Listed, WishlistDocs, WishlistIds
  <2>3. /\ q \in WishReqs /\ q.pc = pc /\ q.id = i /\ q.fetched = wishlist[i]
        /\ q.variants = variants /\ q.name = name
    BY <2>0, <2>2 DEF WishIdle, WishReqs, Updating
  <2> HIDE DEF q
  <2>4. WishReqKnown(q) /\ q.pc # "idle"
    BY <1>t, <2>0, <2>1, <2>2, <2>3 DEF WishReqKnown, Updating, Listed
  <2>5. Expected(q) = [user |-> wishlist[i].user, variants |-> wishlist[i].variants,
                       name |-> wishlist[i].name]
    BY <2>0, <2>3 DEF Expected
  <2>6. wishlist[i] = [user |-> wishlist[i].user, variants |-> wishlist[i].variants,
                       name |-> wishlist[i].name]
    BY <2>2 DEF WishlistDocs
  <2> QED
    BY <2>1, <2>3, <2>4, <2>5, <2>6, WishStartStep
<1>3. ASSUME NEW i \in WishlistIds, DeleteWishlist(r, i)
      PROVE  WishInv'
  <2> DEFINE q == [WishIdle EXCEPT !.pc = "delete", !.id = i, !.user = wishlist[i].user]
  <2>1. WishStart(r, q) /\ Listed(i)
    BY <1>3 DEF DeleteWishlist
  <2>2. wishlist[i].user \in Users /\ i <= wishIssued /\ i \in Nat
    BY <1>t, <1>k, <2>1 DEF Listed, WishlistDocs, WishlistIds
  <2>3. q \in WishReqs /\ q.pc = "delete" /\ q.id = i /\ q.variants = None
    BY <2>2 DEF WishIdle, WishReqs
  <2> HIDE DEF q
  <2>4. WishReqKnown(q) /\ q.pc # "idle" /\ q.pc \notin Updating
    BY <1>t, <2>2, <2>3 DEF WishReqKnown, Updating
  <2> QED
    BY <2>1, <2>3, <2>4, WishStartStep
<1>i. WishIdle \in WishReqs /\ WishIdle.pc = "idle" /\ WishIdle.pc \notin Updating
  BY WishIdleType DEF Updating
<1>4. ASSUME InsertWishlist(r)
      PROVE  WishInv'
  <2> DEFINE q == wishReq[r]
             d == [user |-> q.user, variants |-> q.variants, name |-> q.name]
             n == wishIssued + 1
  <2>1. /\ q.pc = "insert" /\ n \in WishlistIds /\ wishIssued' = n
        /\ wishlist' = [wishlist EXCEPT ![n] = d]
        /\ wishReq' = [wishReq EXCEPT ![r] = WishIdle]
        /\ UNCHANGED <<wishUsers, wishVariants>>
        /\ wishIssued' \in wishIssued .. MaxWishlists /\ wishIssued' \in Nat
    BY <1>4, <1>t DEF InsertWishlist, WishGoto, WishlistIds
  <2>2. d \in WishlistDocs /\ d.user \in wishUsers /\ d.variants \subseteq wishVariants
    BY <1>q, <1>t, <2>1 DEF WishReqKnown, WishReqs, WishlistDocs
  <2> HIDE DEF d
  <2>3. /\ wishlist' \in [WishlistIds -> WishlistDocs \cup {None}]
        /\ wishlist'[n] = d /\ \A i \in WishlistIds \ {n} : wishlist'[i] = wishlist[i]
    BY <1>t, <2>1, <2>2
  <2>4. \A i \in WishlistIds : wishlist'[i] # None =>
           /\ i <= wishIssued'
           /\ wishlist'[i].user \in wishUsers
           /\ wishlist'[i].variants \subseteq wishVariants
    <3> SUFFICES ASSUME NEW i \in WishlistIds, wishlist'[i] # None
                 PROVE  /\ i <= wishIssued'
                        /\ wishlist'[i].user \in wishUsers
                        /\ wishlist'[i].variants \subseteq wishVariants
      OBVIOUS
    <3>1. CASE i = n
      BY <1>t, <2>1, <2>2, <2>3, <3>1 DEF WishlistIds
    <3>2. CASE i # n
      BY <1>t, <1>k, <2>1, <2>3, <3>2 DEF WishlistIds
    <3> QED
      BY <3>1, <3>2
  <2>5. \A i \in WishlistIds : wishlist'[i] # wishlist[i] => i = q.id \/ i > wishIssued
    BY <1>t, <2>3
  <2> QED
    BY <1>i, <1>z, <2>1, <2>3, <2>4, <2>5, WishWriteStep
<1>5. ASSUME WishFrame, UNCHANGED wishlist, wishReq[r].pc # "idle", WishGoto(r, WishIdle)
      PROVE  WishInv'
  <2>1. wishIssued' \in wishIssued .. MaxWishlists /\ UNCHANGED <<wishUsers, wishVariants>>
        /\ wishIssued' = wishIssued /\ wishIssued' \in Nat
    BY <1>5, <1>k, <1>t DEF WishFrame
  <2>2. /\ wishlist' \in [WishlistIds -> WishlistDocs \cup {None}]
        /\ wishReq' = [wishReq EXCEPT ![r] = WishIdle]
    BY <1>5, <1>t DEF WishGoto
  <2> QED
    BY <1>5, <1>i, <1>k, <1>z, <2>1, <2>2, WishWriteStep
<1>6. ASSUME DeleteWishlistOne(r)
      PROVE  WishInv'
  <2>1. /\ wishReq[r].pc = "delete" /\ UNCHANGED <<wishUsers, wishVariants>>
        /\ wishlist' = [wishlist EXCEPT ![wishReq[r].id] = None]
        /\ wishReq' = [wishReq EXCEPT ![r] = WishIdle]
        /\ wishIssued' = wishIssued /\ wishIssued' \in wishIssued .. MaxWishlists
        /\ wishIssued' \in Nat
    BY <1>6, <1>k, <1>t DEF DeleteWishlistOne, WishGoto, WishFrame
  <2>2. /\ wishlist' \in [WishlistIds -> WishlistDocs \cup {None}]
        /\ \A i \in WishlistIds : wishlist'[i] = wishlist[i] \/ wishlist'[i] = None
        /\ \A i \in WishlistIds : wishlist'[i] # wishlist[i] => i = wishReq[r].id
    BY <1>t, <2>1
  <2>3. \A i \in WishlistIds : wishlist'[i] # None =>
           /\ i <= wishIssued'
           /\ wishlist'[i].user \in wishUsers
           /\ wishlist'[i].variants \subseteq wishVariants
    BY <1>k, <2>1, <2>2
  <2> QED
    BY <1>i, <1>z, <2>1, <2>2, <2>3, WishWriteStep
<1>7. ASSUME NEW pc \in {"name", "refetch"}, NEW d \in WishlistDocs \cup {None},
             wishReq[r].pc \in Updating, WishFrame,
             pc = "name" => wishReq[r].name # None,
             wishlist' = [wishlist EXCEPT ![wishReq[r].id] = d],
             WishGoto(r, [wishReq[r] EXCEPT !.pc = pc]),
             d # None => /\ wishlist[wishReq[r].id] # None
                         /\ d.user = wishlist[wishReq[r].id].user
                         /\ d.variants \subseteq wishVariants,
             wishlist[wishReq[r].id] = Expected(wishReq[r]) =>
                d = Expected([wishReq[r] EXCEPT !.pc = pc])
      PROVE  WishInv'
  <2> DEFINE q == wishReq[r]
  <2>0. PICK p \in WishReqs : p = [wishReq[r] EXCEPT !.pc = pc]
    BY <1>q DEF WishReqs
  <2>1. /\ p \in WishReqs /\ p.pc = pc /\ p.id = q.id /\ p.alone = q.alone
        /\ p.variants = q.variants /\ p.name = q.name /\ p.fetched = q.fetched
        /\ p.user = q.user
    BY <1>q, <2>0 DEF WishReqs
  <2>2. /\ wishReq' = [wishReq EXCEPT ![r] = p] /\ UNCHANGED <<wishUsers, wishVariants>>
        /\ wishIssued' = wishIssued /\ wishIssued' \in wishIssued .. MaxWishlists
        /\ q.pc # "idle" /\ q.id \in WishlistIds
    BY <1>7, <1>k, <1>q, <2>0 DEF WishGoto, WishFrame, Updating, WishReqKnown
  <2>3. /\ wishlist' \in [WishlistIds -> WishlistDocs \cup {None}]
        /\ wishlist'[q.id] = d
        /\ \A i \in WishlistIds \ {q.id} : wishlist'[i] = wishlist[i]
    BY <1>7, <1>t, <2>2
  <2>4. d = Expected(p) \/ wishlist[q.id] # Expected(q)
    BY <1>7, <2>0
  <2>5. q.alone => wishlist[q.id] = Expected(q)
    BY <1>7, <1>t, <2>2 DEF WishAlone
  <2>6. WishReqKnown(p)'
    BY <1>7, <1>q, <2>1, <2>2 DEF WishReqKnown, Updating
  <2>7. p.alone => wishlist'[p.id] = Expected(p)
    BY <2>1, <2>3, <2>4, <2>5
  <2>8. \A i \in WishlistIds : wishlist'[i] # None =>
           /\ i <= wishIssued'
           /\ wishlist'[i].user \in wishUsers
           /\ wishlist'[i].variants \subseteq wishVariants
    BY <1>7, <1>k, <2>2, <2>3
  <2> QED
    BY <2>1, <2>2, <2>3, <2>6, <2>7, <2>8, WishWriteStep
<1>8. ASSUME UpdateProductVariantIDs(r)
      PROVE  WishInv'
  <2> DEFINE q == wishReq[r]
             pc == IF q.name # None THEN "name" ELSE "refetch"
  <2>1. /\ q.pc = "variants" /\ WishFrame /\ WishGoto(r, [q EXCEPT !.pc = pc])
        /\ wishlist' = IF Listed(q.id) THEN [wishlist EXCEPT ![q.id].variants = q.variants]
                       ELSE wishlist
    BY <1>8 DEF UpdateProductVariantIDs
  <2>2. /\ pc \in {"name", "refetch"} /\ (pc = "name" => q.name # None)
        /\ (pc = "refetch" => q.name = None)
    OBVIOUS
  <2> HIDE DEF pc
  <2>3. /\ q.id \in WishlistIds /\ q.variants # None /\ q.variants \subseteq wishVariants
        /\ q.variants \in SUBSET Variants /\ q.fetched \in WishlistDocs
        /\ q.pc \in Updating
    BY <1>q, <2>1 DEF WishReqKnown, WishReqs, Updating
  <2>p. LET p == [q EXCEPT !.pc = pc]
        IN  /\ p.pc = pc /\ p.variants = q.variants /\ p.name = q.name
            /\ p.fetched = q.fetched
    BY <1>q DEF WishReqs
  <2>4. CASE Listed(q.id)
    <3> DEFINE d == [wishlist[q.id] EXCEPT !.variants = q.variants]
    <3>1. wishlist[q.id] \in WishlistDocs
      BY <1>k, <2>3, <2>4 DEF Listed
    <3>2. /\ d \in WishlistDocs /\ d.user = wishlist[q.id].user
          /\ d.variants = q.variants /\ d.name = wishlist[q.id].name
          /\ d = [user |-> wishlist[q.id].user, variants |-> q.variants,
                  name |-> wishlist[q.id].name]
      BY <2>3, <3>1 DEF WishlistDocs
    <3>3. wishlist' = [wishlist EXCEPT ![q.id] = d]
      BY <1>t, <2>1, <2>4
    <3>4. wishlist[q.id] = Expected(q) => d = Expected([q EXCEPT !.pc = pc])
      BY <2>1, <2>2, <2>3, <2>p, <3>2 DEF Expected
    <3> HIDE DEF d
    <3> QED
      BY <1>7, <2>1, <2>2, <2>3, <2>4, <3>2, <3>3, <3>4 DEF Listed
  <2>5. CASE ~Listed(q.id)
    <3>1. wishlist' = [wishlist EXCEPT ![q.id] = None]
      BY <1>t, <2>1, <2>5 DEF Listed
    <3>2. Expected(q) \in WishlistDocs
      BY <1>q, <2>1, <2>3 DEF Expected, WishlistDocs, WishReqs
    <3>3. wishlist[q.id] # Expected(q)
      BY <2>5, <3>2, WishlistAssumption DEF Listed
    <3> QED
      BY <1>7, <2>1, <2>2, <2>3, <3>1, <3>3
  <2> QED
    BY <2>4, <2>5
<1>9. ASSUME UpdateName(r)
      PROVE  WishInv'
  <2> DEFINE q == wishReq[r]
  <2>1. /\ q.pc = "name" /\ WishFrame /\ WishGoto(r, [q EXCEPT !.pc = "refetch"])
        /\ wishlist' = IF Listed(q.id) THEN [wishlist EXCEPT ![q.id].name = q.name]
                       ELSE wishlist
    BY <1>9 DEF UpdateName
  <2>3. /\ q.id \in WishlistIds /\ q.name # None /\ q.name \in Names
        /\ q.fetched \in WishlistDocs /\ q.pc \in Updating
    BY <1>q, <2>1 DEF WishReqKnown, WishReqs, Updating
  <2>p. LET p == [q EXCEPT !.pc = "refetch"]
        IN  /\ p.pc = "refetch" /\ p.variants = q.variants /\ p.name = q.name
            /\ p.fetched = q.fetched
    BY <1>q DEF WishReqs
  <2>4. CASE Listed(q.id)
    <3> DEFINE d == [wishlist[q.id] EXCEPT !.name = q.name]
    <3>1. wishlist[q.id] \in WishlistDocs /\ wishlist[q.id].variants \subseteq wishVariants
      BY <1>k, <2>3, <2>4 DEF Listed
    <3>2. /\ d \in WishlistDocs /\ d.user = wishlist[q.id].user
          /\ d.variants = wishlist[q.id].variants /\ d.name = q.name
          /\ d = [user |-> wishlist[q.id].user, variants |-> wishlist[q.id].variants,
                  name |-> q.name]
      BY <2>3, <3>1 DEF WishlistDocs
    <3>3. wishlist' = [wishlist EXCEPT ![q.id] = d]
      BY <1>t, <2>1, <2>4
    <3>4. wishlist[q.id] = Expected(q) => d = Expected([q EXCEPT !.pc = "refetch"])
      BY <2>1, <2>3, <2>p, <3>2 DEF Expected
    <3> HIDE DEF d
    <3> QED
      BY <1>7, <2>1, <2>3, <2>4, <3>1, <3>2, <3>3, <3>4 DEF Listed
  <2>5. CASE ~Listed(q.id)
    <3>1. wishlist' = [wishlist EXCEPT ![q.id] = None]
      BY <1>t, <2>1, <2>5 DEF Listed
    <3>2. Expected(q) \in WishlistDocs
      BY <1>q, <2>1, <2>3 DEF Expected, WishlistDocs, WishReqs
    <3>3. wishlist[q.id] # Expected(q)
      BY <2>5, <3>2, WishlistAssumption DEF Listed
    <3> QED
      BY <1>7, <2>1, <2>3, <3>1, <3>3
  <2> QED
    BY <2>4, <2>5
<1>10. CASE Refetch(r) \/ WishRequestFails(r)
  BY <1>5, <1>10 DEF Refetch, WishRequestFails
<1> QED
  BY <1>1, <1>2, <1>3, <1>4, <1>6, <1>8, <1>9, <1>10 DEF WishRequest

LEMMA WishInitInv == WishlistInit => WishInv
<1> SUFFICES ASSUME WishlistInit PROVE WishInv
  OBVIOUS
<1>1. \A r \in Requests : wishReq[r] = WishIdle
  BY DEF WishlistInit
<1>2. WishShape
  BY WishIdleType, WishlistAssumption DEF WishlistInit, WishShape
<1>3. WishKnown
  BY <1>1, WishIdleType DEF WishlistInit, WishKnown, WishReqKnown, Listed, Updating
<1> QED
  BY <1>1, <1>2, <1>3, WishIdleType DEF WishInv, WishTypeInv, WishAlone

LEMMA WishInvStep == WishInv /\ [WishlistNext]_wishVars => WishInv'
<1> SUFFICES ASSUME WishInv, [WishlistNext]_wishVars PROVE WishInv'
  OBVIOUS
<1>1. ASSUME UNCHANGED <<wishlist, wishIssued, wishReq>>,
             wishUsers \subseteq wishUsers' /\ wishUsers' \subseteq Users,
             wishVariants \subseteq wishVariants' /\ wishVariants' \subseteq Variants
      PROVE  WishInv'
  <2>1. WishShape' /\ WishKnown
    BY <1>1 DEF WishInv, WishTypeInv, WishShape
  <2>2. WishKnown'
    BY <1>1, <2>1 DEF WishKnown, WishReqKnown, Listed
  <2>3. WishAlone'
    BY <1>1 DEF WishInv, WishAlone, Expected
  <2> QED
    BY <2>1, <2>2, <2>3 DEF WishInv, WishTypeInv
<1>2. wishUsers \subseteq Users /\ wishVariants \subseteq Variants
  BY DEF WishInv, WishTypeInv, WishShape
<1>3. CASE \E u \in Users : WishlistUserCreated(u)
  BY <1>1, <1>2, <1>3 DEF WishlistUserCreated
<1>4. CASE \E v \in Variants : WishlistVariantCreated(v)
  BY <1>1, <1>2, <1>4 DEF WishlistVariantCreated
<1>5. CASE UNCHANGED wishVars
  BY <1>1, <1>2, <1>5 DEF wishVars
<1> QED
  BY <1>3, <1>4, <1>5, WishRequestStep DEF WishlistNext

(* The invariant gives the type invariant of the wishlist service, and the  *)
(* answers of its updates.                                                  *)
LEMMA WishInvTypes == WishInv => WishlistTypeOK
<1> SUFFICES ASSUME WishInv PROVE WishlistTypeOK
  OBVIOUS
<1>1. WishShape /\ WishKnown
  BY DEF WishInv, WishTypeInv
<1>2. \A i \in WishlistIds : Listed(i) => wishlist[i] \in WishlistDocs
  BY <1>1 DEF WishShape, Listed
<1>3. \A r \in Requests : wishReq[r] \in WishReqs
  BY <1>1 DEF WishShape
<1> QED
  BY <1>1, <1>2, <1>3
  DEF WishlistTypeOK, WishShape, WishKnown, WishReqKnown, WishlistDocs, WishReqs

LEMMA WishInvUpdates == WishInv => UpdatesApply
<1> SUFFICES ASSUME WishInv, NEW r \in Requests,
                    wishReq[r].pc = "refetch", wishReq[r].alone
             PROVE  wishlist[wishReq[r].id] =
                      [user |-> wishReq[r].fetched.user,
                       variants |-> IF wishReq[r].variants # None THEN wishReq[r].variants
                                    ELSE wishReq[r].fetched.variants,
                       name |-> IF wishReq[r].name # None THEN wishReq[r].name
                                ELSE wishReq[r].fetched.name]
  BY DEF UpdatesApply
<1>1. wishlist[wishReq[r].id] = Expected(wishReq[r])
  BY DEF WishInv, WishAlone, Updating
<1> QED
  BY <1>1 DEF Expected

(* Every step inserts, deletes or keeps each wishlist.                      *)
LEMMA WishLifeStep ==
    ASSUME WishInv, [WishlistNext]_wishVars
    PROVE  WishlistLife!Write
<1>t. /\ wishReq \in [Requests -> WishReqs] /\ WishKnown
      /\ wishlist \in [WishlistIds -> WishlistDocs \cup {None}]
      /\ wishIssued \in 0 .. MaxWishlists /\ MaxWishlists \in Nat
      /\ None \notin WishlistDocs
  BY WishlistAssumption DEF WishInv, WishTypeInv, WishShape
<1> SUFFICES ASSUME NEW i \in WishlistIds
             PROVE  \/ WishlistLife!Keep(i) \/ WishlistLife!Insert(i)
                    \/ WishlistLife!Delete(i)
  BY DEF WishlistLife!Write
<1>1. ASSUME wishIssued' = wishIssued,
             \/ wishlist'[i] = None
             \/ Listed(i) /\ wishlist'[i] # None /\ wishlist'[i].user = wishlist[i].user
      PROVE  WishlistLife!Keep(i) \/ WishlistLife!Delete(i)
  <2>1. Listed(i) => i <= wishIssued
    BY <1>t DEF WishKnown
  <2> QED
    BY <1>1, <2>1 DEF WishlistLife!Keep, WishlistLife!Delete, Listed
<1>2. ASSUME NEW r \in Requests, InsertWishlist(r)
      PROVE  WishlistLife!Keep(i) \/ WishlistLife!Insert(i)
  <2> DEFINE q == wishReq[r]
             n == wishIssued + 1
             d == [user |-> q.user, variants |-> q.variants, name |-> q.name]
  <2>1. /\ q.pc = "insert" /\ n \in WishlistIds /\ wishIssued' = n
        /\ wishlist' = [wishlist EXCEPT ![n] = d]
    BY <1>2, <1>t DEF InsertWishlist, WishlistIds
  <2>2. q \in WishReqs /\ WishReqKnown(q) /\ wishUsers \subseteq Users
    BY <1>t DEF WishKnown, WishInv, WishTypeInv, WishShape
  <2>3. d \in WishlistDocs /\ d # None /\ d.user \in Users
    BY <1>t, <2>1, <2>2 DEF WishlistDocs, WishReqKnown, WishReqs
  <2>4. wishlist'[n] = d /\ (i # n => wishlist'[i] = wishlist[i])
    BY <1>t, <2>1
  <2>5. i \in Nat /\ (i <= wishIssued' <=> (i <= wishIssued \/ i = n))
        /\ ~(n <= wishIssued)
    BY <1>t, <2>1 DEF WishlistIds
  <2> HIDE DEF d
  <2>6. CASE i # n
    BY <2>4, <2>5, <2>6 DEF WishlistLife!Keep, Listed
  <2>7. CASE i = n
    <3>1. wishlist[i] = None
      BY <1>t, <2>5, <2>7 DEF WishKnown, Listed
    <3> QED
      BY <2>3, <2>4, <2>5, <2>7, <3>1 DEF WishlistLife!Insert, Listed
  <2> QED
    BY <2>6, <2>7
<1>3. ASSUME wishIssued' = wishIssued, wishlist' = wishlist
      PROVE  WishlistLife!Keep(i) \/ WishlistLife!Delete(i)
  BY <1>1, <1>3 DEF Listed
<1>4. ASSUME NEW r \in Requests, UpdateProductVariantIDs(r) \/ UpdateName(r)
      PROVE  WishlistLife!Keep(i) \/ WishlistLife!Delete(i)
  <2>1. wishIssued' = wishIssued
    BY <1>4 DEF UpdateProductVariantIDs, UpdateName, WishFrame
  <2>2. PICK j \in WishlistIds : j = wishReq[r].id
    BY <1>4, <1>t DEF UpdateProductVariantIDs, UpdateName, WishKnown, WishReqKnown
  <2>3. CASE ~Listed(j) \/ i # j
    <3>1. wishlist'[i] = wishlist[i]
      BY <1>4, <1>t, <2>2, <2>3 DEF UpdateProductVariantIDs, UpdateName
    <3> QED
      BY <1>1, <2>1, <3>1 DEF Listed
  <2>4. CASE Listed(j) /\ i = j
    <3>1. wishlist[i] \in WishlistDocs
      BY <1>t, <2>4 DEF Listed
    <3>2. \/ wishlist' = [wishlist EXCEPT ![i].variants = wishReq[r].variants]
          \/ wishlist' = [wishlist EXCEPT ![i].name = wishReq[r].name]
      BY <1>4, <2>2, <2>4 DEF UpdateProductVariantIDs, UpdateName
    <3>3. wishReq[r] \in WishReqs /\ WishReqKnown(wishReq[r])
      BY <1>t DEF WishKnown
    <3>4. wishlist'[i] \in WishlistDocs /\ wishlist'[i].user = wishlist[i].user
      <4>1. CASE UpdateProductVariantIDs(r)
        <5>1. /\ wishlist' = [wishlist EXCEPT ![i].variants = wishReq[r].variants]
              /\ wishReq[r].variants \in SUBSET Variants
          BY <2>2, <2>4, <3>3, <4>1
          DEF UpdateProductVariantIDs, WishReqKnown, WishReqs
        <5>2. wishlist'[i] = [wishlist[i] EXCEPT !.variants = wishReq[r].variants]
          BY <1>t, <5>1
        <5> QED
          BY <3>1, <5>1, <5>2 DEF WishlistDocs
      <4>2. CASE UpdateName(r)
        <5>1. /\ wishlist' = [wishlist EXCEPT ![i].name = wishReq[r].name]
              /\ wishReq[r].name \in Names
          BY <2>2, <2>4, <3>3, <4>2 DEF UpdateName, WishReqKnown, WishReqs
        <5>2. wishlist'[i] = [wishlist[i] EXCEPT !.name = wishReq[r].name]
          BY <1>t, <5>1
        <5> QED
          BY <3>1, <5>1, <5>2 DEF WishlistDocs
      <4> QED
        BY <1>4, <4>1, <4>2
    <3> QED
      BY <1>1, <1>t, <2>1, <2>4, <3>4
  <2> QED
    BY <2>3, <2>4
<1>5. ASSUME NEW r \in Requests, DeleteWishlistOne(r)
      PROVE  WishlistLife!Keep(i) \/ WishlistLife!Delete(i)
  <2>1. wishIssued' = wishIssued /\ (wishlist'[i] = wishlist[i] \/ wishlist'[i] = None)
    BY <1>5, <1>t DEF DeleteWishlistOne, WishFrame
  <2> QED
    BY <1>1, <2>1 DEF Listed
<1>6. ASSUME NEW r, NEW q, WishStart(r, q)
      PROVE  WishlistLife!Keep(i) \/ WishlistLife!Delete(i)
  BY <1>3, <1>6 DEF WishStart, WishFrame
<1>7. ASSUME NEW r \in Requests, WishRequest(r)
      PROVE  WishlistLife!Keep(i) \/ WishlistLife!Insert(i) \/ WishlistLife!Delete(i)
  <2>1. CASE Refetch(r) \/ WishRequestFails(r)
    BY <1>3, <2>1 DEF Refetch, WishRequestFails, WishFrame
  <2>2. CASE \/ \E u \in Users, name \in Names : \E variants \in SUBSET Variants :
                   CreateWishlist(r, u, variants, name)
             \/ \E j \in WishlistIds, name \in Names \cup {None} :
                   \E variants \in (SUBSET Variants) \cup {None} :
                      UpdateWishlist(r, j, variants, name)
             \/ \E j \in WishlistIds : DeleteWishlist(r, j)
    BY <1>6, <2>2 DEF CreateWishlist, UpdateWishlist, DeleteWishlist
  <2> QED
    BY <1>2, <1>4, <1>5, <1>7, <2>1, <2>2 DEF WishRequest
<1> QED
  BY <1>3, <1>7 DEF WishlistNext, WishlistUserCreated, WishlistVariantCreated, wishVars
-----------------------------------------------------------------------------
(* The shopping cart.  A request is a record of this shape.                 *)
CartReqs == [pc : {"idle", "replace", "push", "count", "pull"},
             user : Users \cup {None}, entries : SUBSET CartEntries, item : Nat,
             count : Counts \cup {0}]

CartShape ==
    /\ cartUsers \subseteq Users /\ cartVariants \subseteq Variants
    /\ cartItem \in [CartIds -> CartItems \cup {None}]
    /\ cartIssued \in 0 .. MaxCartItems
    /\ cartReq \in [Requests -> CartReqs]
    /\ cartOrder \in [CartOrders -> [user : Users, items : SUBSET CartIds] \cup {None}]
    /\ cartInbox \subseteq {o \in CartOrders : cartOrder[o] # None}
    /\ cartTwice \subseteq Users \X Variants
(* What a request was checked for stays true until it writes.               *)
CartReqKnown(q) ==
    /\ q.item \in 0 .. cartIssued
    /\ q.pc \in {"replace", "push"} =>
          q.user \in cartUsers /\ \A e \in q.entries : e.variant \in cartVariants
    /\ q.pc = "count" => q.count \in Counts /\ q.item \in CartIds
CartKnown ==
    /\ \A i \in CartIds : Present(i) =>
          /\ i <= cartIssued
          /\ cartItem[i].user \in cartUsers
          /\ cartItem[i].variant \in cartVariants
    /\ \A r \in Requests : CartReqKnown(cartReq[r])
CartTypeInv == CartShape /\ CartKnown

(* Two requests push the same variant to the same cart, or one pushes a     *)
(* variant that is in the cart by now, only if the additions overlapped.    *)
Pushes(r, u, v) == /\ cartReq[r].pc = "push" /\ cartReq[r].user = u
                   /\ \E e \in cartReq[r].entries : e.variant = v
Holds(i, u, v) == /\ Present(i)
                  /\ cartItem[i].user = u /\ cartItem[i].variant = v
CartPairs ==
    \A u \in Users, v \in Variants : <<u, v>> \notin cartTwice =>
       /\ \A i, j \in CartIds : Holds(i, u, v) /\ Holds(j, u, v) => i = j
       /\ \A r \in Requests, i \in CartIds : ~(Pushes(r, u, v) /\ Holds(i, u, v))
       /\ \A r, x \in Requests : Pushes(r, u, v) /\ Pushes(x, u, v) => r = x

CartInv == CartTypeInv /\ CartPairs

LEMMA CartIdleType ==
    CartIdle \in CartReqs /\ CartIdle.pc = "idle" /\ CartIdle.item = 0
BY DEF CartIdle, CartReqs

(* The entries of a list as a sequence.                                     *)
LEMMA EntriesInOrder ==
    ASSUME NEW S, IsFiniteSet(S)
    PROVE  /\ SetToSeq(S) \in [1 .. Cardinality(S) -> S]
           /\ IsInjective(SetToSeq(S))
           /\ Len(SetToSeq(S)) = Cardinality(S)
           /\ Cardinality(S) \in Nat
<1> DEFINE n == Cardinality(S)
<1>1. n \in Nat /\ ExistsBijection(1 .. n, S)
  BY FS_CardinalityType
<1>2. PICK f : f \in Bijection(1 .. n, S)
  BY <1>1 DEF ExistsBijection
<1>3. f \in [1 .. n -> S] /\ IsInjective(f)
  BY <1>2 DEF Bijection, Injection
<1>4. SetToSeq(S) \in [1 .. n -> S] /\ IsInjective(SetToSeq(S))
  BY <1>3 DEF SetToSeq
<1>5. \A g \in [1 .. n -> S] : Len(g) = n
  BY <1>1
<1> QED
  BY <1>1, <1>4, <1>5

(* Two entries make a set of more than one.                                 *)
LEMMA TwoOfThem ==
    ASSUME NEW S, IsFiniteSet(S), NEW a1 \in S, NEW a2 \in S, a1 # a2
    PROVE  Cardinality(S) > 1
<1>1. Cardinality({a1, a2}) = 2
  <2>1. Cardinality({a1}) = 1 /\ IsFiniteSet({a1})
    BY FS_Singleton
  <2>2. Cardinality({a1} \cup {a2}) = Cardinality({a1}) + 1
    BY <2>1, FS_AddElement
  <2> QED
    BY <2>1, <2>2
<1>2. Cardinality({a1, a2}) <= Cardinality(S) /\ Cardinality(S) \in Nat
  BY FS_Subset, FS_CardinalityType
<1> QED
  BY <1>1, <1>2

(* What a write of the whole list leaves: an item that was not of the user, *)
(* or a new one for an entry of the list.                                   *)
Replaced(r, n, added) ==
    /\ cartIssued' = cartIssued + n /\ cartIssued' \in 0 .. MaxCartItems
    /\ cartIssued <= cartIssued'
    /\ cartItem' \in [CartIds -> CartItems \cup {None}]
    /\ \A i \in CartIds :
          /\ cartIssued < i /\ i <= cartIssued' =>
                /\ i - cartIssued \in 1 .. n
                /\ cartItem'[i] = CartItem(cartReq[r].user, added[i - cartIssued])
                /\ cartItem'[i] \in CartItems /\ cartItem'[i] # None
          /\ ~(cartIssued < i /\ i <= cartIssued') =>
                cartItem'[i] = IF Present(i) /\ cartItem[i].user = cartReq[r].user
                               THEN None ELSE cartItem[i]

LEMMA ReplacedItems ==
    ASSUME CartTypeInv, NEW r \in Requests, ReplaceCartItems(r)
    PROVE  \E n \in Nat : \E added \in [1 .. n -> cartReq[r].entries] :
              IsInjective(added) /\ Replaced(r, n, added)
<1> DEFINE q == cartReq[r]
           added == SetToSeq(q.entries)
           n == Cardinality(q.entries)
<1>t. /\ cartItem \in [CartIds -> CartItems \cup {None}]
      /\ cartIssued \in 0 .. MaxCartItems /\ MaxCartItems \in Nat
      /\ q \in CartReqs /\ CartReqKnown(q) /\ cartUsers \subseteq Users
      /\ None \notin CartItems
  BY CartAssumption DEF CartTypeInv, CartShape, CartKnown
<1>e. q.entries \subseteq CartEntries /\ IsFiniteSet(q.entries)
  <2>1. q.entries \subseteq CartEntries
    BY <1>t DEF CartReqs
  <2> QED
    BY <2>1, FS_Subset, CartAssumption
<1>1. /\ added \in [1 .. n -> q.entries] /\ IsInjective(added)
      /\ Len(added) = n /\ n \in Nat
  BY <1>e, EntriesInOrder
<1>2. /\ q.pc = "replace" /\ cartIssued + Len(added) <= MaxCartItems
      /\ cartIssued' = cartIssued + Len(added)
      /\ cartItem' = [i \in CartIds |->
              IF i \in cartIssued + 1 .. cartIssued + Len(added)
              THEN CartItem(q.user, added[i - cartIssued])
              ELSE Pull({j \in CartIds : Present(j) /\ cartItem[j].user = q.user})[i]]
  BY DEF ReplaceCartItems
<1> HIDE DEF added, n
<1>3. \A i \in CartIds : cartItem'[i] =
              IF i \in cartIssued + 1 .. cartIssued + n
              THEN CartItem(q.user, added[i - cartIssued])
              ELSE IF Present(i) /\ cartItem[i].user = q.user THEN None ELSE cartItem[i]
  BY <1>1, <1>2 DEF Pull
<1>4. \A k \in 1 .. n : CartItem(q.user, added[k]) \in CartItems
  <2> SUFFICES ASSUME NEW k \in 1 .. n PROVE CartItem(q.user, added[k]) \in CartItems
    OBVIOUS
  <2>1. added[k] \in CartEntries
    BY <1>1, <1>e
  <2>2. q.user \in Users
    BY <1>2, <1>t DEF CartReqKnown
  <2> QED
    BY <2>1, <2>2 DEF CartItem, CartItems, CartEntries
<1>5. \A i \in CartIds : /\ i \in Nat
                         /\ (i \in cartIssued + 1 .. cartIssued + n <=>
                               cartIssued < i /\ i <= cartIssued')
                         /\ (cartIssued < i /\ i <= cartIssued' => i - cartIssued \in 1 .. n)
  BY <1>1, <1>2, <1>t DEF CartIds
<1>6. \A i \in CartIds : cartItem'[i] \in CartItems \cup {None}
  BY <1>3, <1>4, <1>5, <1>t
<1>7. cartItem' \in [CartIds -> CartItems \cup {None}]
  BY <1>2, <1>6
<1>8. cartIssued' = cartIssued + n /\ cartIssued' \in 0 .. MaxCartItems
      /\ cartIssued <= cartIssued'
  BY <1>1, <1>2, <1>t
<1>9. \A i \in CartIds : cartIssued < i /\ i <= cartIssued' =>
         /\ i - cartIssued \in 1 .. n
         /\ cartItem'[i] = CartItem(q.user, added[i - cartIssued])
         /\ cartItem'[i] \in CartItems /\ cartItem'[i] # None
  BY <1>3, <1>4, <1>5, <1>t
<1>10. \A i \in CartIds : ~(cartIssued < i /\ i <= cartIssued') =>
          cartItem'[i] = IF Present(i) /\ cartItem[i].user = q.user
                         THEN None ELSE cartItem[i]
  BY <1>3, <1>5
<1>11. Replaced(r, n, added)
  BY <1>7, <1>8, <1>9, <1>10 DEF Replaced
<1> QED
  BY <1>1, <1>11

(* What every step keeps: the copies of users and variants only grow, and   *)
(* at most one request changes.                                             *)
LEMMA CartWrites ==
    ASSUME CartTypeInv,
           cartUsers \subseteq cartUsers', cartUsers' \subseteq Users,
           cartVariants \subseteq cartVariants', cartVariants' \subseteq Variants,
           cartIssued <= cartIssued', cartIssued' \in 0 .. MaxCartItems,
           cartItem' \in [CartIds -> CartItems \cup {None}],
           \A i \in CartIds : cartItem'[i] # None =>
              /\ i <= cartIssued'
              /\ cartItem'[i].user \in cartUsers'
              /\ cartItem'[i].variant \in cartVariants',
           \A r \in Requests : \/ cartReq'[r] = cartReq[r]
                               \/ cartReq'[r] \in CartReqs /\ CartReqKnown(cartReq[r])',
           cartReq' = [r \in Requests |-> cartReq'[r]],
           cartOrder' \in [CartOrders -> [user : Users, items : SUBSET CartIds] \cup {None}],
           cartInbox' \subseteq {o \in CartOrders : cartOrder'[o] # None},
           cartTwice' \subseteq Users \X Variants
    PROVE  CartTypeInv'
<1>t. /\ cartReq \in [Requests -> CartReqs] /\ CartKnown
      /\ cartIssued \in Nat /\ cartIssued' \in Nat /\ MaxCartItems \in Nat
  BY CartAssumption DEF CartTypeInv, CartShape
<1>1. cartReq' \in [Requests -> CartReqs]
  BY <1>t
<1>2. CartShape'
  BY <1>1 DEF CartShape
<1>3. ASSUME NEW r \in Requests PROVE CartReqKnown(cartReq[r])'
  <2>1. CASE cartReq'[r] = cartReq[r]
    <3>1. CartReqKnown(cartReq[r]) /\ cartReq[r] \in CartReqs
      BY <1>t DEF CartKnown
    <3>2. cartReq[r].item \in Nat
      BY <3>1 DEF CartReqs
    <3> QED
      BY <1>t, <2>1, <3>1, <3>2 DEF CartReqKnown
  <2> QED
    BY <2>1
<1> QED
  BY <1>2, <1>3 DEF CartTypeInv, CartKnown, Present

LEMMA CartTypeStep == CartTypeInv /\ [CartNext]_cartVars => CartTypeInv'
<1> SUFFICES ASSUME CartTypeInv, [CartNext]_cartVars PROVE CartTypeInv'
  OBVIOUS
<1>t. /\ cartReq \in [Requests -> CartReqs]
      /\ cartItem \in [CartIds -> CartItems \cup {None}]
      /\ cartIssued \in 0 .. MaxCartItems /\ MaxCartItems \in Nat /\ cartIssued <= cartIssued
      /\ cartUsers \subseteq Users /\ cartVariants \subseteq Variants
      /\ cartOrder \in [CartOrders -> [user : Users, items : SUBSET CartIds] \cup {None}]
      /\ cartInbox \subseteq {o \in CartOrders : cartOrder[o] # None}
      /\ cartTwice \subseteq Users \X Variants
      /\ cartReq = [r \in Requests |-> cartReq[r]]
  BY CartAssumption DEF CartTypeInv, CartShape
<1>k. \A i \in CartIds : cartItem[i] # None =>
              /\ i <= cartIssued /\ cartItem[i] \in CartItems
              /\ cartItem[i].user \in cartUsers
              /\ cartItem[i].variant \in cartVariants
  BY <1>t DEF CartTypeInv, CartKnown, Present
<1>q. \A r \in Requests : cartReq[r] \in CartReqs /\ CartReqKnown(cartReq[r])
  BY DEF CartTypeInv, CartShape, CartKnown
<1>z. /\ CartIdle \in CartReqs
      /\ cartIssued' \in Nat => CartReqKnown(CartIdle)'
  BY CartIdleType DEF CartReqKnown
<1>1. CASE \/ \E u \in Users : CartUserCreated(u)
           \/ \E v \in Variants : CartVariantCreated(v)
           \/ UNCHANGED cartVars
  <2>1. /\ UNCHANGED <<cartItem, cartIssued, cartReq, cartOrder, cartInbox, cartTwice>>
        /\ cartUsers \subseteq cartUsers' /\ cartUsers' \subseteq Users
        /\ cartVariants \subseteq cartVariants' /\ cartVariants' \subseteq Variants
    BY <1>1, <1>t DEF CartUserCreated, CartVariantCreated, cartVars
  <2>2. \A i \in CartIds : cartItem'[i] # None =>
              /\ i <= cartIssued'
              /\ cartItem'[i].user \in cartUsers'
              /\ cartItem'[i].variant \in cartVariants'
    BY <1>k, <2>1
  <2> QED
    BY <1>t, <2>1, <2>2, CartWrites
<1>2. ASSUME NEW o \in CartOrders, CartOrderPublished(o)
      PROVE  CartTypeInv'
  <2>1. /\ UNCHANGED <<cartUsers, cartVariants, cartItem, cartIssued, cartReq,
                       cartOrder, cartTwice>>
        /\ cartInbox' = cartInbox \cup {o} /\ cartOrder[o] # None
    BY <1>2 DEF CartOrderPublished
  <2>2. cartInbox' \subseteq {x \in CartOrders : cartOrder'[x] # None}
    BY <1>t, <2>1
  <2> QED
    BY <1>k, <1>t, <2>1, <2>2, CartWrites
<1>3. ASSUME NEW o \in CartOrders, CartOrderCreated(o)
      PROVE  CartTypeInv'
  <2>1. /\ UNCHANGED <<cartUsers, cartVariants, cartIssued, cartReq, cartOrder, cartTwice>>
        /\ cartInbox' = cartInbox \ {o}
        /\ cartItem' = [i \in CartIds |-> cartItem'[i]]
        /\ \A i \in CartIds : cartItem'[i] = cartItem[i] \/ cartItem'[i] = None
    BY <1>3 DEF CartOrderCreated, Pull
  <2>2. cartInbox' \subseteq {x \in CartOrders : cartOrder'[x] # None}
    BY <1>t, <2>1
  <2>3. cartItem' \in [CartIds -> CartItems \cup {None}]
    BY <1>t, <2>1
  <2>4. \A i \in CartIds : cartItem'[i] # None =>
              /\ i <= cartIssued'
              /\ cartItem'[i].user \in cartUsers'
              /\ cartItem'[i].variant \in cartVariants'
    BY <1>k, <2>1
  <2> QED
    BY <1>t, <2>1, <2>2, <2>3, <2>4, CartWrites
<1>4. ASSUME NEW o \in CartOrders, NEW u \in Users, NEW items \in SUBSET CartIds,
             CartCheckout(o, u, items)
      PROVE  CartTypeInv'
  <2>1. /\ UNCHANGED <<cartUsers, cartVariants, cartItem, cartIssued, cartReq,
                       cartInbox, cartTwice>>
        /\ cartOrder' = [cartOrder EXCEPT ![o] = [user |-> u, items |-> items]]
        /\ cartOrder[o] = None
    BY <1>4 DEF CartCheckout
  <2>2. cartOrder' \in [CartOrders -> [user : Users, items : SUBSET CartIds] \cup {None}]
    BY <1>t, <2>1
  <2>3. cartInbox' \subseteq {x \in CartOrders : cartOrder'[x] # None}
    BY <1>t, <2>1
  <2> QED
    BY <1>k, <1>t, <2>1, <2>2, <2>3, CartWrites
<1>5. ASSUME NEW r \in Requests, NEW q \in CartReqs, CartStart(r, q), CartReqKnown(q),
             cartTwice' \subseteq Users \X Variants
      PROVE  CartTypeInv'
  <2>1. /\ UNCHANGED <<cartUsers, cartVariants, cartItem, cartIssued, cartOrder, cartInbox>>
        /\ cartReq' = [cartReq EXCEPT ![r] = q]
    BY <1>5 DEF CartStart, CartGoto
  <2>2. /\ cartReq' = [x \in Requests |-> cartReq'[x]]
        /\ cartReq'[r] = q /\ \A x \in Requests \ {r} : cartReq'[x] = cartReq[x]
    BY <1>t, <2>1
  <2>3. CartReqKnown(cartReq[r])'
    BY <1>5, <2>1, <2>2 DEF CartReqKnown
  <2> QED
    BY <1>5, <1>k, <1>t, <2>1, <2>2, <2>3, CartWrites
<1>6. ASSUME NEW r \in Requests, NEW u \in Users, NEW entries \in SUBSET CartEntries,
             UpdateShoppingcart(r, u, entries)
      PROVE  CartTypeInv'
  <2> DEFINE q == [CartIdle EXCEPT !.pc = "replace", !.user = u, !.entries = entries]
  <2>1. /\ q \in CartReqs /\ q.pc = "replace" /\ q.user = u /\ q.entries = entries
        /\ q.item = 0
    BY DEF CartIdle, CartReqs
  <2>2. /\ CartStart(r, q) /\ cartTwice' = cartTwice /\ u \in cartUsers
        /\ \A e \in entries : e.variant \in cartVariants
    BY <1>6 DEF UpdateShoppingcart
  <2> HIDE DEF q
  <2>3. CartReqKnown(q)
    BY <1>t, <2>1, <2>2 DEF CartReqKnown
  <2> QED
    BY <1>5, <1>t, <2>1, <2>2, <2>3
<1>7. ASSUME NEW r \in Requests, NEW u \in Users, NEW e \in CartEntries,
             CreateShoppingcartItem(r, u, e)
      PROVE  CartTypeInv'
  <2> DEFINE q == [CartIdle EXCEPT !.pc = "push", !.user = u, !.entries = {e}]
  <2>1. /\ q \in CartReqs /\ q.pc = "push" /\ q.user = u /\ q.entries = {e}
        /\ q.item = 0
    BY DEF CartIdle, CartReqs
  <2>2. /\ CartStart(r, q) /\ u \in cartUsers /\ e.variant \in cartVariants
        /\ cartTwice' = cartTwice \cup ({u} \X Adding(u, {e.variant}))
    BY <1>7 DEF CreateShoppingcartItem
  <2> HIDE DEF q
  <2>3. CartReqKnown(q)
    BY <1>t, <2>1, <2>2 DEF CartReqKnown
  <2>4. cartTwice' \subseteq Users \X Variants
    BY <1>t, <2>2 DEF Adding, CartEntries
  <2> QED
    BY <1>5, <2>1, <2>2, <2>3, <2>4
<1>8. ASSUME NEW r \in Requests, NEW i \in CartIds, NEW n \in Counts,
             UpdateShoppingcartItem(r, i, n)
      PROVE  CartTypeInv'
  <2> DEFINE q == [CartIdle EXCEPT !.pc = "count", !.item = i, !.count = n,
                                   !.user = cartItem[i].user]
  <2>1. CartStart(r, q) /\ cartTwice' = cartTwice /\ Present(i)
    BY <1>8 DEF UpdateShoppingcartItem
  <2>2. i \in Nat /\ i <= cartIssued /\ cartItem[i].user \in Users
    BY <1>k, <1>t, <2>1 DEF Present, CartIds
  <2>3. q \in CartReqs /\ q.pc = "count" /\ q.item = i /\ q.count = n
    BY <2>2 DEF CartIdle, CartReqs
  <2> HIDE DEF q
  <2>4. CartReqKnown(q)
    BY <1>t, <2>2, <2>3 DEF CartReqKnown
  <2> QED
    BY <1>5, <1>t, <2>1, <2>3, <2>4
<1>9. ASSUME NEW r \in Requests, NEW i \in CartIds, DeleteShoppingcartItem(r, i)
      PROVE  CartTypeInv'
  <2> DEFINE q == [CartIdle EXCEPT !.pc = "pull", !.item = i, !.user = cartItem[i].user]
  <2>1. CartStart(r, q) /\ cartTwice' = cartTwice /\ Present(i)
    BY <1>9 DEF DeleteShoppingcartItem
  <2>2. i \in Nat /\ i <= cartIssued /\ cartItem[i].user \in Users
    BY <1>k, <1>t, <2>1 DEF Present, CartIds
  <2>3. q \in CartReqs /\ q.pc = "pull" /\ q.item = i
    BY <2>2 DEF CartIdle, CartReqs
  <2> HIDE DEF q
  <2>4. CartReqKnown(q)
    BY <1>t, <2>2, <2>3 DEF CartReqKnown
  <2> QED
    BY <1>5, <1>t, <2>1, <2>3, <2>4
<1>10. ASSUME NEW r \in Requests, CartGoto(r, CartIdle), cartIssued' \in Nat
       PROVE  /\ cartReq' = [x \in Requests |-> cartReq'[x]]
              /\ \A x \in Requests : \/ cartReq'[x] = cartReq[x]
                                     \/ cartReq'[x] \in CartReqs
                                        /\ CartReqKnown(cartReq[x])'
  <2>1. /\ cartReq' = [x \in Requests |-> cartReq'[x]]
        /\ cartReq'[r] = CartIdle /\ \A x \in Requests \ {r} : cartReq'[x] = cartReq[x]
    BY <1>10, <1>t DEF CartGoto
  <2>2. CartReqKnown(cartReq[r])'
    BY <1>10, <1>z, <2>1 DEF CartReqKnown
  <2> QED
    BY <1>z, <2>1, <2>2
<1>11. ASSUME NEW r \in Requests, ReplaceCartItems(r)
       PROVE  CartTypeInv'
  <2>0. PICK n \in Nat : \E added \in [1 .. n -> cartReq[r].entries] :
           Replaced(r, n, added)
    BY <1>11, ReplacedItems
  <2>1. PICK added \in [1 .. n -> cartReq[r].entries] : Replaced(r, n, added)
    BY <2>0
  <2> DEFINE q == cartReq[r]
  <2>2. /\ q.pc = "replace" /\ CartGoto(r, CartIdle)
        /\ UNCHANGED <<cartUsers, cartVariants, cartOrder, cartInbox>>
        /\ \E S \in SUBSET {e.variant : e \in q.entries} :
              cartTwice' = cartTwice \cup ({q.user} \X S)
    BY <1>11 DEF ReplaceCartItems, Adding
  <2>3. /\ q.user \in cartUsers /\ \A e \in q.entries : e.variant \in cartVariants
        /\ q.entries \subseteq CartEntries
    BY <1>q, <2>2 DEF CartReqKnown, CartReqs
  <2>4. cartTwice' \subseteq Users \X Variants
    <3>1. {e.variant : e \in q.entries} \subseteq Variants /\ q.user \in Users
      BY <1>t, <2>3 DEF CartEntries
    <3> QED
      BY <1>t, <2>2, <3>1
  <2>5. ASSUME NEW i \in CartIds, cartItem'[i] # None
        PROVE  /\ i <= cartIssued'
               /\ cartItem'[i].user \in cartUsers'
               /\ cartItem'[i].variant \in cartVariants'
    <3>1. CASE cartIssued < i /\ i <= cartIssued'
      <4>1. PICK e \in q.entries : cartItem'[i] = CartItem(q.user, e)
        BY <2>1, <3>1 DEF Replaced
      <4> QED
        BY <2>2, <2>3, <3>1, <4>1 DEF CartItem
    <3>2. CASE ~(cartIssued < i /\ i <= cartIssued')
      <4>1. cartItem'[i] = cartItem[i]
        BY <2>1, <2>5, <3>2 DEF Replaced
      <4> QED
        BY <1>k, <1>t, <2>1, <2>2, <2>5, <4>1 DEF CartIds, Replaced
    <3> QED
      BY <3>1, <3>2
  <2>6. cartIssued' \in Nat
    BY <1>t, <2>1 DEF Replaced
  <2> QED
    BY <1>10, <1>t, <2>1, <2>2, <2>4, <2>5, <2>6, CartWrites DEF Replaced
<1>12. ASSUME NEW r \in Requests, PushItem(r)
       PROVE  CartTypeInv'
  <2> DEFINE q == cartReq[r]
             n == cartIssued + 1
  <2>1. PICK e \in q.entries : cartItem' = [cartItem EXCEPT ![n] = CartItem(q.user, e)]
    BY <1>12 DEF PushItem
  <2>2. /\ q.pc = "push" /\ cartIssued' = n /\ n \in CartIds /\ CartGoto(r, CartIdle)
        /\ UNCHANGED <<cartUsers, cartVariants, cartOrder, cartInbox, cartTwice>>
        /\ cartIssued' \in 0 .. MaxCartItems /\ cartIssued <= cartIssued'
        /\ cartIssued' \in Nat
    BY <1>12, <1>t DEF PushItem, CartIds
  <2>3. q.user \in cartUsers /\ e.variant \in cartVariants /\ e \in CartEntries
    BY <1>q, <2>1, <2>2 DEF CartReqKnown, CartReqs
  <2>4. LET d == CartItem(q.user, e)
        IN  d \in CartItems /\ d.user \in cartUsers /\ d.variant \in cartVariants
    BY <1>t, <2>3 DEF CartItem, CartItems, CartEntries
  <2>5. /\ cartItem' \in [CartIds -> CartItems \cup {None}]
        /\ cartItem'[n] = CartItem(q.user, e)
        /\ \A i \in CartIds \ {n} : cartItem'[i] = cartItem[i]
    BY <1>t, <2>1, <2>2, <2>4
  <2>6. \A i \in CartIds : cartItem'[i] # None =>
              /\ i <= cartIssued'
              /\ cartItem'[i].user \in cartUsers'
              /\ cartItem'[i].variant \in cartVariants'
    <3> SUFFICES ASSUME NEW i \in CartIds, cartItem'[i] # None
                 PROVE  /\ i <= cartIssued'
                        /\ cartItem'[i].user \in cartUsers'
                        /\ cartItem'[i].variant \in cartVariants'
      OBVIOUS
    <3>1. CASE i = n
      BY <1>t, <2>2, <2>4, <2>5, <3>1
    <3>2. CASE i # n
      BY <1>k, <1>t, <2>2, <2>5, <3>2 DEF CartIds
    <3> QED
      BY <3>1, <3>2
  <2> QED
    BY <1>10, <1>t, <2>2, <2>5, <2>6, CartWrites
<1>13. ASSUME NEW r \in Requests, UpdateItemCount(r)
       PROVE  CartTypeInv'
  <2> DEFINE q == cartReq[r]
  <2>1. /\ q.pc = "count" /\ CartGoto(r, CartIdle)
        /\ cartItem' = IF Present(q.item) THEN [cartItem EXCEPT ![q.item].count = q.count]
                       ELSE cartItem
        /\ UNCHANGED <<cartUsers, cartVariants, cartIssued, cartOrder, cartInbox, cartTwice>>
        /\ cartIssued' \in Nat
    BY <1>13, <1>t DEF UpdateItemCount
  <2>2. q.item \in CartIds /\ q.count \in Counts
    BY <1>q, <2>1 DEF CartReqKnown
  <2>3. ASSUME NEW i \in CartIds
        PROVE  /\ cartItem'[i] \in CartItems \cup {None}
               /\ cartItem'[i] # None =>
                     /\ i <= cartIssued
                     /\ cartItem'[i].user \in cartUsers
                     /\ cartItem'[i].variant \in cartVariants
    <3>1. CASE cartItem'[i] = cartItem[i]
      BY <1>k, <1>t, <3>1
    <3>2. CASE Present(q.item) /\ i = q.item
      <4>1. cartItem'[i] = [cartItem[i] EXCEPT !.count = q.count]
        BY <1>t, <2>1, <2>2, <3>2
      <4>2. cartItem[i] \in CartItems /\ cartItem[i] # None
        BY <1>k, <3>2 DEF Present
      <4>3. /\ cartItem'[i] \in CartItems /\ cartItem'[i].user = cartItem[i].user
            /\ cartItem'[i].variant = cartItem[i].variant
        BY <2>2, <4>1, <4>2 DEF CartItems
      <4> QED
        BY <1>k, <4>2, <4>3
    <3> QED
      BY <1>t, <2>1, <3>1, <3>2
  <2>4. cartItem' \in [CartIds -> CartItems \cup {None}]
    <3>1. DOMAIN cartItem' = CartIds /\ cartItem' = [i \in CartIds |-> cartItem'[i]]
      BY <1>t, <2>1
    <3> QED
      BY <2>3, <3>1
  <2> QED
    BY <1>10, <1>t, <2>1, <2>3, <2>4, CartWrites
<1>14. ASSUME NEW r \in Requests, PullItem(r)
       PROVE  CartTypeInv'
  <2>1. /\ UNCHANGED <<cartUsers, cartVariants, cartIssued, cartOrder, cartInbox, cartTwice>>
        /\ cartIssued' \in Nat /\ CartGoto(r, CartIdle)
        /\ cartItem' = [i \in CartIds |-> cartItem'[i]]
        /\ \A i \in CartIds : cartItem'[i] = cartItem[i] \/ cartItem'[i] = None
    BY <1>14, <1>t DEF PullItem, Pull
  <2>3. cartItem' \in [CartIds -> CartItems \cup {None}]
    BY <1>t, <2>1
  <2>4. \A i \in CartIds : cartItem'[i] # None =>
              /\ i <= cartIssued'
              /\ cartItem'[i].user \in cartUsers'
              /\ cartItem'[i].variant \in cartVariants'
    BY <1>k, <2>1
  <2> QED
    BY <1>10, <1>t, <2>1, <2>3, <2>4, CartWrites
<1>15. ASSUME NEW r \in Requests, CartRequestFails(r)
       PROVE  CartTypeInv'
  <2>1. /\ UNCHANGED <<cartUsers, cartVariants, cartItem, cartIssued, cartOrder,
                       cartInbox, cartTwice>>
        /\ cartIssued' \in Nat /\ CartGoto(r, CartIdle)
    BY <1>15, <1>t DEF CartRequestFails
  <2>2. \A i \in CartIds : cartItem'[i] # None =>
              /\ i <= cartIssued'
              /\ cartItem'[i].user \in cartUsers'
              /\ cartItem'[i].variant \in cartVariants'
    BY <1>k, <2>1
  <2> QED
    BY <1>10, <1>t, <2>1, <2>2, CartWrites
<1> QED
  BY <1>1, <1>2, <1>3, <1>4, <1>6, <1>7, <1>8, <1>9, <1>11, <1>12, <1>13, <1>14, <1>15
  DEF CartNext, CartEvent, CartRequest

(* A step that adds nothing: no item comes, none changes its user or its    *)
(* variant, and no request starts to push.                                  *)
CartShrinks ==
    /\ UNCHANGED <<cartIssued, cartTwice>>
    /\ \A i \in CartIds : \/ cartItem'[i] = None
                          \/ /\ Present(i) /\ cartItem'[i] # None
                             /\ cartItem'[i].user = cartItem[i].user
                             /\ cartItem'[i].variant = cartItem[i].variant
    /\ \A r \in Requests : cartReq'[r] = cartReq[r] \/ cartReq'[r].pc # "push"

LEMMA CartSteps ==
    ASSUME CartTypeInv, [CartNext]_cartVars
    PROVE  \/ CartShrinks
           \/ \E r \in Requests, u \in Users, e \in CartEntries :
                 CreateShoppingcartItem(r, u, e)
           \/ \E r \in Requests : PushItem(r)
           \/ \E r \in Requests : ReplaceCartItems(r)
<1>t. /\ cartReq \in [Requests -> CartReqs]
      /\ cartItem \in [CartIds -> CartItems \cup {None}]
      /\ None \notin CartItems
  BY CartAssumption DEF CartTypeInv, CartShape
<1>i. CartIdle.pc = "idle"
  BY DEF CartIdle
<1>1. ASSUME UNCHANGED <<cartItem, cartIssued, cartTwice>>,
             \A r \in Requests : cartReq'[r] = cartReq[r] \/ cartReq'[r].pc # "push"
      PROVE  CartShrinks
  BY <1>1 DEF CartShrinks, Present
<1>2. CASE CartEvent \/ UNCHANGED cartVars
  <2>1. CASE \E o \in CartOrders : CartOrderCreated(o)
    <3>1. /\ UNCHANGED <<cartIssued, cartTwice, cartReq>>
          /\ \A i \in CartIds : cartItem'[i] = cartItem[i] \/ cartItem'[i] = None
      BY <2>1 DEF CartOrderCreated, Pull
    <3> QED
      BY <3>1 DEF CartShrinks, Present
  <2>2. CASE ~\E o \in CartOrders : CartOrderCreated(o)
    <3>1. UNCHANGED <<cartItem, cartIssued, cartTwice, cartReq>>
      BY <1>2, <2>2 DEF CartEvent, CartUserCreated, CartVariantCreated,
         CartOrderPublished, CartCheckout, cartVars
    <3> QED
      BY <1>1, <3>1
  <2> QED
    BY <2>1, <2>2
<1>3. ASSUME NEW r \in Requests, NEW q, CartStart(r, q), q.pc # "push", UNCHANGED cartTwice
      PROVE  CartShrinks
  <2>1. UNCHANGED <<cartItem, cartIssued, cartTwice>> /\ cartReq' = [cartReq EXCEPT ![r] = q]
    BY <1>3 DEF CartStart, CartGoto
  <2>2. \A x \in Requests : cartReq'[x] = cartReq[x] \/ cartReq'[x].pc # "push"
    BY <1>3, <1>t, <2>1
  <2> QED
    BY <1>1, <2>1, <2>2
<1>4. ASSUME NEW r \in Requests, NEW u \in Users, NEW entries \in SUBSET CartEntries,
             UpdateShoppingcart(r, u, entries)
      PROVE  CartShrinks
  <2>1. [CartIdle EXCEPT !.pc = "replace", !.user = u, !.entries = entries].pc = "replace"
    BY DEF CartIdle
  <2> QED
    BY <1>3, <1>4, <2>1 DEF UpdateShoppingcart
<1>5. ASSUME NEW r \in Requests, NEW i \in CartIds, NEW n \in Counts,
             UpdateShoppingcartItem(r, i, n)
      PROVE  CartShrinks
  <2>1. [CartIdle EXCEPT !.pc = "count", !.item = i, !.count = n,
                         !.user = cartItem[i].user].pc = "count"
    BY DEF CartIdle
  <2> QED
    BY <1>3, <1>5, <2>1 DEF UpdateShoppingcartItem
<1>6. ASSUME NEW r \in Requests, NEW i \in CartIds, DeleteShoppingcartItem(r, i)
      PROVE  CartShrinks
  <2>1. [CartIdle EXCEPT !.pc = "pull", !.item = i, !.user = cartItem[i].user].pc = "pull"
    BY DEF CartIdle
  <2> QED
    BY <1>3, <1>6, <2>1 DEF DeleteShoppingcartItem
<1>7. ASSUME NEW r \in Requests, CartGoto(r, CartIdle)
      PROVE  \A x \in Requests : cartReq'[x] = cartReq[x] \/ cartReq'[x].pc # "push"
  BY <1>7, <1>i, <1>t DEF CartGoto
<1>8. ASSUME NEW r \in Requests, PullItem(r) \/ CartRequestFails(r)
      PROVE  CartShrinks
  <2>1. /\ UNCHANGED <<cartIssued, cartTwice>> /\ CartGoto(r, CartIdle)
        /\ \A i \in CartIds : cartItem'[i] = cartItem[i] \/ cartItem'[i] = None
    BY <1>8 DEF PullItem, CartRequestFails, Pull
  <2> QED
    BY <1>7, <2>1 DEF CartShrinks, Present
<1>9. ASSUME NEW r \in Requests, UpdateItemCount(r)
      PROVE  CartShrinks
  <2> DEFINE q == cartReq[r]
  <2>1. /\ UNCHANGED <<cartIssued, cartTwice>> /\ CartGoto(r, CartIdle)
        /\ cartItem' = IF Present(q.item) THEN [cartItem EXCEPT ![q.item].count = q.count]
                       ELSE cartItem
        /\ q.pc = "count"
    BY <1>9 DEF UpdateItemCount
  <2>2. q.item \in CartIds /\ q.count \in Counts
    BY <2>1 DEF CartTypeInv, CartKnown, CartReqKnown
  <2>3. ASSUME NEW i \in CartIds, cartItem'[i] # cartItem[i]
        PROVE  /\ Present(i) /\ cartItem'[i] # None
               /\ cartItem'[i].user = cartItem[i].user
               /\ cartItem'[i].variant = cartItem[i].variant
    <3>1. i = q.item /\ Present(i) /\ cartItem[i] \in CartItems
      BY <1>t, <2>1, <2>2, <2>3 DEF Present
    <3>2. cartItem'[i] = [cartItem[i] EXCEPT !.count = q.count]
      BY <1>t, <2>1, <2>2, <3>1
    <3>3. cartItem'[i] \in CartItems /\ cartItem'[i].user = cartItem[i].user
          /\ cartItem'[i].variant = cartItem[i].variant
      BY <2>2, <3>1, <3>2 DEF CartItems
    <3> QED
      BY <1>t, <3>1, <3>3
  <2> QED
    BY <1>7, <2>1, <2>3 DEF CartShrinks, Present
<1> QED
  BY <1>2, <1>4, <1>5, <1>6, <1>8, <1>9 DEF CartNext, CartRequest

LEMMA CartPairsStep ==
    ASSUME CartInv, [CartNext]_cartVars
    PROVE  CartPairs'
<1>t. /\ cartReq \in [Requests -> CartReqs]
      /\ cartItem \in [CartIds -> CartItems \cup {None}]
      /\ cartIssued \in 0 .. MaxCartItems /\ MaxCartItems \in Nat
      /\ CartTypeInv /\ CartKnown /\ CartPairs
  BY CartAssumption DEF CartInv, CartTypeInv, CartShape
<1> SUFFICES ASSUME NEW u \in Users, NEW v \in Variants, <<u, v>> \notin cartTwice'
             PROVE  /\ \A i, j \in CartIds : Holds(i, u, v)' /\ Holds(j, u, v)' => i = j
                    /\ \A r \in Requests, i \in CartIds :
                          ~(Pushes(r, u, v)' /\ Holds(i, u, v)')
                    /\ \A r, x \in Requests :
                          Pushes(r, u, v)' /\ Pushes(x, u, v)' => r = x
  BY DEF CartPairs
<1>p. <<u, v>> \notin cartTwice =>
       /\ \A i, j \in CartIds : Holds(i, u, v) /\ Holds(j, u, v) => i = j
       /\ \A r \in Requests, i \in CartIds : ~(Pushes(r, u, v) /\ Holds(i, u, v))
       /\ \A r, x \in Requests : Pushes(r, u, v) /\ Pushes(x, u, v) => r = x
  BY <1>t DEF CartPairs
<1>1. CASE CartShrinks
  <2>1. /\ \A i \in CartIds : Holds(i, u, v)' => Holds(i, u, v)
        /\ \A r \in Requests : Pushes(r, u, v)' => Pushes(r, u, v)
        /\ cartTwice' = cartTwice
    BY <1>1 DEF CartShrinks, Holds, Pushes, Present
  <2> QED
    BY <1>p, <2>1
<1>2. ASSUME NEW r \in Requests, NEW w \in Users, NEW e \in CartEntries,
             CreateShoppingcartItem(r, w, e)
      PROVE  /\ \A i, j \in CartIds : Holds(i, u, v)' /\ Holds(j, u, v)' => i = j
             /\ \A y \in Requests, i \in CartIds : ~(Pushes(y, u, v)' /\ Holds(i, u, v)')
             /\ \A y, x \in Requests : Pushes(y, u, v)' /\ Pushes(x, u, v)' => y = x
  <2> DEFINE q == [CartIdle EXCEPT !.pc = "push", !.user = w, !.entries = {e}]
  <2>1. q.pc = "push" /\ q.user = w /\ q.entries = {e}
    BY DEF CartIdle
  <2>2. /\ cartReq' = [cartReq EXCEPT ![r] = q] /\ cartItem' = cartItem
        /\ cartTwice' = cartTwice \cup ({w} \X Adding(w, {e.variant}))
        /\ \A i \in CartIds : ~Holds(i, w, e.variant)
    BY <1>2 DEF CreateShoppingcartItem, CartStart, CartGoto, Holds
  <2> HIDE DEF q
  <2>3. /\ \A i \in CartIds : Holds(i, u, v)' <=> Holds(i, u, v)
        /\ \A x \in Requests \ {r} : Pushes(x, u, v)' <=> Pushes(x, u, v)
        /\ Pushes(r, u, v)' => u = w /\ v = e.variant
    BY <1>t, <2>1, <2>2 DEF Holds, Pushes, Present
  <2>4. (u = w /\ v = e.variant) => \A x \in Requests : ~Pushes(x, u, v)
    BY <2>2 DEF Adding, Pushes
  <2>5. <<u, v>> \notin cartTwice
    BY <2>2
  <2> QED
    BY <1>p, <2>2, <2>3, <2>4, <2>5
<1>3. ASSUME NEW r \in Requests, PushItem(r)
      PROVE  /\ \A i, j \in CartIds : Holds(i, u, v)' /\ Holds(j, u, v)' => i = j
             /\ \A y \in Requests, i \in CartIds : ~(Pushes(y, u, v)' /\ Holds(i, u, v)')
             /\ \A y, x \in Requests : Pushes(y, u, v)' /\ Pushes(x, u, v)' => y = x
  <2> DEFINE q == cartReq[r]
             n == cartIssued + 1
  <2>1. PICK e \in q.entries : cartItem' = [cartItem EXCEPT ![n] = CartItem(q.user, e)]
    BY <1>3 DEF PushItem
  <2>2. /\ q.pc = "push" /\ n \in CartIds /\ cartTwice' = cartTwice
        /\ cartReq' = [cartReq EXCEPT ![r] = CartIdle]
    BY <1>3, <1>t DEF PushItem, CartIds, CartGoto
  <2>3. /\ cartItem'[n] = CartItem(q.user, e)
        /\ \A i \in CartIds \ {n} : cartItem'[i] = cartItem[i]
        /\ cartReq'[r].pc # "push"
        /\ \A x \in Requests \ {r} : cartReq'[x] = cartReq[x]
    BY <1>t, <2>1, <2>2, CartIdleType
  <2>k. PICK m \in CartIds : m = n
    BY <2>2
  <2>4. /\ \A i \in CartIds \ {m} : Holds(i, u, v)' => Holds(i, u, v)
        /\ Holds(m, u, v)' => Pushes(r, u, v)
    BY <2>1, <2>2, <2>3, <2>k DEF Holds, Present, CartItem, Pushes
  <2>5. /\ ~Pushes(r, u, v)'
        /\ \A x \in Requests \ {r} : Pushes(x, u, v)' => Pushes(x, u, v)
    BY <2>3 DEF Pushes
  <2> QED
    BY <1>p, <2>2, <2>4, <2>5
<1>4. ASSUME NEW r \in Requests, ReplaceCartItems(r)
      PROVE  /\ \A i, j \in CartIds : Holds(i, u, v)' /\ Holds(j, u, v)' => i = j
             /\ \A y \in Requests, i \in CartIds : ~(Pushes(y, u, v)' /\ Holds(i, u, v)')
             /\ \A y, x \in Requests : Pushes(y, u, v)' /\ Pushes(x, u, v)' => y = x
  <2> DEFINE q == cartReq[r]
             New(i) == cartIssued < i /\ i <= cartIssued'
  <2>0. PICK n \in Nat : \E added \in [1 .. n -> q.entries] :
           IsInjective(added) /\ Replaced(r, n, added)
    BY <1>4, <1>t, ReplacedItems
  <2>1. PICK added \in [1 .. n -> q.entries] : IsInjective(added) /\ Replaced(r, n, added)
    BY <2>0
  <2>2. /\ cartReq' = [cartReq EXCEPT ![r] = CartIdle]
        /\ \A w \in {e.variant : e \in q.entries} :
              \/ Cardinality({e \in q.entries : e.variant = w}) > 1
              \/ w \in Adding(q.user, {e.variant : e \in q.entries})
              => <<q.user, w>> \in cartTwice'
        /\ cartTwice \subseteq cartTwice'
    BY <1>4 DEF ReplaceCartItems, CartGoto
  <2>3. /\ ~Pushes(r, u, v)'
        /\ \A x \in Requests \ {r} : Pushes(x, u, v)' => Pushes(x, u, v)
    BY <1>t, <2>2, CartIdleType DEF Pushes
  <2>4. ASSUME NEW i \in CartIds, Holds(i, u, v)', ~New(i)
        PROVE  Holds(i, u, v) /\ u # q.user
    BY <2>1, <2>4 DEF Replaced, Holds, Present
  <2>5. ASSUME NEW i \in CartIds, Holds(i, u, v)', New(i)
        PROVE  /\ u = q.user /\ i - cartIssued \in 1 .. n
               /\ added[i - cartIssued] \in q.entries
               /\ added[i - cartIssued].variant = v
    <3>1. /\ i - cartIssued \in 1 .. n
          /\ cartItem'[i] = CartItem(q.user, added[i - cartIssued])
      BY <2>1, <2>5 DEF Replaced
    <3>2. cartItem'[i].user = u /\ cartItem'[i].variant = v
      BY <2>5 DEF Holds
    <3> QED
      BY <3>1, <3>2 DEF CartItem
  <2>6. \A i, j \in CartIds : Holds(i, u, v)' /\ Holds(j, u, v)' => i = j
    <3> SUFFICES ASSUME NEW i \in CartIds, NEW j \in CartIds,
                        Holds(i, u, v)', Holds(j, u, v)', i # j
                 PROVE  FALSE
      OBVIOUS
    <3>1. CASE ~New(i) /\ ~New(j)
      BY <1>p, <2>2, <2>4, <3>1
    <3>2. CASE New(i) /\ New(j)
      <4> DEFINE S == {e \in q.entries : e.variant = v}
      <4>1. i - cartIssued # j - cartIssued
        BY <1>t DEF CartIds
      <4>2. added[i - cartIssued] # added[j - cartIssued]
        BY <2>1, <2>5, <3>2, <4>1 DEF IsInjective
      <4>3. added[i - cartIssued] \in S /\ added[j - cartIssued] \in S
        BY <2>5, <3>2
      <4>4. IsFiniteSet(S)
        <5>1. S \subseteq CartEntries
          BY <1>t DEF CartReqs
        <5> QED
          BY <5>1, FS_Subset, CartAssumption
      <4>5. Cardinality(S) > 1
        BY <4>2, <4>3, <4>4, TwoOfThem
      <4>6. v \in {e.variant : e \in q.entries}
        BY <4>3
      <4> QED
        BY <2>2, <2>5, <3>2, <4>5, <4>6
    <3> QED
      BY <2>4, <2>5, <3>1, <3>2
  <2>7. \A y \in Requests, i \in CartIds : ~(Pushes(y, u, v)' /\ Holds(i, u, v)')
    <3> SUFFICES ASSUME NEW y \in Requests, NEW i \in CartIds,
                        Pushes(y, u, v)', Holds(i, u, v)'
                 PROVE  FALSE
      OBVIOUS
    <3>1. y # r /\ Pushes(y, u, v)
      BY <2>3
    <3>2. CASE ~New(i)
      BY <1>p, <2>2, <2>4, <3>1, <3>2
    <3>3. CASE New(i)
      <4>1. u = q.user /\ v \in {e.variant : e \in q.entries}
        BY <2>5, <3>3
      <4>2. v \in Adding(q.user, {e.variant : e \in q.entries})
        BY <3>1, <4>1 DEF Adding, Pushes
      <4> QED
        BY <2>2, <4>1, <4>2
    <3> QED
      BY <3>2, <3>3
  <2> QED
    BY <1>p, <2>2, <2>3, <2>6, <2>7
<1> QED
  BY <1>1, <1>2, <1>3, <1>4, <1>t, CartSteps

LEMMA CartInitInv == CartInit => CartInv
<1> SUFFICES ASSUME CartInit PROVE CartInv
  OBVIOUS
<1>1. \A r \in Requests : cartReq[r] = CartIdle
  BY DEF CartInit
<1>2. CartShape
  BY CartIdleType, CartAssumption DEF CartInit, CartShape
<1>3. CartKnown
  BY <1>1, CartIdleType DEF CartInit, CartKnown, CartReqKnown, Present
<1>4. CartPairs
  BY <1>1, CartIdleType DEF CartInit, CartPairs, Holds, Pushes, Present
<1> QED
  BY <1>2, <1>3, <1>4 DEF CartInv, CartTypeInv

LEMMA CartInvStep == CartInv /\ [CartNext]_cartVars => CartInv'
BY CartTypeStep, CartPairsStep DEF CartInv

(* The invariant gives the type invariant of the cart, and that only what   *)
(* overlapped doubles an item.                                              *)
LEMMA CartInvTypes == CartInv => CartTypeOK
<1> SUFFICES ASSUME CartInv PROVE CartTypeOK
  OBVIOUS
<1>1. CartShape /\ CartKnown
  BY DEF CartInv, CartTypeInv
<1>2. \A r \in Requests : cartReq[r] \in CartReqs /\ CartReqKnown(cartReq[r])
  BY <1>1 DEF CartShape, CartKnown
<1> QED
  BY <1>1, <1>2 DEF CartTypeOK, CartShape, CartKnown, CartReqKnown, CartReqs

LEMMA CartInvOnce == CartInv => OneItemPerVariant
<1> SUFFICES ASSUME CartInv, NEW i \in CartIds, NEW j \in CartIds,
                    i # j, Present(i), Present(j),
                    cartItem[i].user = cartItem[j].user,
                    cartItem[i].variant = cartItem[j].variant
             PROVE  <<cartItem[i].user, cartItem[i].variant>> \in cartTwice
  BY DEF OneItemPerVariant
<1>1. cartItem[i].user \in Users /\ cartItem[i].variant \in Variants
  BY DEF CartInv, CartTypeInv, CartShape, CartKnown
<1> QED
  BY <1>1 DEF CartInv, CartPairs, Holds

(* Every step inserts, deletes or keeps each item of a cart.                *)
LEMMA CartLifeStep ==
    ASSUME CartInv, [CartNext]_cartVars
    PROVE  CartLife!Write
<1>t. /\ cartReq \in [Requests -> CartReqs] /\ CartTypeInv /\ CartKnown
      /\ cartItem \in [CartIds -> CartItems \cup {None}]
      /\ cartIssued \in 0 .. MaxCartItems /\ MaxCartItems \in Nat
      /\ None \notin CartItems
  BY CartAssumption DEF CartInv, CartTypeInv, CartShape
<1> SUFFICES ASSUME NEW i \in CartIds
             PROVE  CartLife!Keep(i) \/ CartLife!Insert(i) \/ CartLife!Delete(i)
  BY DEF CartLife!Write
<1>i. i \in Nat /\ (Present(i) => i <= cartIssued)
  BY <1>t DEF CartKnown, CartIds
<1>1. ASSUME cartIssued' \in Nat, cartIssued <= cartIssued',
             i <= cartIssued' => i <= cartIssued,
             \/ cartItem'[i] = None
             \/ /\ Present(i) /\ cartItem'[i] # None
                /\ cartItem'[i].user = cartItem[i].user
                /\ cartItem'[i].variant = cartItem[i].variant
      PROVE  CartLife!Keep(i) \/ CartLife!Delete(i)
  <2>1. i <= cartIssued' <=> i <= cartIssued
    BY <1>1, <1>i, <1>t
  <2> QED
    BY <1>1, <1>i, <2>1 DEF CartLife!Keep, CartLife!Delete, Present
<1>2. ASSUME i <= cartIssued', ~(i <= cartIssued), cartItem'[i] \in CartItems
      PROVE  CartLife!Insert(i)
  <2>1. ~Present(i) /\ cartItem'[i] # None
        /\ <<cartItem'[i].user, cartItem'[i].variant>> \in Users \X Variants
    BY <1>2, <1>i, <1>t DEF CartItems
  <2> QED
    BY <1>2, <2>1 DEF CartLife!Insert, Present
<1>3. CASE CartShrinks
  BY <1>1, <1>3, <1>t DEF CartShrinks
<1>4. ASSUME NEW r, NEW u, NEW e, CreateShoppingcartItem(r, u, e)
      PROVE  CartLife!Keep(i)
  BY <1>4 DEF CreateShoppingcartItem, CartStart, CartLife!Keep, Present
<1>5. ASSUME NEW r \in Requests, PushItem(r)
      PROVE  CartLife!Keep(i) \/ CartLife!Insert(i) \/ CartLife!Delete(i)
  <2> DEFINE q == cartReq[r]
             n == cartIssued + 1
  <2>1. PICK e \in q.entries : cartItem' = [cartItem EXCEPT ![n] = CartItem(q.user, e)]
    BY <1>5 DEF PushItem
  <2>2. q.pc = "push" /\ n \in CartIds /\ cartIssued' = n
    BY <1>5, <1>t DEF PushItem, CartIds
  <2>3. CASE i # n
    BY <1>1, <1>i, <1>t, <2>1, <2>2, <2>3 DEF Present
  <2>4. CASE i = n
    <3>1. cartItem'[i] = CartItem(q.user, e)
      BY <1>t, <2>1, <2>2, <2>4
    <3>2. q.user \in Users /\ e \in CartEntries
      BY <1>t, <2>2 DEF CartKnown, CartReqKnown, CartTypeInv, CartShape, CartReqs
    <3>3. cartItem'[i] \in CartItems
      BY <3>1, <3>2 DEF CartItem, CartItems, CartEntries
    <3> QED
      BY <1>2, <1>t, <2>2, <2>4, <3>3
  <2> QED
    BY <2>3, <2>4
<1>6. ASSUME NEW r \in Requests, ReplaceCartItems(r)
      PROVE  CartLife!Keep(i) \/ CartLife!Insert(i) \/ CartLife!Delete(i)
  <2>0. PICK n \in Nat : \E added \in [1 .. n -> cartReq[r].entries] : Replaced(r, n, added)
    BY <1>6, <1>t, ReplacedItems
  <2>1. PICK added \in [1 .. n -> cartReq[r].entries] : Replaced(r, n, added)
    BY <2>0
  <2>2. cartIssued' \in Nat /\ cartIssued <= cartIssued'
    BY <1>t, <2>1 DEF Replaced
  <2>3. CASE cartIssued < i /\ i <= cartIssued'
    <3>1. cartItem'[i] \in CartItems /\ ~(i <= cartIssued)
      BY <1>i, <1>t, <2>1, <2>3 DEF Replaced
    <3> QED
      BY <1>2, <2>3, <3>1
  <2>4. CASE ~(cartIssued < i /\ i <= cartIssued')
    <3>1. cartItem'[i] = None \/ cartItem'[i] = cartItem[i]
      BY <2>1, <2>4 DEF Replaced
    <3>2. i <= cartIssued' => i <= cartIssued
      BY <1>i, <1>t, <2>2, <2>4
    <3> QED
      BY <1>1, <2>2, <3>1, <3>2 DEF Present
  <2> QED
    BY <2>3, <2>4
<1> QED
  BY <1>3, <1>4, <1>5, <1>6, <1>t, CartSteps

(* An item leaves because it was ordered, or because of a request for it or *)
(* for its whole cart.                                                      *)
LEMMA CartLeaveStep ==
    ASSUME CartInv, [CartNext]_cartVars, NEW i \in CartIds, Present(i), cartItem'[i] = None
    PROVE  \/ \E o \in cartInbox : i \in cartOrder[o].items
           \/ \E r \in Requests :
                 \/ cartReq[r].pc = "pull" /\ cartReq[r].item = i
                 \/ cartReq[r].pc = "replace" /\ cartReq[r].user = cartItem[i].user
<1>t. /\ cartReq \in [Requests -> CartReqs] /\ CartTypeInv /\ CartKnown
      /\ cartItem \in [CartIds -> CartItems \cup {None}]
      /\ cartIssued \in 0 .. MaxCartItems /\ MaxCartItems \in Nat
      /\ None \notin CartItems
  BY CartAssumption DEF CartInv, CartTypeInv, CartShape
<1>i. i \in Nat /\ i <= cartIssued /\ cartItem[i] # None /\ cartItem[i] \in CartItems
  BY <1>t DEF CartKnown, CartIds, Present
<1>1. ASSUME NEW r \in Requests, ReplaceCartItems(r)
      PROVE  cartReq[r].pc = "replace" /\ cartReq[r].user = cartItem[i].user
  <2>0. PICK n \in Nat : \E added \in [1 .. n -> cartReq[r].entries] : Replaced(r, n, added)
    BY <1>1, <1>t, ReplacedItems
  <2>1. PICK added \in [1 .. n -> cartReq[r].entries] : Replaced(r, n, added)
    BY <2>0
  <2>2. ~(cartIssued < i /\ i <= cartIssued')
    BY <1>i, <1>t
  <2> QED
    BY <1>1, <1>i, <2>1, <2>2 DEF Replaced, ReplaceCartItems
<1>2. ASSUME NEW r \in Requests, PullItem(r)
      PROVE  cartReq[r].pc = "pull" /\ cartReq[r].item = i
  BY <1>2, <1>i DEF PullItem, Pull
<1>3. ASSUME NEW o \in CartOrders, CartOrderCreated(o)
      PROVE  o \in cartInbox /\ i \in cartOrder[o].items
  BY <1>3, <1>i DEF CartOrderCreated, Pull
<1>4. ~\E r \in Requests : PushItem(r)
  <2> SUFFICES ASSUME NEW r \in Requests, PushItem(r) PROVE FALSE
    OBVIOUS
  <2>1. PICK e \in cartReq[r].entries :
           cartItem' = [cartItem EXCEPT ![cartIssued + 1] = CartItem(cartReq[r].user, e)]
    BY DEF PushItem
  <2>2. i # cartIssued + 1
    BY <1>i, <1>t
  <2> QED
    BY <1>i, <1>t, <2>1, <2>2
<1>5. ~\E r \in Requests : UpdateItemCount(r)
  <2> SUFFICES ASSUME NEW r \in Requests, UpdateItemCount(r) PROVE FALSE
    OBVIOUS
  <2>1. PICK k \in CartIds : k = cartReq[r].item /\ cartReq[r].count \in Counts
    BY <1>t DEF UpdateItemCount, CartKnown, CartReqKnown
  <2>2. cartItem' = [cartItem EXCEPT ![k].count = cartReq[r].count] \/ cartItem' = cartItem
    BY <2>1 DEF UpdateItemCount
  <2>3. cartItem'[i] = [cartItem[i] EXCEPT !.count = cartReq[r].count]
        \/ cartItem'[i] = cartItem[i]
    BY <1>t, <2>1, <2>2
  <2>4. [cartItem[i] EXCEPT !.count = cartReq[r].count] \in CartItems
    BY <1>i, <2>1 DEF CartItems
  <2> QED
    BY <1>i, <1>t, <2>3, <2>4
<1>6. ~UNCHANGED cartItem
  BY <1>i
<1> QED
  BY <1>1, <1>2, <1>3, <1>4, <1>5, <1>6
  DEF CartNext, CartEvent, CartRequest, cartVars, CartUserCreated, CartVariantCreated,
      CartOrderPublished, CartCheckout, UpdateShoppingcart, CreateShoppingcartItem,
      UpdateShoppingcartItem, DeleteShoppingcartItem, CartStart, CartRequestFails
-----------------------------------------------------------------------------
(* The products of the catalog.  An update is a record of this shape.       *)
ProdReqs == [id : CatProducts \cup CatVariants \cup {None},
             row : ProductRows \cup VariantRows \cup {None},
             asked : SUBSET {"visible", "default"}, alone : BOOLEAN]

ProdShape ==
    /\ product \in [CatProducts -> ProductRows \cup {None}]
    /\ variant \in [CatVariants -> VariantRows \cup {None}]
    /\ prodReq \in [Requests -> ProdReqs]

IsVariantOf(v, p) == variant[v] # None /\ variant[v].product = p

(* The row an update is about to write keeps what no update may change: the *)
(* default variant is one of the product's, and a variant stays with its    *)
(* product.                                                                 *)
ProdReqKnown(q) ==
    /\ q.id \in CatProducts => /\ product[q.id] # None /\ q.row \in ProductRows
                               /\ IsVariantOf(q.row.default, q.id)
    /\ q.id \in CatVariants => /\ q.row \in VariantRows
                               /\ IsVariantOf(q.id, q.row.product)
                               /\ q.asked \subseteq {"visible"}

(* An update that is alone holds the current values of the fields it was    *)
(* not asked for.                                                           *)
ProdReqFresh(q) ==
    /\ q.id \in CatProducts =>
          /\ "visible" \notin q.asked => q.row.visible = product[q.id].visible
          /\ "default" \notin q.asked => q.row.default = product[q.id].default
    /\ q.id \in CatVariants /\ "visible" \notin q.asked =>
          q.row.visible = variant[q.id].visible

ProdAlone ==
    \A r \in Requests : prodReq[r].id # None /\ prodReq[r].alone =>
       /\ \A x \in Requests : prodReq[x].id = prodReq[r].id => x = r
       /\ ProdReqFresh(prodReq[r])

ProdInv ==
    /\ ProdShape /\ DefaultIsOwn
    /\ \A r \in Requests : ProdReqKnown(prodReq[r])
    /\ ProdAlone

LEMMA ProdIdleType ==
    ProdIdle \in ProdReqs /\ ProdIdle.id = None
BY DEF ProdIdle, ProdReqs

(* A patch replaces the fields it has, and keeps the others.                *)
LEMMA PatchedProduct ==
    ASSUME NEW row \in ProductRows, NEW fields \in ProductPatch
    PROVE  /\ Patched(row, fields) \in ProductRows
           /\ DOMAIN fields \subseteq {"visible", "default"}
           /\ "visible" \notin DOMAIN fields => Patched(row, fields).visible = row.visible
           /\ "default" \notin DOMAIN fields => Patched(row, fields).default = row.default
           /\ "default" \in DOMAIN fields => Patched(row, fields).default = fields.default
<1>1. /\ DOMAIN row = {"visible", "default"}
      /\ row["visible"] \in BOOLEAN /\ row["default"] \in CatVariants
  BY DEF ProductRows
<1>2. /\ DOMAIN fields \subseteq {"visible", "default"}
      /\ "visible" \in DOMAIN fields => fields["visible"] \in BOOLEAN
      /\ "default" \in DOMAIN fields => fields["default"] \in CatVariants
  BY DEF ProductPatch
<1> DEFINE p == Patched(row, fields)
<1>3. /\ p = [f \in {"visible", "default"} |-> p[f]]
      /\ p["visible"] = IF "visible" \in DOMAIN fields THEN fields["visible"]
                        ELSE row["visible"]
      /\ p["default"] = IF "default" \in DOMAIN fields THEN fields["default"]
                        ELSE row["default"]
  BY <1>1 DEF Patched
<1> HIDE DEF p
<1>4. p["visible"] \in BOOLEAN /\ p["default"] \in CatVariants
  BY <1>1, <1>2, <1>3
<1>5. p \in ProductRows
  BY <1>3, <1>4 DEF ProductRows
<1> QED
  BY <1>2, <1>3, <1>5 DEF p

LEMMA PatchedVariant ==
    ASSUME NEW row \in VariantRows, NEW fields \in ShownPatch
    PROVE  /\ Patched(row, fields) \in VariantRows
           /\ DOMAIN fields \subseteq {"visible"}
           /\ "visible" \notin DOMAIN fields => Patched(row, fields).visible = row.visible
           /\ Patched(row, fields).product = row.product
<1>1. /\ DOMAIN row = {"product", "visible"}
      /\ row["visible"] \in BOOLEAN /\ row["product"] \in CatProducts
  BY DEF VariantRows
<1>2. /\ DOMAIN fields \subseteq {"visible"}
      /\ "visible" \in DOMAIN fields => fields["visible"] \in BOOLEAN
  BY DEF ShownPatch
<1> DEFINE p == Patched(row, fields)
<1>3. /\ p = [f \in {"product", "visible"} |-> p[f]]
      /\ p["visible"] = IF "visible" \in DOMAIN fields THEN fields["visible"]
                        ELSE row["visible"]
      /\ p["product"] = row["product"]
  BY <1>1, <1>2 DEF Patched
<1> HIDE DEF p
<1>4. p["visible"] \in BOOLEAN /\ p["product"] \in CatProducts
  BY <1>1, <1>2, <1>3
<1>5. p \in VariantRows
  BY <1>3, <1>4 DEF VariantRows
<1> QED
  BY <1>2, <1>3, <1>5 DEF p

(* The load of a row: the other updates of it are not alone any more.       *)
LEMMA ProdLoadStep ==
    ASSUME ProdInv, NEW r \in Requests, NEW id \in CatProducts \cup CatVariants,
           NEW row \in ProductRows \cup VariantRows,
           NEW asked \in SUBSET {"visible", "default"},
           Load(r, id, row, asked),
           \A alone \in BOOLEAN :
              LET q == [id |-> id, row |-> row, asked |-> asked, alone |-> alone]
              IN  ProdReqKnown(q) /\ ProdReqFresh(q)
    PROVE  ProdInv'
<1>t. prodReq \in [Requests -> ProdReqs] /\ ProdShape /\ None \notin CatProducts \cup CatVariants
  BY ProductsAssumption DEF ProdInv, ProdShape
<1> DEFINE b == UpdatesOf(id) = {}
<1>1. /\ prodReq'[r] = [id |-> id, row |-> row, asked |-> asked, alone |-> b]
      /\ \A x \in Requests \ {r} :
            prodReq'[x] = IF x \in UpdatesOf(id) THEN [prodReq[x] EXCEPT !.alone = FALSE]
                          ELSE prodReq[x]
      /\ prodReq' = [x \in Requests |-> prodReq'[x]]
      /\ UNCHANGED <<product, variant>> /\ prodReq[r].id = None
  BY DEF Load
<1>2. b \in BOOLEAN
  OBVIOUS
<1> HIDE DEF b
<1>3. /\ prodReq'[r] \in ProdReqs /\ prodReq'[r].id = id /\ prodReq'[r].alone = b
      /\ ProdReqKnown(prodReq'[r]) /\ ProdReqFresh(prodReq'[r])
  BY <1>1, <1>2 DEF ProdReqs
<1>4. ASSUME NEW x \in Requests \ {r}
      PROVE  /\ prodReq'[x] \in ProdReqs
             /\ prodReq'[x].id = prodReq[x].id /\ prodReq'[x].row = prodReq[x].row
             /\ prodReq'[x].asked = prodReq[x].asked
             /\ prodReq'[x].alone => prodReq[x].alone /\ x \notin UpdatesOf(id)
  <2>1. prodReq[x] \in ProdReqs
    BY <1>t
  <2>2. [prodReq[x] EXCEPT !.alone = FALSE] \in ProdReqs
        /\ LET q == [prodReq[x] EXCEPT !.alone = FALSE]
           IN  q.id = prodReq[x].id /\ q.row = prodReq[x].row
               /\ q.asked = prodReq[x].asked /\ ~q.alone
    BY <2>1 DEF ProdReqs
  <2> QED
    BY <1>1, <2>1, <2>2
<1>5. prodReq' \in [Requests -> ProdReqs]
  BY <1>1, <1>3, <1>4
<1>6. ProdShape' /\ DefaultIsOwn'
  BY <1>1, <1>5, <1>t DEF ProdInv, ProdShape, DefaultIsOwn
<1>7. ASSUME NEW x \in Requests PROVE ProdReqKnown(prodReq[x])'
  <2>1. CASE x = r
    BY <1>1, <1>3, <2>1 DEF ProdReqKnown, IsVariantOf
  <2>2. CASE x # r
    <3>1. ProdReqKnown(prodReq[x])
      BY DEF ProdInv
    <3> QED
      BY <1>1, <1>4, <2>2, <3>1 DEF ProdReqKnown, IsVariantOf
  <2> QED
    BY <2>1, <2>2
<1>8. ProdAlone'
  <2> SUFFICES ASSUME NEW x \in Requests, prodReq'[x].id # None, prodReq'[x].alone
               PROVE  /\ \A y \in Requests : prodReq'[y].id = prodReq'[x].id => y = x
                      /\ ProdReqFresh(prodReq[x])'
    BY DEF ProdAlone
  <2>1. CASE x = r
    <3>1. UpdatesOf(id) = {}
      BY <1>3, <2>1 DEF b
    <3>2. ProdReqFresh(prodReq[x])'
      BY <1>1, <1>3, <2>1 DEF ProdReqFresh
    <3> QED
      BY <1>3, <1>4, <2>1, <3>1, <3>2 DEF UpdatesOf
  <2>2. CASE x # r
    <3>1. prodReq[x].id # None /\ prodReq[x].alone /\ prodReq[x].id # id
      BY <1>4, <2>2 DEF UpdatesOf
    <3>2. /\ \A y \in Requests : prodReq[y].id = prodReq[x].id => y = x
          /\ ProdReqFresh(prodReq[x])
      BY <3>1 DEF ProdInv, ProdAlone
    <3>3. ProdReqFresh(prodReq[x])'
      BY <1>1, <1>4, <2>2, <3>2 DEF ProdReqFresh
    <3> QED
      BY <1>3, <1>4, <2>2, <3>1, <3>2, <3>3
  <2> QED
    BY <2>1, <2>2
<1> QED
  BY <1>6, <1>7, <1>8 DEF ProdInv

(* A step that changes one row and ends one update, or none.                *)
LEMMA ProdWriteStep ==
    ASSUME ProdInv, NEW r \in Requests, prodReq' = [prodReq EXCEPT ![r] = ProdIdle],
           product' \in [CatProducts -> ProductRows \cup {None}],
           variant' \in [CatVariants -> VariantRows \cup {None}],
           \A p \in CatProducts : product'[p] # product[p] =>
              /\ p = prodReq[r].id /\ product'[p] # None
              /\ IsVariantOf(product'[p].default, p),
           \A v \in CatVariants : variant'[v] # variant[v] =>
              /\ v = prodReq[r].id /\ variant'[v] # None
              /\ IsVariantOf(v, variant'[v].product)
    PROVE  ProdInv'
<1>t. prodReq \in [Requests -> ProdReqs] /\ ProdShape /\ DefaultIsOwn
  BY DEF ProdInv, ProdShape
<1>1. /\ prodReq'[r] = ProdIdle /\ \A x \in Requests \ {r} : prodReq'[x] = prodReq[x]
      /\ prodReq' \in [Requests -> ProdReqs]
  BY <1>t, ProdIdleType
<1>2. ProdShape'
  BY <1>1 DEF ProdShape
<1>3. \A v \in CatVariants : \A p : IsVariantOf(v, p) => IsVariantOf(v, p)'
  BY DEF IsVariantOf
<1>4. \A p \in CatProducts : product'[p] # None =>
         product'[p].default \in CatVariants /\ IsVariantOf(product'[p].default, p)
  <2> SUFFICES ASSUME NEW p \in CatProducts, product'[p] # None
               PROVE  /\ product'[p].default \in CatVariants
                      /\ IsVariantOf(product'[p].default, p)
    OBVIOUS
  <2>1. product'[p] \in ProductRows
    OBVIOUS
  <2> QED
    BY <1>t, <2>1 DEF DefaultIsOwn, IsVariantOf, ProductRows
<1>5. DefaultIsOwn'
  BY <1>3, <1>4 DEF DefaultIsOwn, IsVariantOf
<1>6. ASSUME NEW x \in Requests PROVE ProdReqKnown(prodReq[x])'
  <2>1. CASE x = r
    BY <1>1, <2>1, ProdIdleType, ProductsAssumption DEF ProdReqKnown
  <2>2. CASE x # r
    <3>1. ProdReqKnown(prodReq[x]) /\ prodReq'[x] = prodReq[x]
      BY <1>1, <2>2 DEF ProdInv
    <3>2. prodReq[x].row \in ProductRows => prodReq[x].row.default \in CatVariants
      BY DEF ProductRows
    <3> QED
      BY <1>3, <3>1, <3>2 DEF ProdReqKnown
  <2> QED
    BY <2>1, <2>2
<1>7. ProdAlone'
  <2> SUFFICES ASSUME NEW x \in Requests, prodReq'[x].id # None, prodReq'[x].alone
               PROVE  /\ \A y \in Requests : prodReq'[y].id = prodReq'[x].id => y = x
                      /\ ProdReqFresh(prodReq[x])'
    BY DEF ProdAlone
  <2>1. x # r /\ prodReq'[x] = prodReq[x]
    BY <1>1, ProdIdleType
  <2>2. /\ \A y \in Requests : prodReq[y].id = prodReq[x].id => y = x
        /\ ProdReqFresh(prodReq[x])
    BY <2>1 DEF ProdInv, ProdAlone
  <2>3. prodReq[r].id # prodReq[x].id
    BY <2>1, <2>2
  <2>4. ProdReqFresh(prodReq[x])'
    BY <2>1, <2>2, <2>3 DEF ProdReqFresh
  <2> QED
    BY <1>1, <2>1, <2>2, <2>4, ProdIdleType
<1> QED
  BY <1>2, <1>5, <1>6, <1>7 DEF ProdInv

(* A creation fills rows that were empty: no update is on them.             *)
LEMMA ProdCreateStep ==
    ASSUME ProdInv, UNCHANGED prodReq,
           product' \in [CatProducts -> ProductRows \cup {None}],
           variant' \in [CatVariants -> VariantRows \cup {None}],
           \A p \in CatProducts : product'[p] # product[p] =>
              /\ product[p] = None
              /\ product'[p] # None => IsVariantOf(product[p].default, p)',
           \A v \in CatVariants : variant'[v] # variant[v] => variant[v] = None
    PROVE  ProdInv'
<1>t. ProdShape /\ DefaultIsOwn /\ prodReq \in [Requests -> ProdReqs]
  BY DEF ProdInv, ProdShape
<1>1. ProdShape'
  BY <1>t DEF ProdShape
<1>2. \A v \in CatVariants : \A p : IsVariantOf(v, p) => IsVariantOf(v, p)'
  BY DEF IsVariantOf
<1>3. DefaultIsOwn'
  <2> SUFFICES ASSUME NEW p \in CatProducts, product'[p] # None
               PROVE  IsVariantOf(product[p].default, p)'
    BY DEF DefaultIsOwn, IsVariantOf
  <2>1. CASE product'[p] = product[p]
    <3>1. product[p] \in ProductRows /\ product[p].default \in CatVariants
      BY <1>t, <2>1 DEF ProdShape, ProductRows
    <3>2. IsVariantOf(product[p].default, p)
      BY <1>t, <2>1 DEF DefaultIsOwn, IsVariantOf
    <3>3. product'[p].default \in CatVariants /\ IsVariantOf(product'[p].default, p)
      BY <2>1, <3>1, <3>2
    <3> QED
      BY <1>2, <3>3 DEF IsVariantOf
  <2> QED
    BY <2>1
<1>4. ASSUME NEW x \in Requests PROVE ProdReqKnown(prodReq[x])'
  <2>1. ProdReqKnown(prodReq[x])
    BY DEF ProdInv
  <2>2. prodReq[x].row \in ProductRows => prodReq[x].row.default \in CatVariants
    BY DEF ProductRows
  <2>3. prodReq[x].id \in CatProducts => product'[prodReq[x].id] = product[prodReq[x].id]
    BY <2>1 DEF ProdReqKnown
  <2> QED
    BY <1>2, <2>1, <2>2, <2>3 DEF ProdReqKnown
<1>5. ProdAlone'
  <2> SUFFICES ASSUME NEW x \in Requests, prodReq[x].id # None, prodReq[x].alone
               PROVE  /\ \A y \in Requests : prodReq[y].id = prodReq[x].id => y = x
                      /\ ProdReqFresh(prodReq[x])'
    BY DEF ProdAlone
  <2>1. /\ \A y \in Requests : prodReq[y].id = prodReq[x].id => y = x
        /\ ProdReqFresh(prodReq[x]) /\ ProdReqKnown(prodReq[x])
    BY DEF ProdInv, ProdAlone
  <2>2. ProdReqFresh(prodReq[x])'
    BY <2>1 DEF ProdReqFresh, ProdReqKnown, IsVariantOf
  <2> QED
    BY <2>1, <2>2
<1> QED
  BY <1>1, <1>3, <1>4, <1>5 DEF ProdInv

LEMMA ProdInitInv == ProductsInit => ProdInv
<1> SUFFICES ASSUME ProductsInit PROVE ProdInv
  OBVIOUS
<1>1. \A r \in Requests : prodReq[r] = ProdIdle
  BY DEF ProductsInit
<1>2. ProdShape
  BY ProdIdleType DEF ProductsInit, ProdShape
<1> QED
  BY <1>1, <1>2, ProdIdleType, ProductsAssumption
  DEF ProductsInit, ProdInv, ProdReqKnown, ProdAlone, DefaultIsOwn

LEMMA ProdInvStep == ProdInv /\ [ProductsNext]_prodVars => ProdInv'
<1> SUFFICES ASSUME ProdInv, [ProductsNext]_prodVars PROVE ProdInv'
  OBVIOUS
<1>t. /\ product \in [CatProducts -> ProductRows \cup {None}]
      /\ variant \in [CatVariants -> VariantRows \cup {None}]
      /\ prodReq \in [Requests -> ProdReqs]
      /\ CatProducts \cap CatVariants = {}
      /\ None \notin CatProducts \cup CatVariants \cup ProductRows \cup VariantRows
  BY ProductsAssumption DEF ProdInv, ProdShape
<1>1. ASSUME NEW p \in CatProducts, NEW v \in CatVariants, NEW shown \in BOOLEAN,
             NEW variantShown \in BOOLEAN, CreateProduct(p, v, shown, variantShown)
      PROVE  ProdInv'
  <2> DEFINE d == [visible |-> shown, default |-> v]
             w == [product |-> p, visible |-> variantShown]
  <2>1. /\ product' = [product EXCEPT ![p] = d] /\ product[p] = None
        /\ variant' = [variant EXCEPT ![v] = w] /\ variant[v] = None
        /\ UNCHANGED prodReq
    BY <1>1 DEF CreateProduct
  <2>2. d \in ProductRows /\ w \in VariantRows /\ d.default = v /\ w.product = p
    BY DEF ProductRows, VariantRows
  <2> HIDE DEF d, w
  <2>3. /\ product' \in [CatProducts -> ProductRows \cup {None}]
        /\ variant' \in [CatVariants -> VariantRows \cup {None}]
        /\ product'[p] = d /\ \A x \in CatProducts \ {p} : product'[x] = product[x]
        /\ variant'[v] = w /\ \A x \in CatVariants \ {v} : variant'[x] = variant[x]
    BY <1>t, <2>1, <2>2
  <2>4. IsVariantOf(product[p].default, p)'
    BY <1>t, <2>2, <2>3 DEF IsVariantOf
  <2> QED
    BY <2>1, <2>3, <2>4, ProdCreateStep
<1>2. ASSUME NEW p \in CatProducts, NEW v \in CatVariants, NEW shown \in BOOLEAN,
             CreateProductVariant(p, v, shown)
      PROVE  ProdInv'
  <2> DEFINE w == [product |-> p, visible |-> shown]
  <2>1. /\ product' = product /\ variant' = [variant EXCEPT ![v] = w]
        /\ variant[v] = None /\ UNCHANGED prodReq
    BY <1>2 DEF CreateProductVariant
  <2>2. w \in VariantRows
    BY DEF VariantRows
  <2> HIDE DEF w
  <2>3. /\ variant' \in [CatVariants -> VariantRows \cup {None}]
        /\ \A x \in CatVariants \ {v} : variant'[x] = variant[x]
    BY <1>t, <2>1, <2>2
  <2> QED
    BY <1>t, <2>1, <2>3, ProdCreateStep
<1>3. ASSUME NEW r \in Requests, NEW p \in CatProducts, NEW fields \in ProductPatch,
             UpdateProduct(r, p, fields)
      PROVE  ProdInv'
  <2> DEFINE row == Patched(product[p], fields)
  <2>1. /\ product[p] # None /\ Load(r, p, row, DOMAIN fields)
        /\ "default" \in DOMAIN fields => IsVariantOf(fields.default, p)
    BY <1>3 DEF UpdateProduct, IsVariantOf
  <2>2. product[p] \in ProductRows /\ IsVariantOf(product[p].default, p)
    BY <1>t, <2>1 DEF ProdInv, DefaultIsOwn, IsVariantOf
  <2>3. /\ row \in ProductRows /\ DOMAIN fields \in SUBSET {"visible", "default"}
        /\ "visible" \notin DOMAIN fields => row.visible = product[p].visible
        /\ "default" \notin DOMAIN fields => row.default = product[p].default
        /\ IsVariantOf(row.default, p)
    BY <2>1, <2>2, PatchedProduct
  <2> HIDE DEF row
  <2>4. ASSUME NEW alone \in BOOLEAN
        PROVE  LET q == [id |-> p, row |-> row, asked |-> DOMAIN fields, alone |-> alone]
               IN  ProdReqKnown(q) /\ ProdReqFresh(q)
    BY <1>t, <2>1, <2>3 DEF ProdReqKnown, ProdReqFresh
  <2> QED
    BY <2>1, <2>3, <2>4, ProdLoadStep
<1>4. ASSUME NEW r \in Requests, NEW v \in CatVariants, NEW fields \in ShownPatch,
             UpdateProductVariant(r, v, fields)
      PROVE  ProdInv'
  <2> DEFINE row == Patched(variant[v], fields)
  <2>1. variant[v] # None /\ Load(r, v, row, DOMAIN fields) /\ variant[v] \in VariantRows
    BY <1>4, <1>t DEF UpdateProductVariant
  <2>2. /\ row \in VariantRows /\ DOMAIN fields \subseteq {"visible"}
        /\ "visible" \notin DOMAIN fields => row.visible = variant[v].visible
        /\ row.product = variant[v].product
    BY <2>1, PatchedVariant
  <2> HIDE DEF row
  <2>3. ASSUME NEW alone \in BOOLEAN
        PROVE  LET q == [id |-> v, row |-> row, asked |-> DOMAIN fields, alone |-> alone]
               IN  ProdReqKnown(q) /\ ProdReqFresh(q)
    BY <1>t, <2>1, <2>2 DEF ProdReqKnown, ProdReqFresh, IsVariantOf
  <2>4. DOMAIN fields \in SUBSET {"visible", "default"}
    BY <2>2
  <2> QED
    BY <2>1, <2>2, <2>3, <2>4, ProdLoadStep
<1>5. ASSUME NEW r \in Requests, WriteRow(r)
      PROVE  ProdInv'
  <2> DEFINE q == prodReq[r]
  <2>1. ProdReqKnown(q) /\ q \in ProdReqs /\ q.id # None
        /\ prodReq' = [prodReq EXCEPT ![r] = ProdIdle]
    BY <1>5, <1>t DEF ProdInv, WriteRow
  <2>2. CASE q.id \in CatProducts
    <3>1. product' = [product EXCEPT ![q.id] = q.row] /\ variant' = variant
      BY <1>5, <2>2 DEF WriteRow
    <3>2. q.row \in ProductRows /\ IsVariantOf(q.row.default, q.id)
      BY <2>1, <2>2 DEF ProdReqKnown
    <3>3. /\ product' \in [CatProducts -> ProductRows \cup {None}]
          /\ product'[q.id] = q.row
          /\ \A p \in CatProducts \ {q.id} : product'[p] = product[p]
      BY <1>t, <2>2, <3>1, <3>2
    <3>4. \A p \in CatProducts : product'[p] # product[p] =>
             p = q.id /\ product'[p] # None /\ IsVariantOf(product'[p].default, p)
      BY <1>t, <3>2, <3>3
    <3> QED
      BY <1>t, <2>1, <3>1, <3>3, <3>4, ProdWriteStep
  <2>3. CASE q.id \in CatVariants
    <3>1. variant' = [variant EXCEPT ![q.id] = q.row] /\ product' = product
      BY <1>5, <1>t, <2>3 DEF WriteRow
    <3>2. q.row \in VariantRows /\ IsVariantOf(q.id, q.row.product)
      BY <2>1, <2>3 DEF ProdReqKnown
    <3>3. /\ variant' \in [CatVariants -> VariantRows \cup {None}]
          /\ variant'[q.id] = q.row
          /\ \A v \in CatVariants \ {q.id} : variant'[v] = variant[v]
      BY <1>t, <2>3, <3>1, <3>2
    <3>4. \A v \in CatVariants : variant'[v] # variant[v] =>
             v = q.id /\ variant'[v] # None /\ IsVariantOf(v, variant'[v].product)
      BY <1>t, <3>2, <3>3
    <3> QED
      BY <1>t, <2>1, <3>1, <3>3, <3>4, ProdWriteStep
  <2> QED
    BY <2>1, <2>2, <2>3 DEF ProdReqs
<1>6. ASSUME NEW r \in Requests, UpdateFails(r)
      PROVE  ProdInv'
  <2>1. /\ prodReq' = [prodReq EXCEPT ![r] = ProdIdle]
        /\ product' = product /\ variant' = variant
    BY <1>6 DEF UpdateFails
  <2> QED
    BY <1>t, <2>1, ProdWriteStep
<1>7. CASE UNCHANGED prodVars
  <2>1. UNCHANGED <<product, variant, prodReq>>
    BY <1>7 DEF prodVars
  <2> QED
    BY <1>t, <2>1, ProdCreateStep
<1> QED
  BY <1>1, <1>2, <1>3, <1>4, <1>5, <1>6, <1>7 DEF ProductsNext

LEMMA ProdInvTypes == ProdInv => ProductsTypeOK
<1> SUFFICES ASSUME ProdInv PROVE ProductsTypeOK
  OBVIOUS
<1>1. \A r \in Requests : prodReq[r] \in ProdReqs /\ ProdReqKnown(prodReq[r])
  BY DEF ProdInv, ProdShape
<1> QED
  BY <1>1 DEF ProdInv, ProdShape, ProductsTypeOK, ProdReqs, ProdReqKnown

(* A step keeps the fields that an update which was alone did not ask for.  *)
LEMMA ProdFieldsStep ==
    ASSUME ProdInv, [ProductsNext]_prodVars, NEW r \in Requests,
           prodReq'[r] # prodReq[r], prodReq[r].alone
    PROVE  /\ prodReq[r].id \in CatProducts =>
                 \A f \in {"visible", "default"} \ prodReq[r].asked :
                    product'[prodReq[r].id][f] = product[prodReq[r].id][f]
           /\ prodReq[r].id \in CatVariants =>
                 \A f \in {"product", "visible"} \ prodReq[r].asked :
                    variant'[prodReq[r].id][f] = variant[prodReq[r].id][f]
<1> DEFINE q == prodReq[r]
<1>t. /\ product \in [CatProducts -> ProductRows \cup {None}]
      /\ variant \in [CatVariants -> VariantRows \cup {None}]
      /\ prodReq \in [Requests -> ProdReqs]
      /\ CatProducts \cap CatVariants = {} /\ None \notin CatProducts \cup CatVariants
      /\ ProdReqKnown(q)
  BY ProductsAssumption DEF ProdInv, ProdShape
<1>1. CASE UNCHANGED <<product, variant>>
  BY <1>1
<1>2. CASE WriteRow(r)
  <2>f. q.id # None => ProdReqFresh(q)
    BY DEF ProdInv, ProdAlone
  <2>1. ASSUME q.id \in CatProducts, NEW f \in {"visible", "default"} \ q.asked
        PROVE  product'[q.id][f] = product[q.id][f]
    <3>1. product'[q.id] = q.row
      BY <1>2, <1>t, <2>1 DEF WriteRow
    <3>2. f = "visible" => q.row.visible = product[q.id].visible
      BY <1>t, <2>1, <2>f DEF ProdReqFresh
    <3>3. f = "default" => q.row.default = product[q.id].default
      BY <1>t, <2>1, <2>f DEF ProdReqFresh
    <3> QED
      BY <2>1, <3>1, <3>2, <3>3
  <2>2. ASSUME q.id \in CatVariants, NEW f \in {"product", "visible"} \ q.asked
        PROVE  variant'[q.id][f] = variant[q.id][f]
    <3>1. variant'[q.id] = q.row
      BY <1>2, <1>t, <2>2 DEF WriteRow
    <3>2. f = "visible" => q.row.visible = variant[q.id].visible
      BY <1>t, <2>2, <2>f DEF ProdReqFresh
    <3>3. q.row.product = variant[q.id].product
      BY <1>t, <2>2 DEF ProdReqKnown, IsVariantOf
    <3> QED
      BY <2>2, <3>1, <3>2, <3>3
  <2> QED
    BY <2>1, <2>2
<1>3. ASSUME NEW x \in Requests, WriteRow(x), x # r
      PROVE  FALSE
  BY <1>3, <1>t DEF WriteRow
<1>4. ASSUME UNCHANGED prodReq
      PROVE  FALSE
  BY <1>4
<1> QED
  BY <1>1, <1>2, <1>3, <1>4
  DEF ProductsNext, prodVars, CreateProduct, CreateProductVariant, UpdateProduct,
      UpdateProductVariant, Load, UpdateFails
-----------------------------------------------------------------------------
(* The notifications, and the updates of them in progress.                  *)
NotifDocs == [user : Users, origin : Notices \cup {None}, readAt : Nat]
NotifReqs == [id : Nat, loaded : Nat, isRead : BOOLEAN, alone : BOOLEAN]

NotifShape ==
    /\ notifUsers \subseteq Users /\ notifInbox \subseteq Users \cup Notices
    /\ notification \in Seq(NotifDocs)
    /\ notifReq \in [Requests -> NotifReqs]
    /\ notifNow \in 1 .. MaxMoment
NotifKnown ==
    /\ \A i \in 1 .. Len(notification) :
          notification[i].user \in notifUsers /\ notification[i].readAt <= notifNow
    /\ \A r \in Requests :
          notifReq[r].id <= Len(notification) /\ notifReq[r].loaded <= notifNow

(* An update that is alone has loaded the time that is there.               *)
NotifAlone ==
    \A r \in Requests : notifReq[r].id # 0 /\ notifReq[r].alone =>
       /\ \A x \in Requests : notifReq[x].id = notifReq[r].id => x = r
       /\ notifReq[r].loaded = notification[notifReq[r].id].readAt

NotifInv == NotifShape /\ NotifKnown /\ NotifAlone

LEMMA NotifIdleType ==
    /\ NotifIdle \in NotifReqs /\ NotifIdle.id = 0 /\ NotifIdle.loaded = 0
BY DEF NotifIdle, NotifReqs, Unread

LEMMA NotifInitInv == NotificationInit => NotifInv
<1> SUFFICES ASSUME NotificationInit PROVE NotifInv
  OBVIOUS
<1>1. \A r \in Requests : notifReq[r] = NotifIdle
  BY DEF NotificationInit
<1>2. NotifShape
  BY NotifIdleType, NotificationAssumption DEF NotificationInit, NotifShape
<1> QED
  BY <1>1, <1>2, NotifIdleType DEF NotificationInit, NotifInv, NotifKnown, NotifAlone

(* A new notification is appended, unread.                                  *)
LEMMA NotifAddStep ==
    ASSUME NotifInv, NEW u \in Users, NEW origin \in Notices \cup {None},
           AddNotification(u, origin), UNCHANGED <<notifUsers, notifReq, notifNow>>,
           notifInbox' \subseteq Users \cup Notices
    PROVE  NotifInv'
<1> DEFINE d == [user |-> u, origin |-> origin, readAt |-> Unread]
           n == Len(notification)
<1>t. /\ notification \in Seq(NotifDocs) /\ notifReq \in [Requests -> NotifReqs]
      /\ NotifShape /\ NotifKnown /\ NotifAlone /\ n \in Nat /\ notifNow \in Nat
  BY NotificationAssumption DEF NotifInv, NotifShape
<1>1. u \in notifUsers /\ notification' = Append(notification, d)
  BY DEF AddNotification
<1>2. d \in NotifDocs /\ d.user = u /\ d.readAt = 0
  BY DEF NotifDocs, Unread
<1> HIDE DEF d
<1>3. /\ notification' \in Seq(NotifDocs) /\ Len(notification') = n + 1
      /\ \A i \in 1 .. n : notification'[i] = notification[i]
      /\ notification'[n + 1] = d
  BY <1>1, <1>2, <1>t
<1>4. NotifShape'
  BY <1>3, <1>t DEF NotifShape
<1>5. ASSUME NEW i \in 1 .. n + 1
      PROVE  notification'[i].user \in notifUsers /\ notification'[i].readAt <= notifNow
  <2>1. CASE i = n + 1
    BY <1>1, <1>2, <1>3, <1>t, <2>1
  <2>2. CASE i # n + 1
    <3>1. i \in 1 .. n
      BY <1>t, <2>2
    <3> QED
      BY <1>3, <1>t, <3>1 DEF NotifKnown
  <2> QED
    BY <2>1, <2>2
<1>6. ASSUME NEW r \in Requests
      PROVE  notifReq[r].id <= n + 1 /\ notifReq[r].loaded <= notifNow
  <2>1. notifReq[r].id \in Nat /\ notifReq[r].id <= n /\ notifReq[r].loaded <= notifNow
    BY <1>t DEF NotifReqs, NotifKnown
  <2> QED
    BY <1>t, <2>1
<1>7. NotifKnown'
  BY <1>3, <1>5, <1>6 DEF NotifKnown
<1>8. NotifAlone'
  <2> SUFFICES ASSUME NEW r \in Requests, notifReq[r].id # 0, notifReq[r].alone
               PROVE  /\ \A x \in Requests : notifReq[x].id = notifReq[r].id => x = r
                      /\ notifReq[r].loaded = notification'[notifReq[r].id].readAt
    BY DEF NotifAlone
  <2>1. notifReq[r].id \in 1 .. n
    BY <1>t DEF NotifReqs, NotifKnown
  <2> QED
    BY <1>3, <1>t, <2>1 DEF NotifAlone
<1> QED
  BY <1>4, <1>7, <1>8 DEF NotifInv

(* The load of an update: the others on the notification are not alone.     *)
LEMMA NotifLoadStep ==
    ASSUME NotifInv, NEW r \in Requests, NEW i \in 1 .. MaxNotifications,
           NEW isRead \in BOOLEAN, UpdateNotification(r, i, isRead)
    PROVE  NotifInv'
<1>t. /\ notification \in Seq(NotifDocs) /\ notifReq \in [Requests -> NotifReqs]
      /\ NotifShape /\ NotifKnown /\ NotifAlone
  BY DEF NotifInv, NotifShape
<1> DEFINE b == ReadingOf(i) = {}
<1>1. /\ notifReq'[r] = [id |-> i, loaded |-> notification[i].readAt,
                         isRead |-> isRead, alone |-> b]
      /\ \A x \in Requests \ {r} :
            notifReq'[x] = IF x \in ReadingOf(i) THEN [notifReq[x] EXCEPT !.alone = FALSE]
                           ELSE notifReq[x]
      /\ notifReq' = [x \in Requests |-> notifReq'[x]]
      /\ i \in DOMAIN notification
      /\ UNCHANGED <<notifUsers, notifInbox, notification, notifNow>>
  BY DEF UpdateNotification
<1>2. b \in BOOLEAN /\ i \in 1 .. Len(notification)
  BY <1>1, <1>t
<1> HIDE DEF b
<1>3. /\ notification[i].readAt \in Nat /\ notification[i].readAt <= notifNow
  <2>1. notification[i] \in NotifDocs
    BY <1>2, <1>t
  <2> QED
    BY <1>2, <1>t, <2>1 DEF NotifKnown, NotifDocs
<1>4. /\ notifReq'[r] \in NotifReqs /\ notifReq'[r].id = i /\ notifReq'[r].alone = b
      /\ notifReq'[r].loaded = notification[i].readAt
  BY <1>1, <1>2, <1>3 DEF NotifReqs
<1>5. ASSUME NEW x \in Requests \ {r}
      PROVE  /\ notifReq'[x] \in NotifReqs
             /\ notifReq'[x].id = notifReq[x].id /\ notifReq'[x].loaded = notifReq[x].loaded
             /\ notifReq'[x].alone => notifReq[x].alone /\ x \notin ReadingOf(i)
  <2>1. notifReq[x] \in NotifReqs
    BY <1>t
  <2>2. LET q == [notifReq[x] EXCEPT !.alone = FALSE]
        IN  q \in NotifReqs /\ q.id = notifReq[x].id /\ q.loaded = notifReq[x].loaded
            /\ ~q.alone
    BY <2>1 DEF NotifReqs
  <2> QED
    BY <1>1, <2>1, <2>2
<1>6. NotifShape'
  <2>1. notifReq' \in [Requests -> NotifReqs]
    BY <1>1, <1>4, <1>5
  <2> QED
    BY <1>1, <1>t, <2>1 DEF NotifShape
<1>7. NotifKnown'
  <2>1. ASSUME NEW x \in Requests
        PROVE  notifReq'[x].id <= Len(notification) /\ notifReq'[x].loaded <= notifNow
    <3>1. CASE x = r
      BY <1>2, <1>3, <1>4, <3>1
    <3>2. CASE x # r
      BY <1>5, <1>t, <3>2 DEF NotifKnown
    <3> QED
      BY <3>1, <3>2
  <2> QED
    BY <1>1, <1>t, <2>1 DEF NotifKnown
<1>8. NotifAlone'
  <2> SUFFICES ASSUME NEW x \in Requests, notifReq'[x].id # 0, notifReq'[x].alone
               PROVE  /\ \A y \in Requests : notifReq'[y].id = notifReq'[x].id => y = x
                      /\ notifReq'[x].loaded = notification'[notifReq'[x].id].readAt
    BY DEF NotifAlone
  <2>1. CASE x = r
    <3>1. ReadingOf(i) = {}
      BY <1>4, <2>1 DEF b
    <3> QED
      BY <1>1, <1>4, <1>5, <2>1, <3>1 DEF ReadingOf
  <2>2. CASE x # r
    BY <1>1, <1>4, <1>5, <1>t, <2>2 DEF ReadingOf, NotifAlone
  <2> QED
    BY <2>1, <2>2
<1> QED
  BY <1>6, <1>7, <1>8 DEF NotifInv

(* The update is written, or fails.                                         *)
LEMMA NotifWriteStep ==
    ASSUME NotifInv, NEW r \in Requests, notifReq[r].id # 0,
           notifReq' = [notifReq EXCEPT ![r] = NotifIdle],
           notification' \in Seq(NotifDocs), Len(notification') = Len(notification),
           \A i \in 1 .. Len(notification) :
              /\ notification'[i].user = notification[i].user
              /\ notification'[i].readAt <= notifNow
              /\ notification'[i] # notification[i] => i = notifReq[r].id,
           UNCHANGED <<notifUsers, notifInbox, notifNow>>
    PROVE  NotifInv'
<1>t. /\ notification \in Seq(NotifDocs) /\ notifReq \in [Requests -> NotifReqs]
      /\ NotifShape /\ NotifKnown /\ NotifAlone /\ notifNow \in Nat
  BY NotificationAssumption DEF NotifInv, NotifShape
<1>1. /\ notifReq'[r] = NotifIdle /\ \A x \in Requests \ {r} : notifReq'[x] = notifReq[x]
      /\ notifReq' \in [Requests -> NotifReqs]
  BY <1>t, NotifIdleType
<1>2. NotifShape'
  BY <1>1, <1>t DEF NotifShape
<1>3. NotifKnown'
  <2>1. ASSUME NEW x \in Requests
        PROVE  notifReq'[x].id <= Len(notification) /\ notifReq'[x].loaded <= notifNow
    <3>1. CASE x = r
      BY <1>1, <1>t, <3>1, NotifIdleType
    <3>2. CASE x # r
      BY <1>1, <1>t, <3>2 DEF NotifKnown
    <3> QED
      BY <3>1, <3>2
  <2> QED
    BY <1>t, <2>1 DEF NotifKnown
<1>4. NotifAlone'
  <2> SUFFICES ASSUME NEW x \in Requests, notifReq'[x].id # 0, notifReq'[x].alone
               PROVE  /\ \A y \in Requests : notifReq'[y].id = notifReq'[x].id => y = x
                      /\ notifReq'[x].loaded = notification'[notifReq'[x].id].readAt
    BY DEF NotifAlone
  <2>1. x # r /\ notifReq'[x] = notifReq[x]
    BY <1>1, NotifIdleType
  <2>2. /\ \A y \in Requests : notifReq[y].id = notifReq[x].id => y = x
        /\ notifReq[x].loaded = notification[notifReq[x].id].readAt
        /\ notifReq[x].id \in 1 .. Len(notification)
    BY <1>t, <2>1 DEF NotifAlone, NotifKnown, NotifReqs
  <2> QED
    BY <1>1, <2>1, <2>2, NotifIdleType
<1> QED
  BY <1>2, <1>3, <1>4 DEF NotifInv

(* What SetNotificationRead writes.                                         *)
LEMMA NotifWritten ==
    ASSUME NotifInv, NEW r \in Requests, SetNotificationRead(r)
    PROVE  LET q == notifReq[r]
               t == NewRead(q.loaded, q.isRead)
           IN  /\ q.id \in 1 .. Len(notification)
               /\ t \in Nat /\ t <= notifNow
               /\ notification' \in Seq(NotifDocs)
               /\ Len(notification') = Len(notification)
               /\ \A i \in 1 .. Len(notification) :
                     /\ i # q.id => notification'[i] = notification[i]
                     /\ notification'[i].user = notification[i].user
               /\ notification'[q.id].readAt = t
<1> DEFINE q == notifReq[r]
           t == NewRead(q.loaded, q.isRead)
<1>t. /\ notification \in Seq(NotifDocs) /\ notifReq \in [Requests -> NotifReqs]
      /\ NotifKnown /\ notifNow \in Nat
  BY NotificationAssumption DEF NotifInv, NotifShape
<1>1. q.id # 0 /\ notification' = [notification EXCEPT ![q.id].readAt = t]
  BY DEF SetNotificationRead
<1>2. q.id \in 1 .. Len(notification) /\ q.loaded \in Nat /\ q.loaded <= notifNow
  BY <1>1, <1>t DEF NotifReqs, NotifKnown
<1>3. t \in Nat /\ t <= notifNow
  BY <1>2, <1>t DEF NewRead, Unread
<1> HIDE DEF t
<1> DEFINE d == [notification[q.id] EXCEPT !.readAt = t]
<1>4. d \in NotifDocs /\ d.user = notification[q.id].user /\ d.readAt = t
  <2>1. notification[q.id] \in NotifDocs
    BY <1>2, <1>t
  <2> QED
    BY <1>3, <2>1 DEF NotifDocs
<1>5. notification' = [notification EXCEPT ![q.id] = d]
  BY <1>1
<1> HIDE DEF d
<1>6. /\ notification' \in Seq(NotifDocs) /\ Len(notification') = Len(notification)
      /\ notification'[q.id] = d
      /\ \A i \in 1 .. Len(notification) : i # q.id => notification'[i] = notification[i]
  BY <1>2, <1>4, <1>5, <1>t
<1> QED
  BY <1>2, <1>3, <1>4, <1>6 DEF t

LEMMA NotifInvStep == NotifInv /\ [NotificationNext]_notifVars => NotifInv'
<1> SUFFICES ASSUME NotifInv, [NotificationNext]_notifVars PROVE NotifInv'
  OBVIOUS
<1>t. /\ notification \in Seq(NotifDocs) /\ notifReq \in [Requests -> NotifReqs]
      /\ NotifShape /\ NotifKnown /\ NotifAlone
      /\ notifUsers \subseteq Users /\ notifInbox \subseteq Users \cup Notices
      /\ RecipientOf \in [Notices -> Users]
      /\ notifNow \in 1 .. MaxMoment /\ MaxMoment \in Nat
  BY NotificationAssumption DEF NotifInv, NotifShape
<1>1. ASSUME UNCHANGED <<notification, notifReq>>,
             notifUsers \subseteq notifUsers', notifUsers' \subseteq Users,
             notifInbox' \subseteq Users \cup Notices,
             notifNow <= notifNow', notifNow' \in 1 .. MaxMoment
      PROVE  NotifInv'
  <2>1. NotifShape' /\ NotifAlone'
    BY <1>1, <1>t DEF NotifShape, NotifAlone
  <2>2. \A i \in 1 .. Len(notification) : notification[i].readAt \in Nat
    <3>1. \A i \in 1 .. Len(notification) : notification[i] \in NotifDocs
      BY <1>t
    <3> QED
      BY <3>1 DEF NotifDocs
  <2>3. \A r \in Requests : notifReq[r].loaded \in Nat
    BY <1>t DEF NotifReqs
  <2>4. NotifKnown'
    BY <1>1, <1>t, <2>2, <2>3 DEF NotifKnown
  <2> QED
    BY <2>1, <2>4 DEF NotifInv
<1>2. CASE NotifyTick
  BY <1>1, <1>2, <1>t DEF NotifyTick
<1>3. ASSUME NEW u \in Users, NotifUserCreated(u)
      PROVE  NotifInv'
  BY <1>1, <1>3, <1>t DEF NotifUserCreated
<1>4. ASSUME NEW u \in Users, CreateNotification(u)
      PROVE  NotifInv'
  BY <1>4, <1>t, NotifAddStep DEF CreateNotification
<1>5. ASSUME NEW n \in Notices, NotificationCreate(n)
      PROVE  NotifInv'
  <2>1. /\ RecipientOf[n] \in Users /\ n \in Notices \cup {None}
        /\ notifInbox' \subseteq Users \cup Notices
        /\ AddNotification(RecipientOf[n], n) /\ UNCHANGED <<notifUsers, notifReq, notifNow>>
    BY <1>5, <1>t DEF NotificationCreate
  <2> QED
    BY <2>1, NotifAddStep
<1>6. ASSUME NEW n \in Notices, NoticeAgain(n)
      PROVE  NotifInv'
  BY <1>1, <1>6, <1>t DEF NoticeAgain
<1>7. ASSUME NEW r \in Requests, SetNotificationRead(r)
      PROVE  NotifInv'
  <2> DEFINE q == notifReq[r]
  <2>1. /\ q.id # 0 /\ notifReq' = [notifReq EXCEPT ![r] = NotifIdle]
        /\ UNCHANGED <<notifUsers, notifInbox, notifNow>>
    BY <1>7 DEF SetNotificationRead
  <2>2. /\ notification' \in Seq(NotifDocs) /\ Len(notification') = Len(notification)
        /\ \A i \in 1 .. Len(notification) :
              /\ notification'[i].user = notification[i].user
              /\ i # q.id => notification'[i] = notification[i]
        /\ notification'[q.id].readAt <= notifNow
    BY <1>7, NotifWritten
  <2>3. \A i \in 1 .. Len(notification) :
              /\ notification'[i].user = notification[i].user
              /\ notification'[i].readAt <= notifNow
              /\ notification'[i] # notification[i] => i = q.id
    BY <1>t, <2>2 DEF NotifKnown
  <2> QED
    BY <2>1, <2>2, <2>3, NotifWriteStep
<1>8. ASSUME NEW r \in Requests, UpdateNotificationFails(r)
      PROVE  NotifInv'
  <2>1. /\ notifReq[r].id # 0 /\ notifReq' = [notifReq EXCEPT ![r] = NotifIdle]
        /\ notification' = notification /\ UNCHANGED <<notifUsers, notifInbox, notifNow>>
    BY <1>8 DEF UpdateNotificationFails
  <2>2. \A i \in 1 .. Len(notification) :
              /\ notification'[i].user = notification[i].user
              /\ notification'[i].readAt <= notifNow
    BY <1>t, <2>1 DEF NotifKnown
  <2> QED
    BY <1>t, <2>1, <2>2, NotifWriteStep
<1>9. CASE UNCHANGED notifVars
  BY <1>1, <1>9, <1>t DEF notifVars
<1> QED
  BY <1>2, <1>3, <1>4, <1>5, <1>6, <1>7, <1>8, <1>9, NotifLoadStep DEF NotificationNext

LEMMA NotifInvTypes == NotifInv => NotificationTypeOK
<1> SUFFICES ASSUME NotifInv PROVE NotificationTypeOK
  OBVIOUS
<1>t. /\ notification \in Seq(NotifDocs) /\ notifReq \in [Requests -> NotifReqs]
      /\ NotifKnown /\ notifNow \in 1 .. MaxMoment /\ MaxMoment \in Nat
  BY NotificationAssumption DEF NotifInv, NotifShape
<1>1. DOMAIN notification = 1 .. Len(notification) /\ Len(notification) \in Nat
  BY <1>t
<1>2. \A i \in DOMAIN notification :
          /\ notification[i] \in NotifDocs /\ notification[i].user \in notifUsers
          /\ notification[i].readAt <= notifNow
  BY <1>1, <1>t DEF NotifKnown
<1>3. \A i \in DOMAIN notification :
          /\ notification[i].origin \in Notices \cup {None}
          /\ notification[i].readAt \in Unread .. notifNow
  BY <1>2, <1>t DEF NotifDocs, Unread
<1>4. \A r \in Requests :
          /\ notifReq[r].id \in 0 .. Len(notification)
          /\ notifReq[r].loaded \in Unread .. notifNow
          /\ notifReq[r].isRead \in BOOLEAN /\ notifReq[r].alone \in BOOLEAN
  BY <1>1, <1>t DEF NotifKnown, NotifReqs, Unread
<1>5. \A r \in Requests : {notifReq[r].isRead, notifReq[r].alone} \subseteq BOOLEAN
  BY <1>4
<1> QED
  BY <1>2, <1>3, <1>4, <1>5 DEF NotificationTypeOK, NotifInv, NotifShape

(* A time of reading changes by an update that overlapped with another, or  *)
(* to unread.                                                               *)
LEMMA NotifReadStep ==
    ASSUME NotifInv, [NotificationNext]_notifVars, NEW i \in DOMAIN notification,
           notification[i].readAt # Unread,
           notification'[i].readAt # notification[i].readAt
    PROVE  \E r \in ReadingOf(i) : ~notifReq[r].alone \/ notification'[i].readAt = Unread
<1>t. notification \in Seq(NotifDocs) /\ NotifAlone
  BY DEF NotifInv, NotifShape
<1>i. i \in 1 .. Len(notification) /\ Len(notification) \in Nat
  BY <1>t
<1>1. ASSUME NEW r \in Requests, SetNotificationRead(r)
      PROVE  r \in ReadingOf(i) /\ (~notifReq[r].alone \/ notification'[i].readAt = Unread)
  <2> DEFINE q == notifReq[r]
  <2>1. q.id = i /\ notification'[i].readAt = NewRead(q.loaded, q.isRead)
    BY <1>1, <1>i, NotifWritten
  <2>2. q.alone => q.loaded = notification[i].readAt
    BY <1>i, <1>t, <2>1 DEF NotifAlone
  <2>3. q.alone => notification'[i].readAt = Unread
    BY <2>1, <2>2 DEF NewRead
  <2> QED
    BY <2>1, <2>3 DEF ReadingOf
<1>2. ~UNCHANGED notification
  OBVIOUS
<1>3. ASSUME NEW u, NEW origin, AddNotification(u, origin)
      PROVE  FALSE
  <2>1. notification' = Append(notification, [user |-> u, origin |-> origin, readAt |-> Unread])
    BY <1>3 DEF AddNotification
  <2>2. notification'[i] = notification[i]
    BY <1>i, <1>t, <2>1
  <2> QED
    BY <2>2
<1> QED
  BY <1>1, <1>2, <1>3 DEF NotificationNext, notifVars, NotifyTick, NotifUserCreated,
     CreateNotification, NotificationCreate, NoticeAgain, UpdateNotification,
     UpdateNotificationFails
-----------------------------------------------------------------------------
(* The accounts.  The events under way are about users and addresses there  *)
(* are, and an address that is shown is not announced as archived.          *)
AcctEventsKnown ==
    /\ \A s \in {"address", "order"}, u \in Users :
          UserCreated(s, u) \in acctInbox => u \in userRow
    /\ \A x \in Addresses :
          /\ address[x] = "absent" =>
                addrReq[x] = {} /\ AddressCreated(x) \notin acctInbox
          /\ address[x] # "archived" => /\ AddressArchived(x) \notin acctInbox
                                        /\ "archived" \notin addrReq[x]

(* Unless an event of it is missed, an address that is shown is listed or   *)
(* still to be announced, and one that is archived and listed is still to   *)
(* be announced as archived.                                                *)
AddressAnnounced(x) ==
    \/ "created" \in addrReq[x] \/ AddressCreated(x) \in acctInbox
    \/ listed[x] > 0

ArchiveAnnounced(x) ==
    \/ "archived" \in addrReq[x] \/ AddressArchived(x) \in acctInbox
    \/ listed[x] = 0

AddressesAnnounced ==
    \A x \in Addresses \ addrMissed :
        /\ address[x] = "active" => AddressAnnounced(x)
        /\ address[x] = "archived" => ArchiveAnnounced(x)

AcctInv == AccountsTypeOK /\ AcctEventsKnown /\ AddressesAnnounced

LEMMA AcctEventsDiffer ==
    /\ \A s \in {"address", "order"}, u \in Users, x \in Addresses :
          UserCreated(s, u) # AddressCreated(x) /\ UserCreated(s, u) # AddressArchived(x)
    /\ \A s \in {"address", "order"}, u \in Users : UserCreated(s, u) \in AcctEvents
    /\ \A s, t \in {"address", "order"}, u, w \in Users :
          UserCreated(s, u) = UserCreated(t, w) => s = t /\ u = w
    /\ \A x, y \in Addresses :
          /\ AddressCreated(x) # AddressArchived(y)
          /\ AddressCreated(x) = AddressCreated(y) => x = y
          /\ AddressArchived(x) = AddressArchived(y) => x = y
          /\ AddressCreated(x) \in AcctEvents /\ AddressArchived(x) \in AcctEvents
BY DEF UserCreated, AddressCreated, AddressArchived, AcctEvents

LEMMA AcctInitInv == AccountsInit => AcctInv
BY AccountsAssumption
   DEF AccountsInit, AcctInv, AccountsTypeOK, AcctEventsKnown, AddressesAnnounced,
       AddressAnnounced, ArchiveAnnounced

LEMMA AcctInvTypes == AcctInv => AccountsTypeOK /\ OrderListsAddresses
BY DEF AcctInv, AcctEventsKnown, AccountsTypeOK, AddressesAnnounced, AddressAnnounced,
       ArchiveAnnounced, OrderListsAddresses

(* A step of a user leaves the addresses and their events alone.            *)
LEMMA AcctUserStep ==
    ASSUME AcctInv, NEW u \in Users, HandleUser(u) \/ PublishUserCreatedFails(u)
    PROVE  AcctInv'
<1>1. /\ UNCHANGED <<address, addrReq, listed, addrMissed>>
      /\ \A x \in Addresses :
            /\ AddressCreated(x) \in acctInbox' <=> AddressCreated(x) \in acctInbox
            /\ AddressArchived(x) \in acctInbox' <=> AddressArchived(x) \in acctInbox
  BY AcctEventsDiffer
     DEF HandleUser, CreateUser, PublishUserCreated, RegisterUser, InsertUser,
         PublishUserCreatedFails, UserFrame, AddrFrame, OrderFrame
<1>2. AddressesAnnounced'
  BY <1>1 DEF AcctInv, AddressesAnnounced, AddressAnnounced, ArchiveAnnounced
<1>3. AccountsTypeOK' /\ AcctEventsKnown'
  <2> USE DEF AcctInv, AccountsTypeOK, AcctEventsKnown
  <2>1. CASE CreateUser(u)
    BY <2>1, <1>1 DEF CreateUser, UserFrame
  <2>2. CASE PublishUserCreated(u)
    <3>1. \A e \in acctInbox' : e \in acctInbox
             \/ e = UserCreated("address", u) \/ e = UserCreated("order", u)
      BY <2>2 DEF PublishUserCreated
    <3>2. acctInbox' \subseteq AcctEvents
      <4>1. /\ UserCreated("address", u) \in AcctEvents
            /\ UserCreated("order", u) \in AcctEvents /\ acctInbox \subseteq AcctEvents
        BY AcctEventsDiffer
      <4> QED
        BY <3>1, <4>1
    <3>3. ASSUME NEW s \in {"address", "order"}, NEW w \in Users,
                 UserCreated(s, w) \in acctInbox'
          PROVE  w \in userRow'
      BY <2>2, <3>1, <3>3, AcctEventsDiffer DEF PublishUserCreated
    <3> QED
      BY <2>2, <1>1, <3>2, <3>3 DEF PublishUserCreated, UserFrame
  <2>3. CASE RegisterUser(u)
    BY <2>3, <1>1 DEF RegisterUser, AddrFrame
  <2>4. CASE InsertUser(u)
    BY <2>4, <1>1 DEF InsertUser, OrderFrame
  <2>5. CASE PublishUserCreatedFails(u)
    BY <2>5, <1>1, AccountsAssumption DEF PublishUserCreatedFails, UserFrame, AcctFault
  <2> QED
    BY <2>1, <2>2, <2>3, <2>4, <2>5 DEF HandleUser
<1> QED
  BY <1>2, <1>3 DEF AcctInv

(* A step of one address.                                                   *)
LEMMA AcctAddressStep ==
    ASSUME AcctInv, NEW x \in Addresses,
           UNCHANGED <<createInbox, userRow, userJob, addrUsers, orderUser, userCut>>,
           address' \in [Addresses -> {"absent", "active", "archived"}],
           addrReq' \in [Addresses -> SUBSET {"created", "archived"}],
           listed' \in [Addresses -> Nat],
           addrMissed' \in {addrMissed, addrMissed \cup {x}},
           acctFaults' \in 0 .. MaxAcctFaults,
           acctInbox' \subseteq acctInbox \cup {AddressCreated(x), AddressArchived(x)},
           acctInbox \subseteq acctInbox' \cup {AddressCreated(x), AddressArchived(x)},
           \A y \in Addresses \ {x} : /\ address'[y] = address[y]
                                      /\ addrReq'[y] = addrReq[y]
                                      /\ listed'[y] = listed[y],
           address'[x] # "absent" => AddressOf[x] \in addrUsers,
           listed'[x] > 0 => AddressOf[x] \in orderUser /\ address'[x] # "absent",
           address'[x] = "absent" => addrReq'[x] = {} /\ AddressCreated(x) \notin acctInbox',
           address'[x] # "archived" => /\ AddressArchived(x) \notin acctInbox'
                                       /\ "archived" \notin addrReq'[x],
           x \notin addrMissed' =>
              /\ address'[x] = "active" => AddressAnnounced(x)'
              /\ address'[x] = "archived" => ArchiveAnnounced(x)'
    PROVE  AcctInv'
<1>1. /\ acctInbox' \subseteq AcctEvents
      /\ \A y \in Addresses \ {x} :
            /\ AddressCreated(y) \in acctInbox' <=> AddressCreated(y) \in acctInbox
            /\ AddressArchived(y) \in acctInbox' <=> AddressArchived(y) \in acctInbox
      /\ \A s \in {"address", "order"}, u \in Users :
            UserCreated(s, u) \in acctInbox' <=> UserCreated(s, u) \in acctInbox
  BY AcctEventsDiffer DEF AcctInv, AccountsTypeOK
<1>2. AccountsTypeOK'
  BY <1>1 DEF AcctInv, AccountsTypeOK
<1>3. AcctEventsKnown'
  BY <1>1 DEF AcctInv, AcctEventsKnown
<1>4. AddressesAnnounced'
  <2>1. SUFFICES ASSUME NEW y \in Addresses \ addrMissed'
                 PROVE  /\ address'[y] = "active" => AddressAnnounced(y)'
                        /\ address'[y] = "archived" => ArchiveAnnounced(y)'
    BY DEF AddressesAnnounced
  <2>2. CASE y = x
    BY <2>1, <2>2
  <2>3. CASE y # x
    BY <2>1, <2>3, <1>1 DEF AcctInv, AddressesAnnounced, AddressAnnounced, ArchiveAnnounced
  <2> QED
    BY <2>2, <2>3
<1> QED
  BY <1>2, <1>3, <1>4 DEF AcctInv

LEMMA AcctAddressSteps ==
    ASSUME AcctInv, NEW x \in Addresses,
           \/ CreateUserAddress(x) \/ ArchiveUserAddress(x)
           \/ \E e \in {"created", "archived"} :
                 PublishAddressEvent(x, e) \/ PublishAddressEventFails(x, e)
           \/ PushUserAddress(x) \/ PullUserAddress(x)
           \/ \E e \in {AddressCreated(x), AddressArchived(x)} : AddressEventAgain(x, e)
    PROVE  AcctInv'
<1>t. /\ address \in [Addresses -> {"absent", "active", "archived"}]
      /\ address[x] \in {"absent", "active", "archived"}
      /\ addrReq \in [Addresses -> SUBSET {"created", "archived"}]
      /\ addrReq[x] \subseteq {"created", "archived"}
      /\ listed \in [Addresses -> Nat] /\ listed[x] \in Nat
      /\ acctFaults \in 0 .. MaxAcctFaults /\ MaxAcctFaults \in Nat
      /\ address[x] # "absent" => AddressOf[x] \in addrUsers
      /\ listed[x] > 0 => AddressOf[x] \in orderUser /\ address[x] # "absent"
      /\ address[x] = "absent" => addrReq[x] = {} /\ AddressCreated(x) \notin acctInbox
      /\ address[x] # "archived" => /\ AddressArchived(x) \notin acctInbox
                                    /\ "archived" \notin addrReq[x]
      /\ x \notin addrMissed => /\ address[x] = "active" => AddressAnnounced(x)
                                /\ address[x] = "archived" => ArchiveAnnounced(x)
      /\ AddressCreated(x) # AddressArchived(x)
  BY AccountsAssumption, AcctEventsDiffer
     DEF AcctInv, AccountsTypeOK, AcctEventsKnown, AddressesAnnounced
<1>1. CASE CreateUserAddress(x)
  <2>1. /\ address' \in [Addresses -> {"absent", "active", "archived"}]
        /\ addrReq' \in [Addresses -> SUBSET {"created", "archived"}]
        /\ listed' \in [Addresses -> Nat]
        /\ \A y \in Addresses \ {x} : /\ address'[y] = address[y]
                                       /\ addrReq'[y] = addrReq[y]
                                       /\ listed'[y] = listed[y]
    BY <1>1, <1>t DEF CreateUserAddress, AddrFrame
  <2>2. /\ x \notin addrMissed' => /\ address'[x] = "active" => AddressAnnounced(x)'
                                   /\ address'[x] = "archived" => ArchiveAnnounced(x)'
        /\ listed'[x] > 0 => AddressOf[x] \in orderUser /\ address'[x] # "absent"
        /\ address'[x] = "absent" => addrReq'[x] = {} /\ AddressCreated(x) \notin acctInbox'
        /\ address'[x] # "archived" => /\ AddressArchived(x) \notin acctInbox'
                                       /\ "archived" \notin addrReq'[x]
    BY <1>1, <1>t DEF CreateUserAddress, AddrFrame, AddressAnnounced, ArchiveAnnounced
  <2>3. /\ UNCHANGED <<createInbox, userRow, userJob, addrUsers, orderUser, userCut>>
        /\ addrMissed' \in {addrMissed, addrMissed \cup {x}}
        /\ acctFaults' \in 0 .. MaxAcctFaults
        /\ address'[x] # "absent" => AddressOf[x] \in addrUsers
        /\ acctInbox' \subseteq acctInbox \cup {AddressCreated(x), AddressArchived(x)}
        /\ acctInbox \subseteq acctInbox' \cup {AddressCreated(x), AddressArchived(x)}
    BY <1>1, <1>t DEF CreateUserAddress, AddrFrame
  <2> QED
    BY <2>1, <2>2, <2>3, AcctAddressStep
<1>2. CASE ArchiveUserAddress(x)
  <2>1. /\ address' \in [Addresses -> {"absent", "active", "archived"}]
        /\ addrReq' \in [Addresses -> SUBSET {"created", "archived"}]
        /\ listed' \in [Addresses -> Nat]
        /\ \A y \in Addresses \ {x} : /\ address'[y] = address[y]
                                       /\ addrReq'[y] = addrReq[y]
                                       /\ listed'[y] = listed[y]
    BY <1>2, <1>t DEF ArchiveUserAddress, AddrFrame
  <2>2. /\ x \notin addrMissed' => /\ address'[x] = "active" => AddressAnnounced(x)'
                                   /\ address'[x] = "archived" => ArchiveAnnounced(x)'
        /\ listed'[x] > 0 => AddressOf[x] \in orderUser /\ address'[x] # "absent"
        /\ address'[x] = "absent" => addrReq'[x] = {} /\ AddressCreated(x) \notin acctInbox'
        /\ address'[x] # "archived" => /\ AddressArchived(x) \notin acctInbox'
                                       /\ "archived" \notin addrReq'[x]
    BY <1>2, <1>t DEF ArchiveUserAddress, AddrFrame, AddressAnnounced, ArchiveAnnounced
  <2>3. /\ UNCHANGED <<createInbox, userRow, userJob, addrUsers, orderUser, userCut>>
        /\ addrMissed' \in {addrMissed, addrMissed \cup {x}}
        /\ acctFaults' \in 0 .. MaxAcctFaults
        /\ address'[x] # "absent" => AddressOf[x] \in addrUsers
        /\ acctInbox' \subseteq acctInbox \cup {AddressCreated(x), AddressArchived(x)}
        /\ acctInbox \subseteq acctInbox' \cup {AddressCreated(x), AddressArchived(x)}
    BY <1>2, <1>t DEF ArchiveUserAddress, AddrFrame
  <2> QED
    BY <2>1, <2>2, <2>3, AcctAddressStep
<1>3. ASSUME NEW e \in {"created", "archived"}, PublishAddressEvent(x, e)
      PROVE  AcctInv'
  <2>1. /\ address' \in [Addresses -> {"absent", "active", "archived"}]
        /\ addrReq' \in [Addresses -> SUBSET {"created", "archived"}]
        /\ listed' \in [Addresses -> Nat]
        /\ \A y \in Addresses \ {x} : /\ address'[y] = address[y]
                                       /\ addrReq'[y] = addrReq[y]
                                       /\ listed'[y] = listed[y]
    BY <1>3, <1>t DEF PublishAddressEvent, AddrFrame
  <2>2. /\ x \notin addrMissed' => /\ address'[x] = "active" => AddressAnnounced(x)'
                                   /\ address'[x] = "archived" => ArchiveAnnounced(x)'
        /\ listed'[x] > 0 => AddressOf[x] \in orderUser /\ address'[x] # "absent"
        /\ address'[x] = "absent" => addrReq'[x] = {} /\ AddressCreated(x) \notin acctInbox'
        /\ address'[x] # "archived" => /\ AddressArchived(x) \notin acctInbox'
                                       /\ "archived" \notin addrReq'[x]
    BY <1>3, <1>t DEF PublishAddressEvent, AddrFrame, AddressAnnounced, ArchiveAnnounced
  <2>3. /\ UNCHANGED <<createInbox, userRow, userJob, addrUsers, orderUser, userCut>>
        /\ addrMissed' \in {addrMissed, addrMissed \cup {x}}
        /\ acctFaults' \in 0 .. MaxAcctFaults
        /\ address'[x] # "absent" => AddressOf[x] \in addrUsers
        /\ acctInbox' \subseteq acctInbox \cup {AddressCreated(x), AddressArchived(x)}
        /\ acctInbox \subseteq acctInbox' \cup {AddressCreated(x), AddressArchived(x)}
    BY <1>3, <1>t DEF PublishAddressEvent, AddrFrame
  <2> QED
    BY <2>1, <2>2, <2>3, AcctAddressStep
<1>4. ASSUME NEW e \in {"created", "archived"}, PublishAddressEventFails(x, e)
      PROVE  AcctInv'
  <2>1. /\ address' \in [Addresses -> {"absent", "active", "archived"}]
        /\ addrReq' \in [Addresses -> SUBSET {"created", "archived"}]
        /\ listed' \in [Addresses -> Nat]
        /\ \A y \in Addresses \ {x} : /\ address'[y] = address[y]
                                       /\ addrReq'[y] = addrReq[y]
                                       /\ listed'[y] = listed[y]
    BY <1>4, <1>t DEF PublishAddressEventFails, AddrFrame, AcctFault
  <2>2. /\ x \notin addrMissed' => /\ address'[x] = "active" => AddressAnnounced(x)'
                                   /\ address'[x] = "archived" => ArchiveAnnounced(x)'
        /\ listed'[x] > 0 => AddressOf[x] \in orderUser /\ address'[x] # "absent"
        /\ address'[x] = "absent" => addrReq'[x] = {} /\ AddressCreated(x) \notin acctInbox'
        /\ address'[x] # "archived" => /\ AddressArchived(x) \notin acctInbox'
                                       /\ "archived" \notin addrReq'[x]
    BY <1>4, <1>t DEF PublishAddressEventFails, AddrFrame, AcctFault, AddressAnnounced, ArchiveAnnounced
  <2>3. /\ UNCHANGED <<createInbox, userRow, userJob, addrUsers, orderUser, userCut>>
        /\ addrMissed' \in {addrMissed, addrMissed \cup {x}}
        /\ acctFaults' \in 0 .. MaxAcctFaults
        /\ address'[x] # "absent" => AddressOf[x] \in addrUsers
        /\ acctInbox' \subseteq acctInbox \cup {AddressCreated(x), AddressArchived(x)}
        /\ acctInbox \subseteq acctInbox' \cup {AddressCreated(x), AddressArchived(x)}
    BY <1>4, <1>t DEF PublishAddressEventFails, AddrFrame, AcctFault
  <2> QED
    BY <2>1, <2>2, <2>3, AcctAddressStep
<1>5. CASE PushUserAddress(x)
  <2>1. /\ address' \in [Addresses -> {"absent", "active", "archived"}]
        /\ addrReq' \in [Addresses -> SUBSET {"created", "archived"}]
        /\ listed' \in [Addresses -> Nat]
        /\ \A y \in Addresses \ {x} : /\ address'[y] = address[y]
                                       /\ addrReq'[y] = addrReq[y]
                                       /\ listed'[y] = listed[y]
    BY <1>5, <1>t DEF PushUserAddress, OrderFrame, Archived
  <2>2. /\ x \notin addrMissed' => /\ address'[x] = "active" => AddressAnnounced(x)'
                                   /\ address'[x] = "archived" => ArchiveAnnounced(x)'
        /\ listed'[x] > 0 => AddressOf[x] \in orderUser /\ address'[x] # "absent"
        /\ address'[x] = "absent" => addrReq'[x] = {} /\ AddressCreated(x) \notin acctInbox'
        /\ address'[x] # "archived" => /\ AddressArchived(x) \notin acctInbox'
                                       /\ "archived" \notin addrReq'[x]
    BY <1>5, <1>t DEF PushUserAddress, OrderFrame, Archived, AddressAnnounced, ArchiveAnnounced
  <2>3. /\ UNCHANGED <<createInbox, userRow, userJob, addrUsers, orderUser, userCut>>
        /\ addrMissed' \in {addrMissed, addrMissed \cup {x}}
        /\ acctFaults' \in 0 .. MaxAcctFaults
        /\ address'[x] # "absent" => AddressOf[x] \in addrUsers
        /\ acctInbox' \subseteq acctInbox \cup {AddressCreated(x), AddressArchived(x)}
        /\ acctInbox \subseteq acctInbox' \cup {AddressCreated(x), AddressArchived(x)}
    BY <1>5, <1>t DEF PushUserAddress, OrderFrame, Archived
  <2> QED
    BY <2>1, <2>2, <2>3, AcctAddressStep
<1>6. CASE PullUserAddress(x)
  <2>1. /\ address' \in [Addresses -> {"absent", "active", "archived"}]
        /\ addrReq' \in [Addresses -> SUBSET {"created", "archived"}]
        /\ listed' \in [Addresses -> Nat]
        /\ \A y \in Addresses \ {x} : /\ address'[y] = address[y]
                                       /\ addrReq'[y] = addrReq[y]
                                       /\ listed'[y] = listed[y]
    BY <1>6, <1>t DEF PullUserAddress, OrderFrame
  <2>2. /\ x \notin addrMissed' => /\ address'[x] = "active" => AddressAnnounced(x)'
                                   /\ address'[x] = "archived" => ArchiveAnnounced(x)'
        /\ listed'[x] > 0 => AddressOf[x] \in orderUser /\ address'[x] # "absent"
        /\ address'[x] = "absent" => addrReq'[x] = {} /\ AddressCreated(x) \notin acctInbox'
        /\ address'[x] # "archived" => /\ AddressArchived(x) \notin acctInbox'
                                       /\ "archived" \notin addrReq'[x]
    BY <1>6, <1>t DEF PullUserAddress, OrderFrame, AddressAnnounced, ArchiveAnnounced
  <2>3. /\ UNCHANGED <<createInbox, userRow, userJob, addrUsers, orderUser, userCut>>
        /\ addrMissed' \in {addrMissed, addrMissed \cup {x}}
        /\ acctFaults' \in 0 .. MaxAcctFaults
        /\ address'[x] # "absent" => AddressOf[x] \in addrUsers
        /\ acctInbox' \subseteq acctInbox \cup {AddressCreated(x), AddressArchived(x)}
        /\ acctInbox \subseteq acctInbox' \cup {AddressCreated(x), AddressArchived(x)}
    BY <1>6, <1>t DEF PullUserAddress, OrderFrame
  <2> QED
    BY <2>1, <2>2, <2>3, AcctAddressStep
<1>7. ASSUME NEW e \in {AddressCreated(x), AddressArchived(x)}, AddressEventAgain(x, e)
      PROVE  AcctInv'
  <2>1. /\ address' \in [Addresses -> {"absent", "active", "archived"}]
        /\ addrReq' \in [Addresses -> SUBSET {"created", "archived"}]
        /\ listed' \in [Addresses -> Nat]
        /\ \A y \in Addresses \ {x} : /\ address'[y] = address[y]
                                       /\ addrReq'[y] = addrReq[y]
                                       /\ listed'[y] = listed[y]
    BY <1>7, <1>t DEF AddressEventAgain, AcctFault, Archived
  <2>2. /\ x \notin addrMissed' => /\ address'[x] = "active" => AddressAnnounced(x)'
                                   /\ address'[x] = "archived" => ArchiveAnnounced(x)'
        /\ listed'[x] > 0 => AddressOf[x] \in orderUser /\ address'[x] # "absent"
        /\ address'[x] = "absent" => addrReq'[x] = {} /\ AddressCreated(x) \notin acctInbox'
        /\ address'[x] # "archived" => /\ AddressArchived(x) \notin acctInbox'
                                       /\ "archived" \notin addrReq'[x]
    BY <1>7, <1>t DEF AddressEventAgain, AcctFault, Archived, AddressAnnounced, ArchiveAnnounced
  <2>3. /\ UNCHANGED <<createInbox, userRow, userJob, addrUsers, orderUser, userCut>>
        /\ addrMissed' \in {addrMissed, addrMissed \cup {x}}
        /\ acctFaults' \in 0 .. MaxAcctFaults
        /\ address'[x] # "absent" => AddressOf[x] \in addrUsers
        /\ acctInbox' \subseteq acctInbox \cup {AddressCreated(x), AddressArchived(x)}
        /\ acctInbox \subseteq acctInbox' \cup {AddressCreated(x), AddressArchived(x)}
    BY <1>7, <1>t DEF AddressEventAgain, AcctFault, Archived
  <2> QED
    BY <2>1, <2>2, <2>3, AcctAddressStep
<1> QED
  BY <1>1, <1>2, <1>3, <1>4, <1>5, <1>6, <1>7

LEMMA AcctInvStep == AcctInv /\ [AccountsNext]_acctVars => AcctInv'
<1> SUFFICES ASSUME AcctInv, [AccountsNext]_acctVars PROVE AcctInv'
  OBVIOUS
<1>1. CASE UNCHANGED acctVars
  BY <1>1 DEF acctVars, AcctInv, AccountsTypeOK, AcctEventsKnown, AddressesAnnounced,
              AddressAnnounced, ArchiveAnnounced
<1>2. CASE AccountsNext
  BY <1>2, AcctUserStep, AcctAddressSteps DEF AccountsNext
<1> QED
  BY <1>1, <1>2
-----------------------------------------------------------------------------
(* The versions.                                                            *)
VersionRows == [entity : Entities, number : Nat \ {0}]
VerReqs == [pc : {"idle", "insert", "publish"}, entity : Entities \cup {None},
            number : Nat, events : Seq(VerEvents)]

VerShape ==
    /\ versionRow \in Seq(VersionRows) /\ Len(versionRow) <= MaxVersions
    /\ current \in [Entities -> VersionIds \cup {None}]
    /\ mirrorTax \subseteq TaxRates
    /\ verInbox \subseteq VerEvents
    /\ orderCurrent \in [Entities -> VersionIds \cup {None}]
    /\ orderJob \in [VersionIds -> {"none", "insert", "update"}]
    /\ verReq \in [Requests -> VerReqs]
    /\ verOverlap \cup verCrossed \cup verLost \subseteq Entities
    /\ verFaults \in 0 .. MaxVerFaults

(* A request publishes the version it committed, and numbers a version of   *)
(* an entity there is.                                                      *)
VerReqKnown(q) ==
    \/ q.pc = "idle" /\ q.events = <<>>
    \/ /\ q.pc = "insert" /\ q.events = <<>>
       /\ q.entity \in Entities /\ current[q.entity] # None
       /\ q.number \in 1 .. Len(versionRow) + 1
    \/ /\ q.pc = "publish"
       /\ \E n \in 1 .. Len(versionRow) :
             \/ q.events = <<VersionCreated(n)>>
             \/ \E t \in TaxRates : q.events = <<TaxRateCreated(t), VersionCreated(n)>>

(* What is delivered and handled are versions there are.                    *)
VerEventsKnown ==
    \A n \in VersionIds :
        VersionCreated(n) \in verInbox \/ orderJob[n] # "none" => n \in DOMAIN versionRow

Numbers(r, e) == verReq[r].pc = "insert" /\ verReq[r].entity = e

(* The numbers run with the rows.  Of an entity that was never numbered     *)
(* twice at once, at most one request has a number, which no row has.       *)
VerNumbers ==
    /\ \A n \in DOMAIN versionRow : versionRow[n].number <= n
    /\ NumbersAreUnique
    /\ \A e \in Entities \ verOverlap, r \in Requests : Numbers(r, e) =>
          /\ \A n \in VersionsOf(e) : versionRow[n].number < verReq[r].number
          /\ \A x \in Requests : Numbers(x, e) => x = r

(* The current version of an entity is its last one.                        *)
CurrentIsLast ==
    \A e \in Entities :
        /\ current[e] = None => VersionsOf(e) = {}
        /\ current[e] # None => /\ current[e] \in VersionsOf(e)
                                /\ \A n \in VersionsOf(e) : n <= current[e]
        /\ orderCurrent[e] # None => orderCurrent[e] \in VersionsOf(e)

(* Version n is on its way to the order service.                            *)
VerPending(n) == \E r \in Requests : VersionCreated(n) \in Range(verReq[r].events)
VerOnItsWay(n) == VerPending(n) \/ VersionCreated(n) \in verInbox \/ orderJob[n] # "none"

(* Unless events were lost or crossed, the current version is charged or on *)
(* its way, and the one that is being handled is alone and later than the   *)
(* one that is charged.                                                     *)
CurrentArrives ==
    \A e \in Entities \ (verCrossed \cup verLost) :
        current[e] # None => orderCurrent[e] = current[e] \/ VerOnItsWay(current[e])

HandledInTurn ==
    \A e \in Entities \ verCrossed : \A n \in VersionsOf(e) : orderJob[n] # "none" =>
        /\ orderCurrent[e] # None => orderCurrent[e] < n
        /\ \A m \in VersionsOf(e) : orderJob[m] # "none" => m = n

VerInv ==
    /\ VerShape /\ VerEventsKnown /\ VerNumbers /\ CurrentIsLast
    /\ CurrentArrives /\ HandledInTurn
    /\ \A r \in Requests : VerReqKnown(verReq[r])

(* A bounded set of numbers has a maximum.                                  *)
LEMMA BoundedMax ==
    ASSUME NEW L \in Nat, NEW S \in SUBSET (0 .. L), S # {}
    PROVE  Max(S) \in S /\ \A x \in S : x <= Max(S)
<1> DEFINE T == {L - x : x \in S}
<1>1. T \subseteq Nat /\ T # {}
  <2>1. \A x \in S : x \in Nat /\ x <= L /\ L - x \in Nat
    OBVIOUS
  <2> QED
    BY <2>1
<1>2. IsWellFoundedOn(OpToRel(<, Nat), Nat)
  BY NatLessThanWellFounded
<1> DEFINE R == OpToRel(<, Nat)
<1>3. \A y, x \in Nat : y < x => <<y, x>> \in R
  BY DEF OpToRel
<1> HIDE DEF R, T
<1>4. PICK m \in T : \A y \in T : ~(<<y, m>> \in R)
  BY <1>1, <1>2, WFMin DEF R
<1>5. PICK x \in S : m = L - x
  BY <1>4 DEF T
<1>6. \A y \in S : y <= x
  <2>1. SUFFICES ASSUME NEW y \in S, ~(y <= x) PROVE FALSE
    OBVIOUS
  <2>2. L - y \in T /\ L - y \in Nat /\ m \in Nat /\ L - y < m
    BY <2>1, <1>5 DEF T
  <2> QED
    BY <2>2, <1>3, <1>4
<1>7. \E z \in S : \A y \in S : z >= y
  BY <1>6
<1> QED
  BY <1>7 DEF Max

LEMMA VerEventFacts ==
    /\ \A n \in VersionIds : VersionCreated(n) \in VerEvents
    /\ \A t \in TaxRates : TaxRateCreated(t) \in VerEvents
    /\ \A n \in VersionIds, t \in TaxRates : VersionCreated(n) # TaxRateCreated(t)
    /\ \A n, m \in VersionIds : VersionCreated(n) = VersionCreated(m) => n = m
BY DEF VersionCreated, TaxRateCreated, VerEvents

LEMMA VerIdleFacts ==
    /\ VerIdle \in VerReqs /\ VerIdle.pc = "idle" /\ VerIdle.events = <<>>
    /\ \A events \in Seq(VerEvents) :
          /\ Publishing(events) \in VerReqs
          /\ Publishing(events).pc = "publish" /\ Publishing(events).events = events
    /\ Range(<<>>) = {}
<1>1. <<>> \in Seq(VerEvents)
  OBVIOUS
<1>2. VerIdle \in VerReqs /\ VerIdle.pc = "idle" /\ VerIdle.events = <<>>
  BY <1>1 DEF VerIdle, VerReqs
<1>3. ASSUME NEW events \in Seq(VerEvents)
      PROVE  /\ Publishing(events) \in VerReqs
             /\ Publishing(events).pc = "publish" /\ Publishing(events).events = events
  BY DEF VerIdle, VerReqs, Publishing
<1>4. Range(<<>>) = {}
  BY DEF Range
<1> QED
  BY <1>2, <1>3, <1>4

LEMMA VerRangeOne ==
    ASSUME NEW x \in VerEvents
    PROVE  /\ <<x>> \in Seq(VerEvents) /\ Len(<<x>>) = 1 /\ Head(<<x>>) = x
           /\ Range(<<x>>) = {x}
BY DEF Range

LEMMA VerRangeTwo ==
    ASSUME NEW x \in VerEvents, NEW y \in VerEvents
    PROVE  /\ <<x, y>> \in Seq(VerEvents) /\ Len(<<x, y>>) = 2 /\ Head(<<x, y>>) = x
           /\ Tail(<<x, y>>) = <<y>> /\ Range(<<x, y>>) = {x, y}
BY DEF Range

LEMMA VerInvTypes == VerInv => VersionsTypeOK /\ NumbersAreUnique /\ OrderChargesCurrent
<1> SUFFICES ASSUME VerInv PROVE VersionsTypeOK /\ NumbersAreUnique /\ OrderChargesCurrent
  OBVIOUS
<1>1. ASSUME NEW n \in DOMAIN versionRow
      PROVE  /\ n <= MaxVersions
             /\ versionRow[n].entity \in Entities /\ versionRow[n].number \in Nat \ {0}
  <2>1. versionRow[n] \in VersionRows /\ n <= Len(versionRow)
    BY DEF VerInv, VerShape
  <2> QED
    BY <2>1, VersionsAssumption DEF VersionRows, VerInv, VerShape
<1>2. ASSUME NEW r \in Requests
      PROVE  /\ verReq[r].pc \in {"idle", "insert", "publish"}
             /\ verReq[r].number \in Nat /\ Range(verReq[r].events) \subseteq VerEvents
  <2>1. verReq[r] \in VerReqs
    BY DEF VerInv, VerShape
  <2>2. verReq[r].events \in Seq(VerEvents)
    BY <2>1 DEF VerReqs
  <2> QED
    BY <2>1, <2>2 DEF VerReqs, Range
<1>3. VersionsTypeOK
  BY <1>1, <1>2 DEF VerInv, VerShape, VersionsTypeOK, CurrentIsLast
<1>4. OrderChargesCurrent
  <2>1. SUFFICES ASSUME NEW e \in Entities, Settled(e), e \notin verCrossed \cup verLost
                 PROVE  orderCurrent[e] = current[e]
    BY DEF OrderChargesCurrent
  <2>2. CASE current[e] = None
    BY <2>2 DEF VerInv, CurrentIsLast
  <2>3. CASE current[e] # None
    BY <2>1, <2>3 DEF VerInv, CurrentIsLast, CurrentArrives, VerOnItsWay, VerPending, Settled
  <2> QED
    BY <2>2, <2>3
<1> QED
  BY <1>3, <1>4 DEF VerInv, VerNumbers

LEMMA VerInitInv == VersionsInit => VerInv
<1> SUFFICES ASSUME VersionsInit PROVE VerInv
  OBVIOUS
<1>1. /\ versionRow \in Seq(VersionRows) /\ Len(versionRow) = 0 /\ DOMAIN versionRow = {}
  BY DEF VersionsInit
<1>2. \A r \in Requests : verReq[r] = VerIdle
  BY DEF VersionsInit
<1>3. VerShape
  BY <1>1, VerIdleFacts, VersionsAssumption DEF VersionsInit, VerShape
<1>4. \A e : VersionsOf(e) = {}
  BY <1>1 DEF VersionsOf
<1>5. /\ VerEventsKnown /\ VerNumbers /\ CurrentIsLast /\ CurrentArrives /\ HandledInTurn
  BY <1>1, <1>2, <1>4, VerIdleFacts
     DEF VersionsInit, VerEventsKnown, VerNumbers, CurrentIsLast, CurrentArrives,
         HandledInTurn, NumbersAreUnique, Numbers
<1>6. \A r \in Requests : VerReqKnown(verReq[r])
  BY <1>2, VerIdleFacts DEF VerReqKnown
<1> QED
  BY <1>3, <1>5, <1>6 DEF VerInv

(* The commit adds one row, the last.                                       *)
LEMMA VerCommitRows ==
    ASSUME VerInv, NEW e \in Entities, NEW k \in 1 .. Len(versionRow) + 1, Commit(e, k)
    PROVE  /\ NewId \in VersionIds /\ NewId = Len(versionRow) + 1 /\ NewId \in Nat
           /\ versionRow' \in Seq(VersionRows) /\ Len(versionRow') = NewId
           /\ DOMAIN versionRow = 1 .. Len(versionRow)
           /\ DOMAIN versionRow' = DOMAIN versionRow \cup {NewId}
           /\ NewId \notin DOMAIN versionRow
           /\ \A n \in DOMAIN versionRow : n < NewId /\ versionRow'[n] = versionRow[n]
           /\ versionRow'[NewId].entity = e /\ versionRow'[NewId].number = k
           /\ \A f \in Entities :
                 VersionsOf(f)' = VersionsOf(f) \cup (IF f = e THEN {NewId} ELSE {})
           /\ current' = [current EXCEPT ![e] = NewId]
<1>1. /\ versionRow \in Seq(VersionRows) /\ Len(versionRow) \in Nat
      /\ [entity |-> e, number |-> k] \in VersionRows
  BY DEF VerInv, VerShape, VersionRows
<1>2. /\ NewId \in VersionIds /\ NewId = Len(versionRow) + 1
      /\ versionRow' = Append(versionRow, [entity |-> e, number |-> k])
      /\ current' = [current EXCEPT ![e] = NewId]
  BY DEF Commit, NewId
<1>3. /\ versionRow' \in Seq(VersionRows) /\ Len(versionRow') = Len(versionRow) + 1
      /\ \A n \in 1 .. Len(versionRow) : versionRow'[n] = versionRow[n]
      /\ versionRow'[Len(versionRow) + 1] = [entity |-> e, number |-> k]
      /\ DOMAIN versionRow = 1 .. Len(versionRow)
      /\ DOMAIN versionRow' = 1 .. Len(versionRow) + 1
  BY <1>1, <1>2
<1>4. /\ versionRow'[NewId].entity = e /\ versionRow'[NewId].number = k
      /\ DOMAIN versionRow' = DOMAIN versionRow \cup {NewId}
      /\ NewId \notin DOMAIN versionRow /\ NewId \in Nat
      /\ \A n \in DOMAIN versionRow : n < NewId /\ versionRow'[n] = versionRow[n]
  BY <1>1, <1>2, <1>3
<1>5. \A f \in Entities :
         VersionsOf(f)' = VersionsOf(f) \cup (IF f = e THEN {NewId} ELSE {})
  BY <1>4 DEF VersionsOf
<1> QED
  BY <1>2, <1>3, <1>4, <1>5

(* A request that commits a version of e: it is the only one to number e,   *)
(* unless e was numbered twice at once, and its number is new.              *)
LEMMA VerCommitStep ==
    ASSUME VerInv, NEW r \in Requests, NEW e \in Entities,
           NEW k \in 1 .. Len(versionRow) + 1, Commit(e, k),
           NEW events, verReq' = [verReq EXCEPT ![r] = Publishing(events)],
           \/ events = <<VersionCreated(NewId)>>
           \/ \E t \in TaxRates : events = <<TaxRateCreated(t), VersionCreated(NewId)>>,
           verReq[r].events = <<>>,
           e \notin verOverlap =>
              /\ \A n \in VersionsOf(e) : versionRow[n].number # k
              /\ \A x \in Requests \ {r} : ~Numbers(x, e),
           UNCHANGED <<verOverlap, verCrossed, verLost>>, VerFrame
    PROVE  VerInv'
<1>n. PICK N : N = NewId
  OBVIOUS
<1>1. /\ N \in VersionIds /\ N = Len(versionRow) + 1 /\ N \in Nat
      /\ versionRow' \in Seq(VersionRows) /\ Len(versionRow') = N
      /\ DOMAIN versionRow = 1 .. Len(versionRow)
      /\ DOMAIN versionRow' = DOMAIN versionRow \cup {N}
      /\ N \notin DOMAIN versionRow
      /\ \A n \in DOMAIN versionRow : n < N /\ versionRow'[n] = versionRow[n]
      /\ versionRow'[N].entity = e /\ versionRow'[N].number = k
      /\ \A f \in Entities :
            VersionsOf(f)' = VersionsOf(f) \cup (IF f = e THEN {N} ELSE {})
      /\ current' = [current EXCEPT ![e] = N]
  BY <1>n, VerCommitRows
<1>t. /\ VerShape /\ Len(versionRow) \in Nat /\ N <= MaxVersions
      /\ \A f \in Entities : VersionsOf(f) \subseteq DOMAIN versionRow
      /\ VersionIds \subseteq Nat /\ None \notin Nat
  BY <1>1, VersionsAssumption DEF VerInv, VerShape, VersionsOf, VersionIds
<1>2. events \in Seq(VerEvents) /\ VersionCreated(N) \in Range(events)
  <2>0. VersionCreated(N) \in VerEvents
    BY <1>1, VerEventFacts
  <2>1. CASE events = <<VersionCreated(NewId)>>
    BY <2>0, <2>1, <1>n, VerRangeOne
  <2>2. ASSUME NEW t \in TaxRates, events = <<TaxRateCreated(t), VersionCreated(NewId)>>
        PROVE  events \in Seq(VerEvents) /\ VersionCreated(N) \in Range(events)
    <3>1. TaxRateCreated(t) \in VerEvents
      BY VerEventFacts
    <3> QED
      BY <2>0, <2>2, <3>1, <1>n, VerRangeTwo
  <2> QED
    BY <2>1, <2>2
<1>3. /\ verReq' \in [Requests -> VerReqs]
      /\ verReq'[r].pc = "publish" /\ verReq'[r].events = events
      /\ \A x \in Requests \ {r} : verReq'[x] = verReq[x]
  BY <1>2, <1>t, VerIdleFacts DEF VerShape
<1>u. UNCHANGED <<mirrorTax, verInbox, orderCurrent, orderJob, verFaults>>
  BY DEF VerFrame
<1>4. VerShape'
  BY <1>1, <1>3, <1>t, <1>u DEF VerShape
<1>5. VerEventsKnown'
  BY <1>1, <1>u DEF VerInv, VerEventsKnown
<1>6. ASSUME NEW x \in Requests PROVE VerReqKnown(verReq[x])'
  <2>1. CASE x = r
    <3>1. N \in 1 .. Len(versionRow')
      BY <1>1
    <3> QED
      BY <2>1, <3>1, <1>3, <1>n DEF VerReqKnown
  <2>2. CASE x # r
    <3>1. VerReqKnown(verReq[x]) /\ verReq'[x] = verReq[x]
      BY <2>2, <1>3 DEF VerInv
    <3>2. verReq[x].entity \in Entities /\ current[verReq[x].entity] # None
             => current'[verReq[x].entity] # None
      BY <1>1, <1>t DEF VerShape
    <3> QED
      BY <3>1, <3>2, <1>1, <1>t DEF VerReqKnown
  <2> QED
    BY <2>1, <2>2
<1>7. VerNumbers'
  <2>1. \A n \in DOMAIN versionRow' : versionRow'[n].number <= n
    BY <1>1, <1>t DEF VerInv, VerNumbers
  <2>2. NumbersAreUnique'
    <3>1. SUFFICES ASSUME NEW n \in DOMAIN versionRow', NEW m \in DOMAIN versionRow', n # m,
                          versionRow'[n].entity = versionRow'[m].entity,
                          versionRow'[n].number = versionRow'[m].number
                   PROVE  versionRow'[n].entity \in verOverlap
      BY DEF NumbersAreUnique
    <3>2. CASE n # N /\ m # N
      BY <3>1, <3>2, <1>1 DEF VerInv, VerNumbers, NumbersAreUnique
    <3>3. CASE n = N
      BY <3>1, <3>3, <1>1 DEF VersionsOf
    <3>4. CASE m = N
      BY <3>1, <3>4, <1>1 DEF VersionsOf
    <3> QED
      BY <3>2, <3>3, <3>4
  <2>3. ASSUME NEW f \in Entities \ verOverlap, NEW x \in Requests, Numbers(x, f)'
        PROVE  /\ \A n \in VersionsOf(f)' : versionRow'[n].number < verReq'[x].number
               /\ \A y \in Requests : Numbers(y, f)' => y = x
    <3>1. x # r /\ verReq'[x] = verReq[x] /\ Numbers(x, f)
      BY <2>3, <1>3 DEF Numbers
    <3>2. f # e
      BY <3>1
    <3>3. VersionsOf(f)' = VersionsOf(f)
      <4>1. VersionsOf(f)' = VersionsOf(f) \cup (IF f = e THEN {N} ELSE {})
        BY <1>1
      <4> QED
        BY <4>1, <3>2
    <3>4. \A y \in Requests : Numbers(y, f)' => Numbers(y, f)
      BY <1>3 DEF Numbers
    <3> QED
      BY <3>1, <3>3, <3>4, <1>1, <1>t DEF VerInv, VerNumbers
  <2> QED
    BY <2>1, <2>2, <2>3 DEF VerNumbers
<1>8. CurrentIsLast'
  <2>1. SUFFICES ASSUME NEW f \in Entities
                 PROVE  /\ current'[f] = None => VersionsOf(f)' = {}
                        /\ current'[f] # None => /\ current'[f] \in VersionsOf(f)'
                                                 /\ \A n \in VersionsOf(f)' : n <= current'[f]
                        /\ orderCurrent'[f] # None => orderCurrent'[f] \in VersionsOf(f)'
    BY DEF CurrentIsLast
  <2>2. CASE f = e
    BY <2>2, <1>1, <1>t, <1>u DEF VerInv, VerShape, CurrentIsLast
  <2>3. CASE f # e
    BY <2>3, <1>1, <1>t, <1>u DEF VerInv, VerShape, CurrentIsLast
  <2> QED
    BY <2>2, <2>3
<1>9. CurrentArrives'
  <2>1. \A n : VerOnItsWay(n) => VerOnItsWay(n)'
    BY <1>3, <1>u, VerIdleFacts DEF VerOnItsWay, VerPending
  <2>2. VerOnItsWay(N)'
    BY <1>2, <1>3 DEF VerOnItsWay, VerPending
  <2>3. \A f \in Entities : current'[f] = IF f = e THEN N ELSE current[f]
    BY <1>1, <1>t DEF VerShape
  <2> QED
    BY <2>1, <2>2, <2>3, <1>u DEF VerInv, CurrentArrives
<1>10. HandledInTurn'
  <2>1. orderJob[N] = "none"
    BY <1>1 DEF VerInv, VerEventsKnown
  <2>2. \A f \in Entities : \A n \in VersionsOf(f)' :
           orderJob[n] # "none" => n \in VersionsOf(f)
    BY <2>1, <1>1
  <2> QED
    BY <2>2, <1>u DEF VerInv, HandledInTurn
<1> QED
  BY <1>4, <1>5, <1>6, <1>7, <1>8, <1>9, <1>10 DEF VerInv

LEMMA VerCommits ==
    ASSUME VerInv, NEW r \in Requests,
           \/ \E t \in TaxRates : CreateTaxRate(r, t)
           \/ \E v \in PricedVariants : CreateVariant(r, v)
           \/ InsertVersion(r)
    PROVE  VerInv'
<1>t. /\ TaxRates \subseteq Entities /\ PricedVariants \subseteq Entities
      /\ Len(versionRow) \in Nat /\ 1 \in 1 .. Len(versionRow) + 1
  BY DEF Entities, VerInv, VerShape
<1>1. \A e \in Entities : current[e] = None =>
         /\ VersionsOf(e) = {}
         /\ \A x \in Requests : ~Numbers(x, e)
  BY DEF VerInv, CurrentIsLast, VerReqKnown, Numbers
<1>2. verReq[r].pc \in {"idle", "insert"} => verReq[r].events = <<>>
  BY DEF VerInv, VerReqKnown
<1>3. ASSUME NEW t \in TaxRates, CreateTaxRate(r, t) PROVE VerInv'
  <2>1. t \in Entities /\ current[t] = None
    BY <1>3, <1>t DEF CreateTaxRate
  <2>2. /\ VersionsOf(t) = {} /\ \A x \in Requests : ~Numbers(x, t)
    BY <2>1, <1>1
  <2> QED
    BY <1>3, <1>t, <2>1, <2>2, <1>2, VerCommitStep DEF CreateTaxRate, VerGoto, verHistory
<1>4. ASSUME NEW v \in PricedVariants, CreateVariant(r, v) PROVE VerInv'
  <2>1. v \in Entities /\ current[v] = None
    BY <1>4, <1>t DEF CreateVariant
  <2>2. /\ VersionsOf(v) = {} /\ \A x \in Requests : ~Numbers(x, v)
    BY <2>1, <1>1
  <2> QED
    BY <1>4, <1>t, <2>1, <2>2, <1>2, VerCommitStep DEF CreateVariant, VerGoto, verHistory
<1>5. CASE InsertVersion(r)
  <2>1. PICK e, k : e = verReq[r].entity /\ k = verReq[r].number
    OBVIOUS
  <2>2. /\ e \in Entities /\ k \in 1 .. Len(versionRow) + 1 /\ Numbers(r, e)
        /\ Commit(e, k) /\ verReq[r].events = <<>>
        /\ verReq' = [verReq EXCEPT ![r] = Publishing(<<VersionCreated(NewId)>>)]
        /\ UNCHANGED <<verOverlap, verCrossed, verLost>> /\ VerFrame
    BY <1>5, <2>1, <1>2 DEF InsertVersion, VerGoto, verHistory, VerInv, VerReqKnown, Numbers
  <2>3. e \notin verOverlap =>
              /\ \A n \in VersionsOf(e) : versionRow[n].number < k
              /\ \A x \in Requests \ {r} : ~Numbers(x, e)
    BY <2>1, <2>2 DEF VerInv, VerNumbers
  <2>4. \A n \in VersionsOf(e) : versionRow[n].number \in Nat
    <3>1. \A n \in DOMAIN versionRow : versionRow[n] \in VersionRows
      BY DEF VerInv, VerShape
    <3> QED
      BY <3>1 DEF VersionsOf, VersionRows
  <2> QED
    <3>1. PICK events : events = <<VersionCreated(NewId)>>
      OBVIOUS
    <3>2. e \notin verOverlap =>
              /\ \A n \in VersionsOf(e) : versionRow[n].number # k
              /\ \A x \in Requests \ {r} : ~Numbers(x, e)
      BY <2>2, <2>3, <2>4
    <3> QED
      BY <2>2, <3>1, <3>2, VerCommitStep
<1> QED
  BY <1>3, <1>4, <1>5

LEMMA NextNumberIsNew ==
    ASSUME VerInv, NEW e \in Entities
    PROVE  /\ NextNumber(e) \in 1 .. Len(versionRow) + 1
           /\ \A n \in VersionsOf(e) : versionRow[n].number < NextNumber(e)
<1>1. Len(versionRow) \in Nat /\ DOMAIN versionRow = 1 .. Len(versionRow)
  BY DEF VerInv, VerShape
<1>2. \A n \in VersionsOf(e) : versionRow[n].number \in 0 .. Len(versionRow)
  <2>1. \A n \in DOMAIN versionRow : versionRow[n] \in VersionRows
    BY DEF VerInv, VerShape
  <2>2. \A n \in DOMAIN versionRow : versionRow[n].number \in Nat
    BY <2>1 DEF VersionRows
  <2> QED
    BY <2>2, <1>1 DEF VersionsOf, VerInv, VerNumbers
<1> DEFINE S == {0} \cup NumbersOf(e)
<1>3. S \in SUBSET (0 .. Len(versionRow)) /\ S # {}
  BY <1>1, <1>2 DEF NumbersOf
<1>4. \A n \in VersionsOf(e) : versionRow[n].number \in S
  BY DEF NumbersOf
<1>5. NextNumber(e) = 1 + Max(S)
  BY DEF NextNumber
<1> HIDE DEF S
<1>6. Max(S) \in S /\ \A x \in S : x <= Max(S)
  BY <1>1, <1>3, BoundedMax
<1>7. Max(S) \in 0 .. Len(versionRow)
  BY <1>3, <1>6
<1> QED
  BY <1>1, <1>2, <1>4, <1>5, <1>6, <1>7

LEMMA VerNumberStep ==
    ASSUME VerInv, NEW r \in Requests, NEW e \in Entities, NumberVersion(r, e)
    PROVE  VerInv'
<1> DEFINE q == [VerIdle EXCEPT !.pc = "insert", !.entity = e, !.number = NextNumber(e)]
<1>0. /\ NextNumber(e) \in 1 .. Len(versionRow) + 1
      /\ \A n \in VersionsOf(e) : versionRow[n].number < NextNumber(e)
      /\ Len(versionRow) \in Nat
  BY NextNumberIsNew DEF VerInv, VerShape
<1>1. /\ q \in VerReqs /\ q.pc = "insert" /\ q.entity = e /\ q.number = NextNumber(e)
      /\ q.events = <<>>
  <2>1. NextNumber(e) \in Nat /\ VerIdle \in VerReqs /\ VerIdle.events = <<>>
    BY <1>0, VerIdleFacts
  <2>2. PICK k : k = NextNumber(e)
    OBVIOUS
  <2> QED
    BY <2>1, <2>2 DEF VerReqs
<1>2. PICK new : new = q
  OBVIOUS
<1>3. /\ verReq' = [verReq EXCEPT ![r] = new]
      /\ UNCHANGED <<versionRow, current, verCrossed, verLost, mirrorTax, verInbox,
                     orderCurrent, orderJob, verFaults>>
      /\ verReq[r].pc = "idle" /\ current[e] # None
      /\ verOverlap' = IF \E x \in Requests : Numbers(x, e) THEN verOverlap \cup {e}
                       ELSE verOverlap
  BY <1>2 DEF NumberVersion, VerGoto, VerFrame, verOwners, Numbers
<1>4. /\ new \in VerReqs /\ new.pc = "insert" /\ new.entity = e /\ new.events = <<>>
      /\ new.number = NextNumber(e)
  BY <1>1, <1>2
<1> HIDE DEF q
<1>5. /\ verReq' \in [Requests -> VerReqs] /\ verReq'[r] = new
      /\ \A x \in Requests \ {r} : verReq'[x] = verReq[x]
      /\ verReq[r].events = <<>>
  BY <1>3, <1>4 DEF VerInv, VerShape, VerReqKnown
<1>6. VerShape'
  BY <1>3, <1>5 DEF VerInv, VerShape
<1>7. \A x \in Requests : VerReqKnown(verReq[x])'
  BY <1>0, <1>3, <1>4, <1>5 DEF VerInv, VerReqKnown
<1>8. VerNumbers'
  <2>1. NumbersAreUnique' /\ \A n \in DOMAIN versionRow' : versionRow'[n].number <= n
    BY <1>3 DEF VerInv, VerNumbers, NumbersAreUnique
  <2>2. ASSUME NEW f \in Entities \ verOverlap', NEW x \in Requests, Numbers(x, f)'
        PROVE  /\ \A n \in VersionsOf(f)' : versionRow'[n].number < verReq'[x].number
               /\ \A y \in Requests : Numbers(y, f)' => y = x
    <3>1. f \notin verOverlap /\ VersionsOf(f)' = VersionsOf(f)
      BY <1>3 DEF VersionsOf
    <3>2. \A y \in Requests \ {r} : Numbers(y, f)' <=> Numbers(y, f)
      BY <1>5 DEF Numbers
    <3>3. Numbers(r, f)' <=> f = e
      BY <1>4, <1>5 DEF Numbers
    <3>4. CASE f = e
      <4>1. \A y \in Requests : ~Numbers(y, e)
        BY <1>3, <3>4
      <4>2. x = r
        BY <2>2, <3>2, <3>4, <4>1
      <4> QED
        BY <1>0, <1>3, <1>4, <1>5, <3>1, <3>2, <3>4, <4>1, <4>2
    <3>5. CASE f # e
      BY <2>2, <3>1, <3>2, <3>3, <3>5, <1>3, <1>5 DEF VerInv, VerNumbers
    <3> QED
      BY <3>4, <3>5
  <2> QED
    BY <2>1, <2>2 DEF VerNumbers
<1>9. \A n : VerOnItsWay(n) => VerOnItsWay(n)'
  BY <1>3, <1>4, <1>5 DEF VerOnItsWay, VerPending
<1>10. VerEventsKnown' /\ CurrentIsLast' /\ HandledInTurn'
  BY <1>3 DEF VerInv, VerEventsKnown, CurrentIsLast, HandledInTurn, VersionsOf
<1>11. CurrentArrives'
  BY <1>3, <1>9 DEF VerInv, CurrentArrives
<1> QED
  BY <1>6, <1>7, <1>8, <1>10, <1>11 DEF VerInv

(* A request that stops or goes on publishing: an event leaves it for the   *)
(* broker, or its entity is among those that lost an event.                 *)
LEMMA VerQueueStep ==
    ASSUME VerInv, NEW r \in Requests, NEW q \in VerReqs,
           verReq' = [verReq EXCEPT ![r] = q], VerReqKnown(q), q.pc # "insert",
           UNCHANGED <<versionRow, current, mirrorTax, orderCurrent, orderJob,
                       verOverlap, verCrossed>>,
           verInbox \subseteq verInbox', verInbox' \subseteq VerEvents,
           \A n \in VersionIds : VersionCreated(n) \in verInbox' => n \in DOMAIN versionRow,
           verLost \subseteq verLost', verLost' \subseteq Entities,
           verFaults' \in 0 .. MaxVerFaults,
           \A e \in Entities \ verLost' : \A n \in VersionsOf(e) :
              VersionCreated(n) \in Range(verReq[r].events) =>
                 VersionCreated(n) \in Range(q.events) \cup verInbox'
    PROVE  VerInv'
<1>1. /\ verReq' \in [Requests -> VerReqs] /\ verReq'[r] = q
      /\ \A x \in Requests \ {r} : verReq'[x] = verReq[x]
  BY DEF VerInv, VerShape
<1>2. VerShape'
  BY <1>1 DEF VerInv, VerShape
<1>3. \A x \in Requests : VerReqKnown(verReq[x])'
  BY <1>1 DEF VerInv, VerReqKnown
<1>4. VerNumbers'
  <2>1. NumbersAreUnique' /\ \A n \in DOMAIN versionRow' : versionRow'[n].number <= n
    BY DEF VerInv, VerNumbers, NumbersAreUnique
  <2>2. \A x \in Requests : \A f : Numbers(x, f)' =>
           Numbers(x, f) /\ x # r /\ verReq'[x] = verReq[x]
    BY <1>1 DEF Numbers
  <2>3. \A f : VersionsOf(f)' = VersionsOf(f)
    BY DEF VersionsOf
  <2> QED
    BY <2>1, <2>2, <2>3 DEF VerInv, VerNumbers
<1>5. VerEventsKnown' /\ CurrentIsLast' /\ HandledInTurn'
  BY DEF VerInv, VerEventsKnown, CurrentIsLast, HandledInTurn, VersionsOf
<1>6. CurrentArrives'
  <2>1. SUFFICES ASSUME NEW e \in Entities \ (verCrossed \cup verLost'), current[e] # None
                 PROVE  orderCurrent[e] = current[e] \/ VerOnItsWay(current[e])'
    BY DEF CurrentArrives
  <2>2. PICK n : n = current[e]
    OBVIOUS
  <2>3. n \in VersionsOf(e) /\ (orderCurrent[e] = n \/ VerOnItsWay(n))
    BY <2>1, <2>2 DEF VerInv, CurrentIsLast, CurrentArrives
  <2>4. VerOnItsWay(n) => VerOnItsWay(n)'
    BY <1>1, <2>1, <2>3 DEF VerOnItsWay, VerPending
  <2> QED
    BY <2>2, <2>3, <2>4
<1> QED
  BY <1>2, <1>3, <1>4, <1>5, <1>6 DEF VerInv

(* The head of a request's events, and what is left of it then.             *)
LEMMA VerPublishes ==
    ASSUME VerInv, NEW r \in Requests, verReq[r].pc = "publish",
           NEW q, q = IF Len(verReq[r].events) = 1 THEN VerIdle
                      ELSE [verReq[r] EXCEPT !.events = Tail(@)]
    PROVE  /\ q \in VerReqs /\ VerReqKnown(q) /\ q.pc # "insert"
           /\ Range(verReq[r].events) = {Head(verReq[r].events)} \cup Range(q.events)
           /\ Range(verReq[r].events) \subseteq VerEvents
           /\ \A n \in VersionIds : VersionCreated(n) \in Range(verReq[r].events) =>
                 n \in DOMAIN versionRow
<1>1. PICK n \in 1 .. Len(versionRow) :
             \/ verReq[r].events = <<VersionCreated(n)>>
             \/ \E t \in TaxRates : verReq[r].events = <<TaxRateCreated(t), VersionCreated(n)>>
  BY DEF VerInv, VerReqKnown
<1>2. /\ verReq[r] \in VerReqs /\ DOMAIN versionRow = 1 .. Len(versionRow)
      /\ n \in VersionIds /\ VersionCreated(n) \in VerEvents
  <2>1. n \in VersionIds
    BY VersionsAssumption DEF VerInv, VerShape, VersionIds
  <2> QED
    BY <2>1, VerEventFacts DEF VerInv, VerShape
<1>3. CASE verReq[r].events = <<VersionCreated(n)>>
  <2>1. /\ Len(verReq[r].events) = 1 /\ Range(verReq[r].events) = {VersionCreated(n)}
        /\ Head(verReq[r].events) = VersionCreated(n)
    BY <1>2, <1>3, VerRangeOne
  <2>2. q = VerIdle
    BY <2>1
  <2> QED
    BY <1>2, <2>1, <2>2, VerIdleFacts, VerEventFacts DEF VerReqKnown
<1>4. ASSUME NEW t \in TaxRates, verReq[r].events = <<TaxRateCreated(t), VersionCreated(n)>>
      PROVE  /\ q \in VerReqs /\ VerReqKnown(q) /\ q.pc # "insert"
             /\ Range(verReq[r].events) = {Head(verReq[r].events)} \cup Range(q.events)
             /\ Range(verReq[r].events) \subseteq VerEvents
             /\ \A m \in VersionIds : VersionCreated(m) \in Range(verReq[r].events) =>
                   m \in DOMAIN versionRow
  <2>0. TaxRateCreated(t) \in VerEvents
    BY VerEventFacts
  <2>1. /\ Len(verReq[r].events) = 2 /\ Tail(verReq[r].events) = <<VersionCreated(n)>>
        /\ Range(verReq[r].events) = {TaxRateCreated(t), VersionCreated(n)}
        /\ Head(verReq[r].events) = TaxRateCreated(t)
    BY <2>0, <1>2, <1>4, VerRangeTwo
  <2>2. q = [verReq[r] EXCEPT !.events = <<VersionCreated(n)>>]
    <3>1. Len(verReq[r].events) # 1
      BY <2>1
    <3>2. q = [verReq[r] EXCEPT !.events = Tail(verReq[r].events)]
      BY <3>1
    <3> QED
      BY <3>2, <2>1
  <2>3. /\ <<VersionCreated(n)>> \in Seq(VerEvents)
        /\ Range(<<VersionCreated(n)>>) = {VersionCreated(n)}
    BY <1>2, VerRangeOne
  <2>4. q \in VerReqs /\ q.pc = "publish" /\ q.events = <<VersionCreated(n)>>
    BY <2>2, <2>3, <1>2 DEF VerReqs
  <2>5. VerReqKnown(q)
    BY <2>4 DEF VerReqKnown
  <2> QED
    BY <2>0, <2>1, <2>3, <2>4, <2>5, <1>2, VerEventFacts
<1> QED
  BY <1>1, <1>3, <1>4

LEMMA VerQueueSteps ==
    ASSUME VerInv, NEW r \in Requests,
           PublishNext(r) \/ PublishNextFails(r) \/ VerRequestFails(r)
    PROVE  VerInv'
<1>t. /\ verInbox \subseteq VerEvents /\ verLost \subseteq Entities
      /\ \A n \in VersionIds : VersionCreated(n) \in verInbox => n \in DOMAIN versionRow
      /\ verFaults \in 0 .. MaxVerFaults /\ MaxVerFaults \in Nat
      /\ VerIdle \in VerReqs /\ VerReqKnown(VerIdle) /\ VerIdle.pc = "idle"
      /\ Range(VerIdle.events) = {}
      /\ \A e \in Entities : VersionsOf(e) \subseteq VersionIds
  <2>1. \A e \in Entities : VersionsOf(e) \subseteq VersionIds
    BY VersionsAssumption DEF VerInv, VerShape, VersionsOf, VersionIds
  <2> QED
    BY <2>1, VerIdleFacts, VersionsAssumption
       DEF VerInv, VerShape, VerEventsKnown, VerReqKnown
<1>1. CASE PublishNext(r)
  <2>1. PICK q : q = IF Len(verReq[r].events) = 1 THEN VerIdle
                     ELSE [verReq[r] EXCEPT !.events = Tail(@)]
    OBVIOUS
  <2>2. /\ verReq[r].pc = "publish" /\ verReq' = [verReq EXCEPT ![r] = q]
        /\ verInbox' = verInbox \cup {Head(verReq[r].events)}
        /\ UNCHANGED <<versionRow, current, mirrorTax, orderCurrent, orderJob,
                       verOverlap, verCrossed, verLost, verFaults>>
    BY <1>1, <2>1 DEF PublishNext, VerGoto, verOwners, verHistory
  <2>3. /\ q \in VerReqs /\ VerReqKnown(q) /\ q.pc # "insert"
        /\ Range(verReq[r].events) = {Head(verReq[r].events)} \cup Range(q.events)
        /\ Range(verReq[r].events) \subseteq VerEvents
        /\ \A n \in VersionIds : VersionCreated(n) \in Range(verReq[r].events) =>
              n \in DOMAIN versionRow
    BY <2>1, <2>2, VerPublishes
  <2>4. /\ verInbox \subseteq verInbox' /\ verInbox' \subseteq VerEvents
        /\ \A n \in VersionIds : VersionCreated(n) \in verInbox' => n \in DOMAIN versionRow
        /\ \A x \in Range(verReq[r].events) : x \in Range(q.events) \cup verInbox'
    BY <2>2, <2>3, <1>t
  <2> QED
    BY <2>2, <2>3, <2>4, <1>t, VerQueueStep
<1>2. CASE PublishNextFails(r)
  <2>1. /\ verReq' = [verReq EXCEPT ![r] = VerIdle]
        /\ verLost' = verLost \cup
              {e \in Entities : \E n \in VersionsOf(e) :
                                   VersionCreated(n) \in Range(verReq[r].events)}
        /\ verFaults' \in 0 .. MaxVerFaults
        /\ UNCHANGED <<versionRow, current, mirrorTax, verInbox, orderCurrent, orderJob,
                       verOverlap, verCrossed>>
    BY <1>2, <1>t DEF PublishNextFails, VerGoto, verOwners
  <2>2. /\ verLost \subseteq verLost' /\ verLost' \subseteq Entities
        /\ \A e \in Entities \ verLost' : \A n \in VersionsOf(e) :
              VersionCreated(n) \notin Range(verReq[r].events)
    BY <2>1, <1>t
  <2> QED
    BY <2>1, <2>2, <1>t, VerQueueStep
<1>3. CASE VerRequestFails(r)
  <2>1. /\ verReq' = [verReq EXCEPT ![r] = VerIdle] /\ verReq[r].events = <<>>
        /\ UNCHANGED <<versionRow, current, mirrorTax, verInbox, orderCurrent, orderJob,
                       verOverlap, verCrossed, verLost, verFaults>>
    BY <1>3 DEF VerRequestFails, VerGoto, verOwners, verHistory, VerFrame, VerInv, VerReqKnown
  <2> QED
    BY <2>1, <1>t, VerIdleFacts, VerQueueStep
<1> QED
  BY <1>1, <1>2, <1>3

(* The handling of version n of entity e, which leaves job behind and c as  *)
(* the version that is charged.                                             *)
HandlesVersion(n, e, job, c) ==
    /\ UNCHANGED <<versionRow, current, mirrorTax, verReq, verOverlap, verLost>>
    /\ verInbox' \in {verInbox \cup {VersionCreated(n)}, verInbox \ {VersionCreated(n)},
                      verInbox}
    /\ verCrossed' \in {verCrossed, verCrossed \cup {e}}
    /\ verFaults' \in 0 .. MaxVerFaults
    /\ orderJob' = [orderJob EXCEPT ![n] = job]
    /\ orderCurrent' = [orderCurrent EXCEPT ![e] = c]
    /\ e \notin verCrossed' =>
          /\ c = n \/ VersionCreated(n) \in verInbox' \/ job # "none"
          /\ c = n /\ orderCurrent[e] # None => orderCurrent[e] <= n
          /\ job # "none" /\ c # None => c < n
          /\ \A m \in VersionsOf(e) : orderJob[m] # "none" =>
                m = n \/ (job = "none" /\ c = orderCurrent[e])

LEMMA VerHandleStep ==
    ASSUME VerInv, NEW n \in DOMAIN versionRow, NEW e \in Entities,
           e = versionRow[n].entity,
           NEW job \in {"none", "insert", "update"}, NEW c \in {orderCurrent[e], n},
           HandlesVersion(n, e, job, c)
    PROVE  VerInv'
<1> USE DEF HandlesVersion
<1>t. /\ VerShape /\ VersionIds \subseteq Nat /\ None \notin Nat
      /\ DOMAIN versionRow = 1 .. Len(versionRow) /\ n \in VersionIds /\ n \in VersionsOf(e)
      /\ VersionCreated(n) \in VerEvents
      /\ \A f \in Entities : VersionsOf(f) \subseteq VersionIds
      /\ \A f \in Entities : n \in VersionsOf(f) => f = e
  <2>1. VersionIds \subseteq Nat /\ DOMAIN versionRow \subseteq VersionIds
    BY VersionsAssumption DEF VerInv, VerShape, VersionIds
  <2> QED
    BY <2>1, VerEventFacts, VersionsAssumption DEF VerInv, VerShape, VersionsOf
<1>1. /\ \A m \in VersionIds : orderJob'[m] = IF m = n THEN job ELSE orderJob[m]
      /\ \A f \in Entities : orderCurrent'[f] = IF f = e THEN c ELSE orderCurrent[f]
      /\ \A m \in VersionIds \ {n} :
            VersionCreated(m) \in verInbox' <=> VersionCreated(m) \in verInbox
  BY <1>t, VerEventFacts DEF VerShape
<1>2. c \in VersionIds \cup {None} /\ (c # None => c \in VersionsOf(e))
  BY <1>t DEF VerInv, VerShape, CurrentIsLast
<1>3. VerShape'
  BY <1>t, <1>2 DEF VerShape
<1>4. VerEventsKnown' /\ \A x \in Requests : VerReqKnown(verReq[x])'
  BY <1>1 DEF VerInv, VerEventsKnown, VerReqKnown
<1>5. VerNumbers'
  BY DEF VerInv, VerNumbers, NumbersAreUnique, Numbers, VersionsOf
<1>6. \A f : VersionsOf(f)' = VersionsOf(f)
  BY DEF VersionsOf
<1>7. CurrentIsLast'
  BY <1>1, <1>2, <1>6 DEF VerInv, CurrentIsLast
<1>8. CurrentArrives'
  <2>1. SUFFICES ASSUME NEW f \in Entities \ (verCrossed' \cup verLost), current[f] # None
                 PROVE  orderCurrent'[f] = current[f] \/ VerOnItsWay(current[f])'
    BY DEF CurrentArrives
  <2>2. PICK l : l = current[f]
    OBVIOUS
  <2>3. /\ l \in VersionsOf(f) /\ l \in VersionIds /\ \A m \in VersionsOf(f) : m <= l
        /\ orderCurrent[f] = l \/ VerOnItsWay(l)
    BY <2>1, <2>2, <1>t DEF VerInv, CurrentIsLast, CurrentArrives
  <2>4. l # n /\ VerOnItsWay(l) => VerOnItsWay(l)'
    BY <1>1, <2>3 DEF VerOnItsWay, VerPending
  <2>5. CASE f # e
    BY <2>2, <2>3, <2>4, <2>5, <1>1, <1>t
  <2>6. CASE f = e /\ l = n
    BY <2>1, <2>2, <2>3, <2>6, <1>1 DEF VerOnItsWay
  <2>7. CASE f = e /\ l # n
    <3>1. n \in VersionsOf(f) /\ n < l
      BY <2>3, <2>7, <1>t
    <3>2. orderCurrent[f] = l => c = l
      BY <2>1, <2>3, <2>7, <3>1, <1>t
    <3> QED
      BY <2>2, <2>3, <2>4, <2>7, <3>2, <1>1
  <2> QED
    BY <2>5, <2>6, <2>7
<1>9. HandledInTurn'
  <2>1. SUFFICES ASSUME NEW f \in Entities \ verCrossed', NEW m \in VersionsOf(f),
                        orderJob'[m] # "none"
                 PROVE  /\ orderCurrent'[f] # None => orderCurrent'[f] < m
                        /\ \A l \in VersionsOf(f) : orderJob'[l] # "none" => l = m
    BY <1>6 DEF HandledInTurn
  <2>2. CASE f # e
    BY <2>1, <2>2, <1>1, <1>t DEF VerInv, HandledInTurn
  <2>3. CASE f = e /\ m = n
    BY <2>1, <2>3, <1>1, <1>t
  <2>4. CASE f = e /\ m # n
    BY <2>1, <2>4, <1>1, <1>t DEF VerInv, HandledInTurn
  <2> QED
    BY <2>2, <2>3, <2>4
<1> QED
  BY <1>3, <1>4, <1>5, <1>7, <1>8, <1>9 DEF VerInv

LEMMA VerHandles ==
    ASSUME VerInv, NEW n \in VersionIds, VerHandle(n) \/ VersionAgain(n)
    PROVE  VerInv'
<1>1. n \in DOMAIN versionRow
  BY DEF VerHandle, VersionAgain, InsertProductVariant, UpdateProductVariantVersion, VerInv,
         VerEventsKnown
<1>2. PICK e \in Entities : e = versionRow[n].entity
  <2>1. versionRow[n] \in VersionRows
    BY <1>1 DEF VerInv, VerShape
  <2> QED
    BY <2>1 DEF VersionRows
<1>t. /\ orderJob \in [VersionIds -> {"none", "insert", "update"}]
      /\ orderJob = [orderJob EXCEPT ![n] = orderJob[n]] /\ orderJob[n] \in {"none", "insert", "update"}
      /\ orderCurrent = [orderCurrent EXCEPT ![e] = orderCurrent[e]]
      /\ orderCurrent[e] \in VersionIds \cup {None} /\ VersionIds \subseteq Nat
      /\ None \notin Nat
      /\ verFaults \in 0 .. MaxVerFaults /\ MaxVerFaults \in Nat
      /\ n \in VersionsOf(e) /\ n \in Nat
  BY <1>1, <1>2, VersionsAssumption DEF VerInv, VerShape, VersionsOf, VersionIds
<1>h. e \notin verCrossed /\ orderJob[n] # "none" =>
         /\ orderCurrent[e] # None => orderCurrent[e] < n
         /\ \A m \in VersionsOf(e) : orderJob[m] # "none" => m = n
  BY <1>t DEF VerInv, HandledInTurn
<1>x. CrossedBy(n) =
         IF \/ orderCurrent[e] # None /\ orderCurrent[e] >= n
            \/ \E m \in VersionsOf(e) : orderJob[m] # "none"
         THEN verCrossed \cup {e} ELSE verCrossed
  BY <1>2 DEF CrossedBy
<1>3. CASE OnTaxRateVersionCreated(n)
  <2>1. /\ verInbox' = verInbox \ {VersionCreated(n)}
        /\ orderCurrent' = [orderCurrent EXCEPT ![e] = n]
        /\ orderJob' = [orderJob EXCEPT ![n] = orderJob[n]]
        /\ verCrossed' = CrossedBy(n)
        /\ UNCHANGED <<versionRow, current, mirrorTax, verReq, verOverlap, verLost, verFaults>>
    BY <1>3, <1>2, <1>t DEF OnTaxRateVersionCreated, verOwners
  <2>2. e \notin verCrossed' => /\ orderCurrent[e] # None => orderCurrent[e] < n
                                /\ \A m \in VersionsOf(e) : orderJob[m] = "none"
    BY <2>1, <1>x, <1>t
  <2> QED
    <3>1. HandlesVersion(n, e, orderJob[n], n)
      BY <2>1, <2>2, <1>t, <1>x DEF HandlesVersion
    <3> QED
      BY <3>1, <1>1, <1>2, <1>t, VerHandleStep
<1>4. CASE OnProductVariantVersionCreated(n)
  <2>1. PICK job \in {"insert", "update"} : orderJob' = [orderJob EXCEPT ![n] = job]
    BY <1>4 DEF OnProductVariantVersionCreated
  <2>2. /\ verInbox' = verInbox \ {VersionCreated(n)}
        /\ orderCurrent' = [orderCurrent EXCEPT ![e] = orderCurrent[e]]
        /\ verCrossed' = CrossedBy(n)
        /\ UNCHANGED <<versionRow, current, mirrorTax, verReq, verOverlap, verLost, verFaults>>
    BY <1>4, <1>2, <1>t DEF OnProductVariantVersionCreated, verOwners
  <2>3. e \notin verCrossed' => /\ orderCurrent[e] # None => orderCurrent[e] < n
                                /\ \A m \in VersionsOf(e) : orderJob[m] = "none"
    BY <2>2, <1>x, <1>t
  <2> QED
    <3>1. HandlesVersion(n, e, job, orderCurrent[e])
      BY <2>1, <2>2, <2>3, <1>t, <1>x DEF HandlesVersion
    <3> QED
      BY <3>1, <1>1, <1>2, <1>t, VerHandleStep
<1>5. CASE InsertProductVariant(n)
  <2>1. /\ orderJob' = [orderJob EXCEPT ![n] = "none"] /\ orderJob[n] # "none"
        /\ UNCHANGED <<versionRow, current, mirrorTax, verReq, verOverlap, verCrossed, verLost,
                       verFaults>>
        /\ \/ /\ orderCurrent[e] = None /\ UNCHANGED verInbox
              /\ orderCurrent' = [orderCurrent EXCEPT ![e] = n]
           \/ /\ verInbox' = verInbox \cup {VersionCreated(n)}
              /\ orderCurrent' = [orderCurrent EXCEPT ![e] = orderCurrent[e]]
    BY <1>5, <1>2, <1>t DEF InsertProductVariant, verOwners, verHistory
  <2> QED
    <3>1. \/ HandlesVersion(n, e, "none", n)
          \/ HandlesVersion(n, e, "none", orderCurrent[e])
      BY <2>1, <1>t, <1>h DEF HandlesVersion
    <3> QED
      BY <3>1, <1>1, <1>2, <1>t, VerHandleStep
<1>6. CASE UpdateProductVariantVersion(n)
  <2>1. /\ orderJob' = [orderJob EXCEPT ![n] = "none"] /\ orderJob[n] # "none"
        /\ orderCurrent' = [orderCurrent EXCEPT ![e] = n]
        /\ UNCHANGED <<versionRow, current, mirrorTax, verReq, verInbox, verOverlap,
                       verCrossed, verLost, verFaults>>
    BY <1>6, <1>2 DEF UpdateProductVariantVersion, verOwners, verHistory
  <2> QED
    <3>1. HandlesVersion(n, e, "none", n)
      BY <2>1, <1>t, <1>h DEF HandlesVersion
    <3> QED
      BY <3>1, <1>1, <1>2, <1>t, VerHandleStep
<1>7. CASE VersionAgain(n)
  <2>1. /\ orderJob' = [orderJob EXCEPT ![n] = "none"]
        /\ verInbox' = verInbox \cup {VersionCreated(n)}
        /\ orderCurrent' = [orderCurrent EXCEPT ![e] = orderCurrent[e]]
        /\ verFaults' \in 0 .. MaxVerFaults
        /\ UNCHANGED <<versionRow, current, mirrorTax, verReq, verOverlap, verCrossed, verLost>>
    BY <1>7, <1>2, <1>t DEF VersionAgain, verOwners, verHistory
  <2> QED
    <3>1. HandlesVersion(n, e, "none", orderCurrent[e])
      BY <2>1, <1>t DEF HandlesVersion
    <3> QED
      BY <3>1, <1>1, <1>2, <1>t, VerHandleStep
<1> QED
  BY <1>3, <1>4, <1>5, <1>6, <1>7 DEF VerHandle

LEMMA VerRegisters ==
    ASSUME VerInv, NEW t \in TaxRates, RegisterTaxRate(t)
    PROVE  VerInv'
<1>1. /\ verInbox' = verInbox \ {TaxRateCreated(t)} /\ mirrorTax' = mirrorTax \cup {t}
      /\ UNCHANGED <<versionRow, current, orderCurrent, orderJob, verReq, verOverlap,
                     verCrossed, verLost, verFaults>>
  BY DEF RegisterTaxRate, verOwners, verHistory
<1>2. \A n \in VersionIds : VersionCreated(n) \in verInbox' <=> VersionCreated(n) \in verInbox
  BY <1>1, VerEventFacts
<1>3. VerShape' /\ VerEventsKnown' /\ \A r \in Requests : VerReqKnown(verReq[r])'
  BY <1>1, <1>2 DEF VerInv, VerShape, VerEventsKnown, VerReqKnown
<1>4. VerNumbers' /\ CurrentIsLast' /\ HandledInTurn'
  BY <1>1 DEF VerInv, VerNumbers, NumbersAreUnique, Numbers, VersionsOf, CurrentIsLast,
              HandledInTurn
<1>5. CurrentArrives'
  <2>1. \A e \in Entities : current[e] # None => current[e] \in VersionIds
    BY DEF VerInv, VerShape
  <2>2. \A n \in VersionIds : VerOnItsWay(n) => VerOnItsWay(n)'
    BY <1>1, <1>2 DEF VerOnItsWay, VerPending
  <2> QED
    BY <1>1, <2>1, <2>2 DEF VerInv, CurrentArrives
<1> QED
  BY <1>3, <1>4, <1>5 DEF VerInv

LEMMA VerInvStep == VerInv /\ [VersionsNext]_verVars => VerInv'
<1> SUFFICES ASSUME VerInv, [VersionsNext]_verVars PROVE VerInv'
  OBVIOUS
<1>1. CASE UNCHANGED verVars
  BY <1>1 DEF verVars, VerInv, VerShape, VerEventsKnown, VerNumbers, NumbersAreUnique, Numbers,
              VersionsOf, CurrentIsLast, CurrentArrives, VerOnItsWay, VerPending,
              HandledInTurn, VerReqKnown
<1>2. ASSUME NEW r \in Requests, VerRequest(r) PROVE VerInv'
  BY <1>2, VerCommits, VerNumberStep, VerQueueSteps DEF VerRequest
<1> QED
  BY <1>1, <1>2, VerRegisters, VerHandles DEF VersionsNext
-----------------------------------------------------------------------------
(* The returns.                                                             *)
ReturnRows == [order : RetOrders, items : SUBSET RetItems, day : Nat]

RetShape ==
    /\ retOrders \subseteq RetOrders
    /\ retItem \in [RetItems -> ItemRows \cup {None}]
    /\ retParcel \in [Parcels -> ParcelRows \cup {None}]
    /\ returnDays \in VersionTables
    /\ returned \in Seq(ReturnRows)
    /\ retAnnounced \subseteq DOMAIN returned
    /\ retInbox \subseteq RetEvents
    /\ retJob \in [RetEvents -> Seq(RetItems)]
    /\ retReq = [r \in Requests |-> retReq[r]]
    /\ retDay \in 0 .. MaxDay
    /\ retCut \subseteq RetEvents /\ retShared \subseteq RetItems
    /\ retFaults \in 0 .. MaxRetFaults

(* A handler is about to upsert items of its order, which has a row, or of  *)
(* its shipment, which has one.                                             *)
RetJobsKnown ==
    /\ \A o \in RetOrders :
          /\ retJob[OrderCreated(o)] \in Seq(ToSet(RetItemsOf[o]))
          /\ retJob[OrderCreated(o)] # <<>> => o \in retOrders
    /\ \A s \in Parcels :
          /\ retJob[ShipmentCreated(s)] \in Seq(ToSet(ParcelItems[s]))
          /\ retJob[ShipmentCreated(s)] # <<>> => retParcel[s] # None
          /\ retJob[ShipmentDelivered(s)] = <<>>

RetRowsKnown ==
    /\ \A i \in RetItems : Row(i) =>
          /\ OrderOf(i) \in retOrders
          /\ retItem[i].sentWith # None => retParcel[retItem[i].sentWith] # None
          /\ retItem[i].returnedWith <= Len(returned)
    /\ \A s \in Parcels : retParcel[s] # None /\ retParcel[s].deliveredAt # None =>
          retParcel[s].deliveredAt <= retDay

(* The items of a return are linked to one.                                 *)
RetLinked ==
    \A n \in DOMAIN returned :
        /\ returned[n].items \subseteq ToSet(RetItemsOf[returned[n].order])
        /\ \A i \in returned[n].items :
              i \in RetItems /\ Row(i) /\ retItem[i].returnedWith # 0

(* A transaction has items, and they have rows; one of them was returned since it  *)
(* was loaded only if another transaction had loaded it too.  What is about *)
(* to be written has been validated.                                        *)
RetOpen(q) == q.pc \in {"validate", "write"}

RetReqKnown(q) ==
    /\ q.pc \in {"idle", "validate", "write", "publish"}
    /\ q.items \subseteq RetItems /\ DOMAIN q.with \subseteq q.items
    /\ q.day \in 0 .. retDay
    /\ RetOpen(q) => q.items # {}
    /\ RetOpen(q) => \A i \in q.items :
          /\ Row(i) /\ retItem[i].sentWith # None
          /\ retItem[i].returnedWith # 0 => i \in retShared
    /\ q.pc = "write" => \A i \in q.items :
          /\ i \in DOMAIN returnDays
          /\ returnDays[i] # None => returnDays[i] > 0

RetReqsKnown ==
    /\ \A r \in Requests : RetReqKnown(retReq[r])
    /\ \A r, x \in Requests : r # x =>
          retReq[r].items \cap retReq[x].items \subseteq retShared

RetInv ==
    /\ RetShape /\ RetJobsKnown /\ RetRowsKnown /\ RetLinked /\ RetReqsKnown
    /\ ReturnedOnce

LEMMA RetEventsDiffer ==
    /\ \A o \in RetOrders : OrderCreated(o) \in RetEvents
    /\ \A s \in Parcels : ShipmentCreated(s) \in RetEvents /\ ShipmentDelivered(s) \in RetEvents
    /\ \A o \in RetOrders, s \in Parcels :
          OrderCreated(o) # ShipmentCreated(s) /\ OrderCreated(o) # ShipmentDelivered(s)
    /\ \A s, t \in Parcels : /\ ShipmentCreated(s) # ShipmentDelivered(t)
                             /\ ShipmentCreated(s) = ShipmentCreated(t) => s = t
                             /\ ShipmentDelivered(s) = ShipmentDelivered(t) => s = t
    /\ \A o, p \in RetOrders : OrderCreated(o) = OrderCreated(p) => o = p
    /\ \A e \in RetEvents :
          \/ \E o \in RetOrders : e = OrderCreated(o)
          \/ \E s \in Parcels : e = ShipmentCreated(s) \/ e = ShipmentDelivered(s)
BY DEF OrderCreated, ShipmentCreated, ShipmentDelivered, RetEvents

(* An item belongs to one order.                                            *)
LEMMA ItemsOrder ==
    /\ \A o \in RetOrders : \A i \in ToSet(RetItemsOf[o]) : i \in RetItems /\ OrderOf(i) = o
    /\ \A i \in RetItems : OrderOf(i) \in RetOrders /\ i \in ToSet(RetItemsOf[OrderOf(i)])
    /\ \A s \in Parcels : \A i \in ToSet(ParcelItems[s]) :
          i \in RetItems /\ OrderOf(i) = ParcelOrder[s]
<1>1. \A i \in RetItems : \E o \in RetOrders : i \in ToSet(RetItemsOf[o])
  BY DEF RetItems
<1>2. \A i \in RetItems : OrderOf(i) \in RetOrders /\ i \in ToSet(RetItemsOf[OrderOf(i)])
  BY <1>1 DEF OrderOf
<1>3. ASSUME NEW o \in RetOrders, NEW i \in ToSet(RetItemsOf[o])
      PROVE  i \in RetItems /\ OrderOf(i) = o
  <2>1. i \in RetItems
    BY DEF RetItems
  <2> QED
    BY <2>1, <1>2, ReturnAssumption
<1>4. \A s \in Parcels : ParcelOrder[s] \in RetOrders
         /\ ToSet(ParcelItems[s]) \subseteq ToSet(RetItemsOf[ParcelOrder[s]])
  BY ReturnAssumption
<1> QED
  BY <1>2, <1>3, <1>4

LEMMA SeqOfItsElements ==
    ASSUME NEW S, NEW q \in Seq(S)
    PROVE  q \in Seq(ToSet(q)) /\ ToSet(q) \subseteq S
<1>1. q \in [1 .. Len(q) -> S] /\ Len(q) \in Nat /\ DOMAIN q = 1 .. Len(q)
  OBVIOUS
<1>2. ToSet(q) \subseteq S /\ \A n \in 1 .. Len(q) : q[n] \in ToSet(q)
  BY <1>1 DEF ToSet
<1>3. q \in [1 .. Len(q) -> ToSet(q)]
  BY <1>1, <1>2
<1> QED
  BY <1>1, <1>2, <1>3

LEMMA RetIdleKnown ==
    ASSUME MaxDay \in Nat, retDay \in 0 .. MaxDay
    PROVE  RetReqKnown(RetIdle) /\ RetIdle.items = {} /\ RetIdle.pc = "idle"
BY DEF RetReqKnown, RetIdle, RetOpen

LEMMA RetInvTypes == RetInv => ReturnTypeOK /\ ReturnedOnce
<1> SUFFICES ASSUME RetInv PROVE ReturnTypeOK
  BY DEF RetInv
<1>1. ASSUME NEW i \in RetItems, Row(i)
      PROVE  /\ OrderOf(i) \in retOrders
             /\ retItem[i].priced \in BOOLEAN
             /\ retItem[i].sentWith = None \/ retParcel[retItem[i].sentWith] # None
             /\ retItem[i].returnedWith \in 0 .. Len(returned)
  <2>1. retItem[i] \in ItemRows /\ Len(returned) \in Nat
    BY <1>1 DEF RetInv, RetShape, Row
  <2> QED
    BY <2>1, <1>1 DEF ItemRows, RetInv, RetRowsKnown
<1>2. ASSUME NEW s \in Parcels, retParcel[s] # None
      PROVE  retParcel[s].deliveredAt \in (0 .. retDay) \cup {None}
  <2>1. retParcel[s] \in ParcelRows /\ retDay \in Nat
    BY <1>2, ReturnAssumption DEF RetInv, RetShape
  <2> QED
    BY <2>1, <1>2 DEF ParcelRows, RetInv, RetRowsKnown
<1> QED
  BY <1>1, <1>2 DEF RetInv, RetShape, RetLinked, RetReqsKnown, RetReqKnown, ReturnTypeOK

LEMMA RetInitInv == ReturnInit => RetInv
<1> SUFFICES ASSUME ReturnInit PROVE RetInv
  OBVIOUS
<1>t. MaxDay \in Nat /\ MaxRetFaults \in Nat /\ retDay \in 0 .. MaxDay
  BY ReturnAssumption DEF ReturnInit
<1>1. returned = <<>> /\ DOMAIN returned = {} /\ Len(returned) = 0 /\ <<>> \in Seq(RetItems)
      /\ returned \in Seq(ReturnRows)
  BY DEF ReturnInit
<1>2. RetShape
  BY <1>t, <1>1 DEF ReturnInit, RetShape
<1>3. RetJobsKnown
  <2>1. \A e \in RetEvents : retJob[e] = <<>>
    BY DEF ReturnInit
  <2>2. \A S : <<>> \in Seq(S)
    OBVIOUS
  <2> QED
    BY <2>1, <2>2, RetEventsDiffer DEF RetJobsKnown
<1>4. RetRowsKnown /\ RetLinked /\ ReturnedOnce
  BY <1>1 DEF ReturnInit, RetRowsKnown, RetLinked, ReturnedOnce, Row
<1>5. RetReqsKnown
  BY <1>t, RetIdleKnown DEF ReturnInit, RetReqsKnown
<1> QED
  BY <1>2, <1>3, <1>4, <1>5 DEF RetInv

(* The rows of the items stay, keep their return and are not taken from     *)
(* their shipment.                                                          *)
RetRowsStay ==
    \A i \in RetItems : Row(i) =>
        /\ Row(i)'
        /\ retItem[i].sentWith # None => retItem'[i].sentWith # None
        /\ retItem'[i].returnedWith = retItem[i].returnedWith

(* A step of a handler, or of the clock, leaves the returns and the         *)
(* transactions as they are.                                                *)
LEMMA RetQuiet ==
    ASSUME RetInv, RetRowsStay, UNCHANGED <<returned, retReq, retShared, returnDays>>,
           retDay' \in Nat, retDay <= retDay'
    PROVE  RetLinked' /\ RetReqsKnown' /\ ReturnedOnce'
<1>1. RetLinked' /\ ReturnedOnce'
  BY DEF RetInv, RetLinked, ReturnedOnce, RetRowsStay
<1>2. ASSUME NEW r \in Requests PROVE RetReqKnown(retReq[r])'
  <2>1. RetReqKnown(retReq[r]) /\ retDay \in Nat
    BY ReturnAssumption DEF RetInv, RetReqsKnown, RetShape
  <2> QED
    BY <2>1 DEF RetReqKnown, RetOpen, RetRowsStay
<1> QED
  BY <1>1, <1>2 DEF RetInv, RetReqsKnown

LEMMA RetClock ==
    ASSUME RetInv, NextDay \/ \E e \in RetEvents : RepeatEvent(e)
    PROVE  RetInv'
<1>1. /\ UNCHANGED <<retOrders, retItem, retParcel, returnDays, returned, retAnnounced, retJob,
                     retReq, retCut, retShared>>
      /\ retInbox' \subseteq RetEvents /\ retFaults' \in 0 .. MaxRetFaults
      /\ retDay' \in 0 .. MaxDay /\ retDay <= retDay' /\ retDay' \in Nat /\ retDay \in Nat
  BY ReturnAssumption DEF NextDay, RepeatEvent, retTables, retEvents, RetInv, RetShape
<1>2. RetShape' /\ RetJobsKnown'
  BY <1>1 DEF RetInv, RetShape, RetJobsKnown
<1>3. RetRowsKnown'
  <2>1. \A s \in Parcels : retParcel[s] # None =>
           retParcel[s].deliveredAt \in Nat \cup {None}
    BY DEF RetInv, RetShape, ParcelRows
  <2> QED
    BY <1>1, <2>1 DEF RetInv, RetRowsKnown, Row
<1>4. RetLinked' /\ RetReqsKnown' /\ ReturnedOnce'
  BY <1>1, RetQuiet DEF RetRowsStay, Row
<1> QED
  BY <1>2, <1>3, <1>4 DEF RetInv

(* The first insert of a handler, and the delivery of a shipment.           *)
LEMMA RetInserts ==
    ASSUME RetInv,
           \/ \E o \in RetOrders : HandleOrderCreated(o)
           \/ \E s \in Parcels : HandleShipmentCreated(s) \/ HandleShipmentStatusUpdated(s)
    PROVE  RetInv'
<1>0. /\ UNCHANGED <<retItem, returnDays, returned, retAnnounced, retReq, retDay, retCut,
                     retShared, retFaults>>
  BY DEF HandleOrderCreated, HandleShipmentCreated, HandleShipmentStatusUpdated, RetFrame
<1>t. retDay \in Nat /\ retDay <= retDay /\ None \notin ParcelRows /\ MaxDay \in Nat
  BY ReturnAssumption DEF RetInv, RetShape
<1>1. RetLinked' /\ RetReqsKnown' /\ ReturnedOnce'
  BY <1>0, <1>t, RetQuiet DEF RetRowsStay, Row
<1>2. ASSUME NEW o \in RetOrders, HandleOrderCreated(o)
      PROVE  RetShape' /\ RetJobsKnown' /\ RetRowsKnown'
  <2>1. /\ retOrders' = retOrders \cup {o} /\ retInbox' = retInbox \ {OrderCreated(o)}
        /\ retJob' = [retJob EXCEPT ![OrderCreated(o)] = RetItemsOf[o]] /\ UNCHANGED retParcel
    BY <1>2 DEF HandleOrderCreated
  <2>2. RetItemsOf[o] \in Seq(RetItems)
    BY ReturnAssumption
  <2>3. RetItemsOf[o] \in Seq(ToSet(RetItemsOf[o]))
    BY <2>2, SeqOfItsElements
  <2>4. RetShape'
    BY <1>0, <2>1, <2>2 DEF RetInv, RetShape
  <2>5. RetJobsKnown'
    <3>1. \A e \in RetEvents : retJob'[e] = IF e = OrderCreated(o) THEN RetItemsOf[o]
                                            ELSE retJob[e]
      BY <2>1 DEF RetInv, RetShape
    <3> QED
      BY <2>1, <2>3, <3>1, RetEventsDiffer DEF RetInv, RetJobsKnown
  <2>6. RetRowsKnown'
    BY <1>0, <2>1 DEF RetInv, RetRowsKnown, Row
  <2> QED
    BY <2>4, <2>5, <2>6
<1>3. ASSUME NEW s \in Parcels, HandleShipmentCreated(s)
      PROVE  RetShape' /\ RetJobsKnown' /\ RetRowsKnown'
  <2>0. PICK row : row = [deliveredAt |-> None]
    OBVIOUS
  <2>1. /\ retInbox' = retInbox \ {ShipmentCreated(s)} /\ retParcel[s] = None
        /\ retJob' = [retJob EXCEPT ![ShipmentCreated(s)] = ParcelItems[s]]
        /\ retParcel' = [retParcel EXCEPT ![s] = row] /\ UNCHANGED retOrders
        /\ row \in ParcelRows /\ row.deliveredAt = None /\ row # None
    BY <1>3, <2>0, <1>t DEF HandleShipmentCreated, ParcelRows
  <2>2. ParcelItems[s] \in Seq(RetItems)
    BY ReturnAssumption
  <2>3. ParcelItems[s] \in Seq(ToSet(ParcelItems[s]))
    BY <2>2, SeqOfItsElements
  <2>4. RetShape'
    BY <1>0, <2>1, <2>2 DEF RetInv, RetShape
  <2>a. \A p \in Parcels : retParcel'[p] = IF p = s THEN row ELSE retParcel[p]
    BY <2>1 DEF RetInv, RetShape
  <2>5. RetJobsKnown'
    <3>1. \A e \in RetEvents : retJob'[e] = IF e = ShipmentCreated(s) THEN ParcelItems[s]
                                            ELSE retJob[e]
      BY <2>1 DEF RetInv, RetShape
    <3> QED
      BY <2>1, <2>3, <2>a, <3>1, RetEventsDiffer DEF RetInv, RetJobsKnown
  <2>6. RetRowsKnown'
    <3>1. \A i \in RetItems : Row(i) /\ retItem[i].sentWith # None =>
             retItem[i].sentWith \in Parcels
      BY DEF RetInv, RetShape, Row, ItemRows
    <3> QED
      BY <1>0, <2>1, <2>a, <3>1 DEF RetInv, RetRowsKnown, Row
  <2> QED
    BY <2>4, <2>5, <2>6
<1>4. ASSUME NEW s \in Parcels, HandleShipmentStatusUpdated(s)
      PROVE  RetShape' /\ RetJobsKnown' /\ RetRowsKnown'
  <2>0. PICK row : row = [deliveredAt |-> retDay]
    OBVIOUS
  <2>1. /\ retInbox' \subseteq retInbox /\ retParcel[s] # None
        /\ retParcel' = [retParcel EXCEPT ![s] = row] /\ UNCHANGED <<retOrders, retJob>>
        /\ row \in ParcelRows /\ row.deliveredAt = retDay /\ row # None
    BY <1>4, <2>0, <1>t DEF HandleShipmentStatusUpdated, ParcelRows
  <2>2. \A p \in Parcels : retParcel'[p] = IF p = s THEN row ELSE retParcel[p]
    BY <2>1 DEF RetInv, RetShape
  <2>3. RetShape' /\ RetJobsKnown'
    BY <1>0, <2>1, <2>2 DEF RetInv, RetShape, RetJobsKnown
  <2>4. RetRowsKnown'
    <3>1. \A i \in RetItems : Row(i) /\ retItem[i].sentWith # None =>
             retItem[i].sentWith \in Parcels
      BY DEF RetInv, RetShape, Row, ItemRows
    <3> QED
      BY <1>0, <1>t, <2>1, <2>2, <3>1 DEF RetInv, RetRowsKnown, Row
  <2> QED
    BY <2>3, <2>4
<1> QED
  BY <1>1, <1>2, <1>3, <1>4 DEF RetInv

(* The upsert of the first item of a handler.                               *)
LEMMA RetUpsertStep ==
    ASSUME RetInv, NEW e \in RetEvents, retJob[e] # <<>>,
           NEW row \in ItemRows, NEW i \in RetItems,
           retItem' = [retItem EXCEPT ![i] = row],
           retJob' = [retJob EXCEPT ![e] = Tail(retJob[e])],
           UNCHANGED <<retOrders, retParcel, retInbox, retCut, retFaults>>, RetFrame,
           OrderOf(i) \in retOrders,
           row.sentWith # None => retParcel[row.sentWith] # None,
           row.returnedWith = IF Row(i) THEN retItem[i].returnedWith ELSE 0,
           Row(i) /\ retItem[i].sentWith # None => row.sentWith # None
    PROVE  RetInv'
<1>0. UNCHANGED <<returnDays, returned, retAnnounced, retReq, retDay, retShared>>
  BY DEF RetFrame
<1>t. /\ None \notin ItemRows /\ retDay \in Nat /\ retDay <= retDay
      /\ retItem \in [RetItems -> ItemRows \cup {None}] /\ Len(returned) \in Nat
      /\ retJob \in [RetEvents -> Seq(RetItems)]
  BY ReturnAssumption DEF RetInv, RetShape
<1>1. /\ \A j \in RetItems : retItem'[j] = IF j = i THEN row ELSE retItem[j]
      /\ row # None
  BY <1>t
<1>2. /\ \A f \in RetEvents : retJob'[f] = IF f = e THEN Tail(retJob[e]) ELSE retJob[f]
      /\ retJob[e] \in Seq(RetItems) /\ Tail(retJob[e]) \in Seq(RetItems)
  BY <1>t
<1>3. RetShape'
  BY <1>0, <1>2, <1>t DEF RetInv, RetShape
<1>4. RetJobsKnown'
  <2>1. \A S : retJob[e] \in Seq(S) => Tail(retJob[e]) \in Seq(S)
    OBVIOUS
  <2> QED
    BY <1>0, <1>2, <2>1, RetEventsDiffer DEF RetInv, RetJobsKnown
<1>5. RetRowsKnown'
  BY <1>0, <1>1, <1>t DEF RetInv, RetRowsKnown, Row
<1>6. RetRowsStay
  BY <1>1 DEF RetRowsStay, Row
<1> QED
  BY <1>0, <1>t, <1>3, <1>4, <1>5, <1>6, RetQuiet DEF RetInv

LEMMA RetUpserts ==
    ASSUME RetInv,
           \/ \E o \in RetOrders : UpsertOrderItemFromOrder(o)
           \/ \E s \in Parcels : UpsertOrderItemFromShipment(s)
    PROVE  RetInv'
<1>t. /\ NewRow \in ItemRows /\ NewRow.returnedWith = 0 /\ NewRow.sentWith = None
      /\ retItem \in [RetItems -> ItemRows \cup {None}]
  BY DEF NewRow, ItemRows, RetInv, RetShape
<1>1. ASSUME NEW o \in RetOrders, UpsertOrderItemFromOrder(o) PROVE RetInv'
  <2>1. PICK i : i = Head(retJob[OrderCreated(o)])
    OBVIOUS
  <2>2. /\ retJob[OrderCreated(o)] # <<>> /\ OrderCreated(o) \in RetEvents
        /\ retJob[OrderCreated(o)] \in Seq(ToSet(RetItemsOf[o])) /\ o \in retOrders
    BY <1>1, RetEventsDiffer DEF UpsertOrderItemFromOrder, RetInv, RetJobsKnown
  <2>3. i \in RetItems /\ OrderOf(i) = o
    BY <2>1, <2>2, ItemsOrder
  <2>4. PICK old : old = IF Row(i) THEN retItem[i] ELSE NewRow
    OBVIOUS
  <2>5. PICK row : row = [old EXCEPT !.priced = TRUE]
    OBVIOUS
  <2>6. /\ old \in ItemRows /\ row \in ItemRows
        /\ row.sentWith = old.sentWith /\ row.returnedWith = old.returnedWith
    <3>1. old \in ItemRows
      BY <1>t, <2>3, <2>4 DEF Row
    <3> QED
      BY <3>1, <2>5 DEF ItemRows
  <2>7. /\ retItem' = [retItem EXCEPT ![i] = row]
        /\ retJob' = [retJob EXCEPT ![OrderCreated(o)] = Tail(retJob[OrderCreated(o)])]
        /\ UNCHANGED <<retOrders, retParcel, retInbox, retCut, retFaults>> /\ RetFrame
    BY <1>1, <2>1, <2>4, <2>5 DEF UpsertOrderItemFromOrder
  <2>8. /\ row.sentWith # None => retParcel[row.sentWith] # None
        /\ row.returnedWith = IF Row(i) THEN retItem[i].returnedWith ELSE 0
        /\ Row(i) /\ retItem[i].sentWith # None => row.sentWith # None
    BY <2>3, <2>4, <2>6, <1>t DEF RetInv, RetRowsKnown
  <2> QED
    BY <2>2, <2>3, <2>6, <2>7, <2>8, RetUpsertStep
<1>2. ASSUME NEW s \in Parcels, UpsertOrderItemFromShipment(s) PROVE RetInv'
  <2>1. PICK i : i = Head(retJob[ShipmentCreated(s)])
    OBVIOUS
  <2>2. /\ retJob[ShipmentCreated(s)] # <<>> /\ ShipmentCreated(s) \in RetEvents
        /\ retJob[ShipmentCreated(s)] \in Seq(ToSet(ParcelItems[s])) /\ retParcel[s] # None
        /\ ParcelOrder[s] \in retOrders
    BY <1>2, RetEventsDiffer DEF UpsertOrderItemFromShipment, RetInv, RetJobsKnown
  <2>3. i \in RetItems /\ OrderOf(i) = ParcelOrder[s]
    BY <2>1, <2>2, ItemsOrder
  <2>4. PICK old : old = IF Row(i) THEN retItem[i] ELSE NewRow
    OBVIOUS
  <2>5. PICK row : row = [old EXCEPT !.sentWith = s]
    OBVIOUS
  <2>6. /\ old \in ItemRows /\ row \in ItemRows
        /\ row.sentWith = s /\ row.returnedWith = old.returnedWith
    <3>1. old \in ItemRows
      BY <1>t, <2>3, <2>4 DEF Row
    <3> QED
      BY <3>1, <2>5 DEF ItemRows
  <2>7. /\ retItem' = [retItem EXCEPT ![i] = row]
        /\ retJob' = [retJob EXCEPT ![ShipmentCreated(s)] = Tail(retJob[ShipmentCreated(s)])]
        /\ UNCHANGED <<retOrders, retParcel, retInbox, retCut, retFaults>> /\ RetFrame
    BY <1>2, <2>1, <2>4, <2>5 DEF UpsertOrderItemFromShipment
  <2>8. /\ row.sentWith # None => retParcel[row.sentWith] # None
        /\ row.returnedWith = IF Row(i) THEN retItem[i].returnedWith ELSE 0
        /\ Row(i) /\ retItem[i].sentWith # None => row.sentWith # None
    <3>1. s # None
      BY ReturnAssumption
    <3> QED
      BY <3>1, <2>2, <2>4, <2>6, <1>t
  <2> QED
    BY <2>2, <2>3, <2>6, <2>7, <2>8, RetUpsertStep
<1> QED
  BY <1>1, <1>2

LEMMA RetGivesUp ==
    ASSUME RetInv, NEW e \in RetEvents, GiveUp(e), retFaults' \in 0 .. MaxRetFaults
    PROVE  RetInv'
<1>1. /\ UNCHANGED <<retOrders, retItem, retParcel, returnDays, returned, retAnnounced,
                     retReq, retDay, retShared>>
      /\ retJob' = [retJob EXCEPT ![e] = <<>>]
      /\ retInbox' = retInbox \cup {e} /\ retCut' = retCut \cup {e}
  BY DEF GiveUp, retTables, RetFrame
<1>2. retJob \in [RetEvents -> Seq(RetItems)] /\ retDay \in Nat /\ retDay <= retDay
  BY ReturnAssumption DEF RetInv, RetShape
<1>3. \A f \in RetEvents : retJob'[f] = IF f = e THEN <<>> ELSE retJob[f]
  BY <1>1, <1>2
<1>4. RetShape'
  BY <1>1, <1>2 DEF RetInv, RetShape
<1>5. RetJobsKnown'
  <2>1. \A S : <<>> \in Seq(S)
    OBVIOUS
  <2> QED
    BY <1>1, <1>3, <2>1, RetEventsDiffer DEF RetInv, RetJobsKnown
<1>6. RetRowsKnown' /\ RetRowsStay
  BY <1>1 DEF RetInv, RetRowsKnown, RetRowsStay, Row
<1> QED
  BY <1>1, <1>2, <1>4, <1>5, <1>6, RetQuiet DEF RetInv

(* A step of createReturn that writes no row.                               *)
LEMMA RetAskStep ==
    ASSUME RetInv, NEW r \in Requests, NEW q, retReq' = [retReq EXCEPT ![r] = q],
           UNCHANGED <<retOrders, retItem, retParcel, returnDays, retInbox, retJob, retCut,
                       retDay, returned>>,
           retAnnounced' \subseteq DOMAIN returned, retFaults' \in 0 .. MaxRetFaults,
           retShared \subseteq retShared', retShared' \subseteq RetItems,
           RetReqKnown(q),
           \A x \in Requests \ {r} : q.items \cap retReq[x].items \subseteq retShared'
    PROVE  RetInv'
<1>1. /\ retReq' = [x \in Requests |-> retReq'[x]] /\ retReq'[r] = q
      /\ \A x \in Requests \ {r} : retReq'[x] = retReq[x]
  BY DEF RetInv, RetShape
<1>2. RetShape'
  BY <1>1 DEF RetInv, RetShape
<1>3. RetJobsKnown' /\ RetRowsKnown' /\ RetLinked' /\ ReturnedOnce'
  BY DEF RetInv, RetJobsKnown, RetRowsKnown, RetLinked, ReturnedOnce, Row
<1>4. \A x \in Requests : RetReqKnown(retReq[x])'
  BY <1>1 DEF RetInv, RetReqsKnown, RetReqKnown, RetOpen, Row
<1>5. \A x, y \in Requests : x # y => retReq'[x].items \cap retReq'[y].items \subseteq retShared'
  BY <1>1 DEF RetInv, RetReqsKnown
<1> QED
  BY <1>2, <1>3, <1>4, <1>5 DEF RetInv, RetReqsKnown

LEMMA RetLoads ==
    ASSUME RetInv, NEW r \in Requests, NEW u \in Users, NEW items \in SUBSET RetItems,
           LoadItems(r, u, items)
    PROVE  RetInv'
<1>1. PICK q : q = [pc |-> "validate", items |-> items, day |-> retDay,
                    with |-> [i \in items |-> retItem[i].sentWith]]
  OBVIOUS
<1>2. /\ retReq' = [retReq EXCEPT ![r] = q]
      /\ UNCHANGED <<retOrders, retItem, retParcel, returnDays, retInbox, retJob, retCut,
                     retDay, returned, retAnnounced, retFaults>>
      /\ retShared' = retShared \cup UNION {items \cap retReq[x].items : x \in Requests}
      /\ \A i \in items : /\ Row(i) /\ retItem[i].sentWith # None
                          /\ retItem[i].returnedWith = 0
      /\ items # {}
  BY <1>1 DEF LoadItems, Ask, ReqFrame, retTables, retEvents, NoneReturned
<1>3. /\ q.pc = "validate" /\ q.items = items /\ q.day = retDay /\ DOMAIN q.with = items
      /\ retDay \in 0 .. MaxDay /\ MaxDay \in Nat
  BY <1>1, ReturnAssumption DEF RetInv, RetShape
<1>4. RetReqKnown(q)
  BY <1>2, <1>3 DEF RetReqKnown, RetOpen
<1>5. /\ retShared \subseteq retShared'
      /\ \A x \in Requests : items \cap retReq[x].items \subseteq retShared'
  BY <1>2
<1>6. retShared' \subseteq RetItems /\ retAnnounced' \subseteq DOMAIN returned
      /\ retFaults' \in 0 .. MaxRetFaults
  BY <1>2 DEF RetInv, RetShape
<1> QED
  BY <1>2, <1>3, <1>4, <1>5, <1>6, RetAskStep

LEMMA RetValidates ==
    ASSUME RetInv, NEW r \in Requests, ValidateReturn(r)
    PROVE  RetInv'
<1>1. PICK q : q = [RetIdle EXCEPT !.pc = "write", !.items = retReq[r].items,
                                   !.day = retReq[r].day]
  OBVIOUS
<1>2. /\ retReq' = [retReq EXCEPT ![r] = q] /\ retReq[r].pc = "validate"
      /\ UNCHANGED <<retOrders, retItem, retParcel, returnDays, retInbox, retJob, retCut,
                     retDay, returned, retAnnounced, retFaults, retShared>>
      /\ \A i \in retReq[r].items : /\ i \in DOMAIN returnDays
                                    /\ returnDays[i] # None => returnDays[i] > 0
  BY <1>1 DEF ValidateReturn, Ask, ReqFrame, retTables, retEvents, CanBeReturned
<1>3. /\ q.pc = "write" /\ q.items = retReq[r].items /\ q.day = retReq[r].day
      /\ DOMAIN q.with = {}
  BY <1>1 DEF RetIdle
<1>4. RetReqKnown(q)
  BY <1>2, <1>3 DEF RetReqKnown, RetOpen, RetInv, RetReqsKnown
<1>5. /\ \A x \in Requests \ {r} : q.items \cap retReq[x].items \subseteq retShared
      /\ retShared \subseteq RetItems /\ retAnnounced \subseteq DOMAIN returned
      /\ retFaults \in 0 .. MaxRetFaults
  BY <1>3 DEF RetInv, RetReqsKnown, RetShape
<1> QED
  BY <1>2, <1>4, <1>5, RetAskStep

LEMMA RetEnds ==
    ASSUME RetInv, NEW r \in Requests,
           PublishReturnCreated(r) \/ RequestEnds(r) \/ PublishFails(r)
    PROVE  RetInv'
<1>t. /\ retShared \subseteq RetItems /\ retAnnounced \subseteq DOMAIN returned
      /\ retFaults \in 0 .. MaxRetFaults /\ MaxRetFaults \in Nat
      /\ RetReqKnown(RetIdle) /\ RetIdle.items = {}
  BY RetIdleKnown, ReturnAssumption DEF RetInv, RetShape
<1>1. /\ retReq' = [retReq EXCEPT ![r] = RetIdle]
      /\ UNCHANGED <<retOrders, retItem, retParcel, returnDays, retInbox, retJob, retCut,
                     retDay, returned, retShared>>
      /\ retAnnounced' \subseteq DOMAIN returned /\ retFaults' \in 0 .. MaxRetFaults
  BY <1>t DEF PublishReturnCreated, RequestEnds, PublishFails, Ask, ReqFrame, retTables,
              retEvents
<1> QED
  BY <1>1, <1>t, RetAskStep

(* The commit of a return.                                                  *)
LEMMA RetCommits ==
    ASSUME RetInv, NEW r \in Requests, CommitReturn(r)
    PROVE  RetInv'
<1>1. PICK items, order, day, N :
         /\ items = retReq[r].items /\ day = retReq[r].day /\ N = Len(returned) + 1
         /\ order = OrderOf(CHOOSE i \in retReq[r].items : TRUE)
  OBVIOUS
<1>2. PICK q : q = [RetIdle EXCEPT !.pc = "publish", !.items = retReq[r].items]
  OBVIOUS
<1>3. /\ retReq[r].pc = "write" /\ retReq' = [retReq EXCEPT ![r] = q]
      /\ \A i \in items : OrderOf(i) = order
      /\ returned' = Append(returned, [order |-> order, items |-> items, day |-> day])
      /\ retItem' = [i \in RetItems |-> IF i \in items
                                        THEN [retItem[i] EXCEPT !.returnedWith = N]
                                        ELSE retItem[i]]
      /\ UNCHANGED <<retOrders, retParcel, returnDays, retAnnounced, retInbox, retJob, retCut,
                     retDay, retShared, retFaults>>
  BY <1>1, <1>2 DEF CommitReturn, Ask, retEvents, TriggersPass
<1>t. /\ retItem \in [RetItems -> ItemRows \cup {None}] /\ None \notin ItemRows
      /\ Len(returned) \in Nat /\ DOMAIN returned = 1 .. Len(returned) /\ N \in Nat
      /\ items \subseteq RetItems /\ items # {} /\ N = Len(returned) + 1 /\ N # 0
      /\ \A i \in items : /\ Row(i) /\ retItem[i] \in ItemRows
                          /\ retItem[i].returnedWith # 0 => i \in retShared
  BY <1>1, <1>3, ReturnAssumption
     DEF RetInv, RetShape, RetReqsKnown, RetReqKnown, RetOpen, Row
<1>4. /\ returned' \in Seq(ReturnRows) /\ Len(returned') = N
      /\ DOMAIN returned' = DOMAIN returned \cup {N} /\ N \notin DOMAIN returned
      /\ \A n \in DOMAIN returned : returned'[n] = returned[n]
      /\ returned'[N].items = items /\ returned'[N].order = order
  <2>1. PICK new : new = [order |-> order, items |-> items, day |-> day]
    OBVIOUS
  <2>2. new.items = items /\ new.order = order /\ returned' = Append(returned, new)
    BY <1>3, <2>1
  <2>3. order \in RetOrders
    BY <1>3, <1>t, ItemsOrder
  <2>4. day \in Nat
    BY <1>1, ReturnAssumption DEF RetInv, RetShape, RetReqsKnown, RetReqKnown
  <2>5. new \in ReturnRows /\ returned \in Seq(ReturnRows)
    BY <2>1, <2>3, <2>4, <1>t DEF ReturnRows, RetInv, RetShape
  <2> HIDE <2>1
  <2> QED
    BY <2>2, <2>5, <1>t
<1>5. ASSUME NEW i \in RetItems
      PROVE  /\ i \notin items => retItem'[i] = retItem[i]
             /\ i \in items =>
                   /\ retItem'[i] \in ItemRows /\ retItem'[i] # None
                   /\ retItem'[i].returnedWith = N
                   /\ retItem'[i].sentWith = retItem[i].sentWith
  <2>1. CASE i \in items
    <3>1. retItem[i] \in ItemRows /\ retItem'[i] = [retItem[i] EXCEPT !.returnedWith = N]
      BY <1>3, <1>t, <2>1
    <3> QED
      BY <3>1, <1>t, <2>1 DEF ItemRows
  <2>2. CASE i \notin items
    BY <1>3, <2>2
  <2> QED
    BY <2>1, <2>2
<1>6. retItem' \in [RetItems -> ItemRows \cup {None}]
  BY <1>3, <1>5, <1>t
<1>7. /\ retReq' = [x \in Requests |-> retReq'[x]] /\ retReq'[r] = q
      /\ \A x \in Requests \ {r} : retReq'[x] = retReq[x]
      /\ q.pc = "publish" /\ q.items = items /\ q.day = 0 /\ DOMAIN q.with = {}
  BY <1>1, <1>2, <1>3 DEF RetInv, RetShape, RetIdle
<1>8. RetShape'
  BY <1>3, <1>4, <1>6, <1>7 DEF RetInv, RetShape
<1>9. RetJobsKnown'
  BY <1>3 DEF RetInv, RetJobsKnown
<1>10. RetRowsKnown'
  <2>1. ASSUME NEW i \in RetItems, Row(i)'
        PROVE  /\ OrderOf(i) \in retOrders
               /\ retItem'[i].sentWith # None => retParcel[retItem'[i].sentWith] # None
               /\ retItem'[i].returnedWith <= N
    <3>1. Row(i) /\ retItem[i] \in ItemRows
      BY <2>1, <1>5, <1>t DEF Row
    <3>2. retItem[i].returnedWith <= Len(returned) /\ retItem[i].returnedWith \in Nat
      BY <3>1 DEF RetInv, RetRowsKnown, ItemRows
    <3> QED
      BY <3>1, <3>2, <1>5, <1>t DEF RetInv, RetRowsKnown
  <2> QED
    BY <2>1, <1>3, <1>4 DEF RetInv, RetRowsKnown
<1>11. RetLinked'
  <2>1. items \subseteq ToSet(RetItemsOf[order])
    BY <1>3, <1>t, ItemsOrder
  <2>2. \A i \in RetItems : Row(i) /\ retItem[i].returnedWith # 0 =>
           Row(i)' /\ retItem'[i].returnedWith # 0
    BY <1>5, <1>t DEF Row
  <2>3. \A i \in items : i \in RetItems /\ Row(i)' /\ retItem'[i].returnedWith # 0
    BY <1>5, <1>t DEF Row
  <2> QED
    BY <2>1, <2>2, <2>3, <1>4 DEF RetInv, RetLinked
<1>12. ReturnedOnce'
  <2>1. \A n \in DOMAIN returned : returned[n].items \cap items \subseteq retShared
    BY <1>t DEF RetInv, RetLinked
  <2> QED
    BY <2>1, <1>3, <1>4 DEF RetInv, ReturnedOnce
<1>13. RetReqsKnown'
  <2>1. ASSUME NEW x \in Requests PROVE RetReqKnown(retReq[x])'
    <3>1. CASE x = r
      <4>1. 0 \in 0 .. retDay /\ retDay' = retDay
        BY <1>3, ReturnAssumption DEF RetInv, RetShape
      <4> QED
        BY <3>1, <4>1, <1>7, <1>t DEF RetReqKnown, RetOpen
    <3>2. CASE x # r
      <4>1. /\ retReq'[x] = retReq[x] /\ RetReqKnown(retReq[x])
            /\ retReq[x].items \cap items \subseteq retShared
        BY <3>2, <1>1, <1>7 DEF RetInv, RetReqsKnown
      <4> QED
        BY <4>1, <1>3, <1>5, <1>t DEF RetReqKnown, RetOpen, Row
    <3> QED
      BY <3>1, <3>2
  <2>2. \A x \in Requests : retReq'[x].items = retReq[x].items
    BY <1>1, <1>7
  <2> QED
    BY <2>1, <2>2, <1>3 DEF RetInv, RetReqsKnown
<1> QED
  BY <1>8, <1>9, <1>10, <1>11, <1>12, <1>13 DEF RetInv

LEMMA RetInvStep == RetInv /\ [ReturnNext]_retVars => RetInv'
<1> SUFFICES ASSUME RetInv, [ReturnNext]_retVars PROVE RetInv'
  OBVIOUS
<1>1. CASE UNCHANGED retVars
  BY <1>1 DEF retVars, RetInv, RetShape, RetJobsKnown, RetRowsKnown, Row, RetLinked,
              RetReqsKnown, RetReqKnown, RetOpen, ReturnedOnce
<1>2. ASSUME NEW e \in RetEvents, HandlerFails(e) PROVE RetInv'
  <2>1. retFaults' \in 0 .. MaxRetFaults
    BY <1>2, ReturnAssumption DEF HandlerFails, RetInv, RetShape
  <2> QED
    BY <1>2, <2>1, RetGivesUp DEF HandlerFails
<1>3. ASSUME NEW s \in Parcels, OrderUnknown(s) PROVE RetInv'
  <2>1. retFaults' \in 0 .. MaxRetFaults /\ ShipmentCreated(s) \in RetEvents
    BY <1>3, RetEventsDiffer DEF OrderUnknown, RetInv, RetShape
  <2> QED
    BY <1>3, <2>1, RetGivesUp DEF OrderUnknown
<1>4. ASSUME NEW r \in Requests, CreateReturn(r) PROVE RetInv'
  BY <1>4, RetLoads, RetValidates, RetCommits, RetEnds DEF CreateReturn
<1> QED
  BY <1>1, <1>2, <1>3, <1>4, RetClock, RetInserts, RetUpserts
     DEF ReturnNext, HandleOrder, HandleShipment

(* A return that is inserted was delivered.                                 *)
LEMMA RetRefundStep ==
    ASSUME RetInv, [ReturnNext]_retVars
    PROVE  RefundsDelivered
<1>1. CASE UNCHANGED returned
  BY <1>1 DEF RefundsDelivered
<1>2. ASSUME NEW r \in Requests, CommitReturn(r) PROVE RefundsDelivered
  <2>1. PICK new : new = [order |-> OrderOf(CHOOSE i \in retReq[r].items : TRUE),
                          items |-> retReq[r].items, day |-> retReq[r].day]
    OBVIOUS
  <2>2. new.items = retReq[r].items /\ new.day = retReq[r].day
    BY <2>1
  <2>3. /\ returned' = Append(returned, new) /\ retReq[r].pc = "write"
        /\ \A i \in retReq[r].items :
              LET delivered == retParcel[retItem[i].sentWith].deliveredAt
              IN  /\ delivered # None
                  /\ returnDays[i] # None => retReq[r].day - delivered <= returnDays[i]
    BY <1>2, <2>1 DEF CommitReturn, TriggersPass
  <2>4. returned \in Seq(ReturnRows) /\ Len(returned) \in Nat
    BY DEF RetInv, RetShape
  <2>5. \A n \in DOMAIN returned' \ DOMAIN returned : returned'[n] = new
    BY <2>3, <2>4
  <2>6. ASSUME NEW i \in retReq[r].items
        PROVE  /\ retParcel[retItem[i].sentWith].deliveredAt \in Nat \cup {None}
               /\ i \in DOMAIN returnDays
               /\ returnDays[i] # None => returnDays[i] \in Int /\ returnDays[i] > 0
               /\ retReq[r].day \in Int
    <3>1. /\ RetReqKnown(retReq[r]) /\ RetOpen(retReq[r]) /\ i \in RetItems
          /\ Row(i) /\ retItem[i].sentWith # None
      BY <2>3 DEF RetInv, RetReqsKnown, RetReqKnown, RetOpen
    <3>2. retItem[i] \in ItemRows
      BY <3>1 DEF RetInv, RetShape, Row
    <3>3. retItem[i].sentWith \in Parcels /\ retParcel[retItem[i].sentWith] # None
      BY <3>1, <3>2 DEF ItemRows, RetInv, RetRowsKnown
    <3>4. retParcel[retItem[i].sentWith] \in ParcelRows
      BY <3>3 DEF RetInv, RetShape
    <3>5. i \in DOMAIN returnDays /\ (returnDays[i] # None => returnDays[i] > 0)
      BY <2>3, <3>1 DEF RetReqKnown
    <3>6. returnDays[i] # None => returnDays[i] \in Int
      BY <3>5, ReturnAssumption DEF RetInv, RetShape
    <3> QED
      BY <3>1, <3>4, <3>5, <3>6 DEF ParcelRows, RetReqKnown
  <2>7. ASSUME NEW i \in retReq[r].items
        PROVE  LET s == retParcel[retItem[i].sentWith]
               IN  /\ s.deliveredAt # None
                   /\ returnDays[i] # None =>
                         /\ returnDays[i] # 0
                         /\ retReq[r].day <= s.deliveredAt + returnDays[i]
    BY <2>3, <2>6
  <2> QED
    BY <2>2, <2>5, <2>7 DEF RefundsDelivered
<1> QED
  BY <1>1, <1>2
     DEF ReturnNext, retVars, RepeatEvent, HandlerFails, GiveUp, NextDay, HandleOrder,
         HandleOrderCreated, UpsertOrderItemFromOrder, HandleShipment, HandleShipmentCreated,
         UpsertOrderItemFromShipment, OrderUnknown, HandleShipmentStatusUpdated, RetFrame,
         CreateReturn, LoadItems, ValidateReturn, PublishReturnCreated, RequestEnds,
         PublishFails
-----------------------------------------------------------------------------
(* The services together.  No service reads or writes the variables of      *)
(* another, so that each of them takes its own steps, or none, whatever the *)
(* others do: the services may run at the same time.                        *)
ShopInit ==
    /\ CartInit /\ ReviewInit /\ WishlistInit /\ ReturnInit
    /\ VersionsInit /\ ProductsInit /\ AccountsInit /\ NotificationInit

ShopStep ==
    /\ [CartNext]_cartVars /\ [ReviewNext]_reviewVars /\ [WishlistNext]_wishVars
    /\ [ReturnNext]_retVars /\ [VersionsNext]_verVars /\ [ProductsNext]_prodVars
    /\ [AccountsNext]_acctVars /\ [NotificationNext]_notifVars

(* The services of Spec are such a system, in which one service runs alone. *)
LEMMA StorefrontSteps == Init => ShopInit
BY DEF Init, ShopInit

LEMMA StorefrontStep == [Next]_<<shopVars, on>> => ShopStep
BY DEF Next, shopVars, ShopStep

ShopInv ==
    /\ CartInv /\ ReviewInv /\ WishInv /\ RetInv
    /\ VerInv /\ ProdInv /\ AcctInv /\ NotifInv

LEMMA ShopInitInv == ShopInit => ShopInv
BY CartInitInv, ReviewInitInv, WishInitInv, RetInitInv, VerInitInv, ProdInitInv,
   AcctInitInv, NotifInitInv
   DEF ShopInit, ShopInv

LEMMA ShopInvStep == ShopInv /\ ShopStep => ShopInv'
BY CartInvStep, ReviewInvStep, WishInvStep, RetInvStep, VerInvStep, ProdInvStep,
   AcctInvStep, NotifInvStep
   DEF ShopStep, ShopInv

(* The inductive invariant of the services.                                 *)
THEOREM ShopInvariant == ShopInit /\ [][ShopStep]_shopVars => []ShopInv
<1>1. ShopInv /\ [ShopStep]_shopVars => ShopInv'
  <2> SUFFICES ASSUME ShopInv, [ShopStep]_shopVars PROVE ShopInv'
    OBVIOUS
  <2>1. CASE ShopStep
    BY <2>1, ShopInvStep
  <2>2. CASE UNCHANGED shopVars
    <3>1. ShopStep
      BY <2>2 DEF shopVars, ShopStep
    <3> QED
      BY <3>1, ShopInvStep
  <2> QED
    BY <2>1, <2>2
<1> QED
  BY <1>1, ShopInitInv, PTL

LEMMA SpecInvariant == Spec => []ShopInv
<1>1. ShopInv /\ [Next]_<<shopVars, on>> => ShopInv'
  BY StorefrontStep, ShopInvStep
<1> QED
  BY <1>1, StorefrontSteps, ShopInitInv, PTL DEF Spec

(* Every service keeps the types of its tables, documents and requests.     *)
THEOREM StorefrontTypes == Spec => []StorefrontTypeOK
<1>1. ShopInv => StorefrontTypeOK
  BY CartInvTypes, ReviewInvTypes, WishInvTypes, RetInvTypes, VerInvTypes, ProdInvTypes,
     AcctInvTypes, NotifInvTypes
     DEF ShopInv, StorefrontTypeOK
<1> QED
  BY <1>1, SpecInvariant, PTL

(* However many requests each service serves at once, two cart items of a   *)
(* variant, two reviews of it by a user, two returns of an item and two     *)
(* versions with one number come only from requests that overlapped.        *)
THEOREM DoublesOverlapped == Spec => []DoublesNeedOverlap
<1>1. ReviewInv => ReviewedOnce
  BY DEF ReviewInv, ReviewPairs
<1>2. ShopInv => DoublesNeedOverlap
  BY <1>1, CartInvOnce, RetInvTypes, VerInvTypes DEF ShopInv, DoublesNeedOverlap
<1> QED
  BY <1>2, SpecInvariant, PTL

(* The default variant is one of the product's; when no event is under way  *)
(* and none was lost or came out of order, the order service charges the    *)
(* current version and lists the addresses there are.                       *)
THEOREM ReferencesAreTrue == Spec => []ReferencesHold
<1>1. ShopInv => ReferencesHold
  BY VerInvTypes, AcctInvTypes DEF ShopInv, ProdInv, ReferencesHold
<1> QED
  BY <1>1, SpecInvariant, PTL

(* Cart items, reviews and wishlists implement Lifecycle, and an item       *)
(* leaves the cart because it was ordered, deleted or replaced.             *)
THEOREM DocumentsImplementLifecycle == Spec => DocumentsLive
<1>1. Init => CartLife!Init /\ ReviewLife!Init /\ WishlistLife!Init
  <2> SUFFICES ASSUME Init PROVE CartLife!Init /\ ReviewLife!Init /\ WishlistLife!Init
    OBVIOUS
  <2>1. CartLife!Init
    BY CartAssumption DEF Init, CartInit, CartLife!Init, Present, CartIds
  <2>2. ReviewLife!Init
    BY ReviewAssumption DEF Init, ReviewInit, ReviewLife!Init, Exists, ReviewIds
  <2>3. WishlistLife!Init
    BY WishlistAssumption DEF Init, WishlistInit, WishlistLife!Init, Listed, WishlistIds
  <2> QED
    BY <2>1, <2>2, <2>3
<1>2. ShopInv /\ [Next]_<<shopVars, on>> =>
         CartLife!Write /\ ReviewLife!Write /\ WishlistLife!Write
  BY StorefrontStep, CartLifeStep, ReviewLifeStep, WishLifeStep DEF ShopInv, ShopStep
<1>3. ShopInv /\ [Next]_<<shopVars, on>> => \A i \in CartIds : LeavesForAReason(i)
  BY StorefrontStep, CartLeaveStep DEF ShopInv, ShopStep, LeavesForAReason
<1>4. Spec => CartItemsNeverReturn
  BY <1>1, <1>2, SpecInvariant, PTL DEF Spec, CartItemsNeverReturn, CartLife!Spec
<1>5. Spec => ReviewsNeverReturn
  BY <1>1, <1>2, SpecInvariant, PTL DEF Spec, ReviewsNeverReturn, ReviewLife!Spec
<1>6. Spec => WishlistsNeverReturn
  BY <1>1, <1>2, SpecInvariant, PTL DEF Spec, WishlistsNeverReturn, WishlistLife!Spec
<1>7. Spec => ItemsLeaveForAReason
  BY <1>3, SpecInvariant, PTL DEF Spec, ItemsLeaveForAReason
<1> QED
  BY <1>4, <1>5, <1>6, <1>7 DEF DocumentsLive

(* An update of a wishlist, a product, a variant or a notification that     *)
(* overlaps with no other one changes what it was asked for and keeps the   *)
(* rest.                                                                    *)
THEOREM UpdatesAreKept == Spec => UpdatesKeepTheRest
<1>1. ShopInv => UpdatesApply
  BY WishInvUpdates DEF ShopInv
<1>2. ShopInv /\ [Next]_<<shopVars, on>> => \A r \in Requests : KeepsFields(r)
  BY StorefrontStep, ProdFieldsStep DEF ShopInv, ShopStep, KeepsFields
<1>3. ShopInv /\ [Next]_<<shopVars, on>> =>
         \A i \in DOMAIN notification : KeepsFirstRead(i)
  BY StorefrontStep, NotifReadStep DEF ShopInv, ShopStep, KeepsFirstRead
<1>4. Spec => []UpdatesApply
  BY <1>1, SpecInvariant, PTL
<1>5. Spec => FieldsKept
  BY <1>2, SpecInvariant, PTL DEF Spec, FieldsKept
<1>6. Spec => FirstReadKept
  BY <1>3, SpecInvariant, PTL DEF Spec, FirstReadKept
<1> QED
  BY <1>4, <1>5, <1>6 DEF UpdatesKeepTheRest

(* Whatever is announced and reported between the validation of a return    *)
(* and its commit, what is refunded counts as delivered when it is, and is  *)
(* within its period.                                                       *)
THEOREM RefundsAreDelivered == Spec => RefundedWasDelivered
<1>1. ShopInv /\ [Next]_<<shopVars, on>> => RefundsDelivered
  BY StorefrontStep, RetRefundStep DEF ShopInv, ShopStep
<1> QED
  BY <1>1, SpecInvariant, PTL DEF Spec, RefundedWasDelivered

-----------------------------------------------------------------------------
(* The simulation service.  A registration that reached its queue is never  *)
(* lost: proved for any number of queues, registrations, limits and manual  *)
(* updates, and for a broker that closes or refuses the connection at any   *)
(* time.                                                                    *)

(* A message that the consumer works on is not acknowledged as long as the  *)
(* channel it came by is open.                                              *)
HeldIsUnacked ==
    \A q \in Queues :
        connected /\ held[q] # NoDelivery => held[q].id \in ToSet(unacked[q])

(* A record is blocked by an operator who is about to send the status, or   *)
(* has sent it.                                                             *)
BlockedIsAnswered ==
    \A id \in Ids : record[id] = "blocked" => upd[id] = "blocked" \/ manual[id] > 0

(* The message of id is with the broker.                                    *)
Queued(id) ==
    id \in ToSet(ready[QueueOf[id]]) \/ id \in ToSet(unacked[QueueOf[id]])

OnItsWay(id) == \/ timers[id] > 0 \/ automatic[id] > 0
                \/ upd[id] = "blocked" \/ manual[id] > 0

NothingLost == \A id \in enqueued : Queued(id) \/ OnItsWay(id)

SimInv == TypeOK /\ HeldIsUnacked /\ BlockedIsAnswered /\ NothingLost

-----------------------------------------------------------------------------
(* What the operators on the queues keep.                                   *)
LEMMA ConcatElements ==
    ASSUME NEW s \in Seq(Ids), NEW t \in Seq(Ids)
    PROVE  s \o t \in Seq(Ids) /\ ToSet(s \o t) = ToSet(s) \cup ToSet(t)
<1>1. /\ s \o t \in Seq(Ids) /\ Len(s \o t) = Len(s) + Len(t)
      /\ Len(s) \in Nat /\ Len(t) \in Nat
      /\ DOMAIN s = 1 .. Len(s) /\ DOMAIN t = 1 .. Len(t)
      /\ DOMAIN (s \o t) = 1 .. Len(s) + Len(t)
      /\ \A n \in 1 .. Len(s) : (s \o t)[n] = s[n]
      /\ \A n \in 1 .. Len(t) : (s \o t)[Len(s) + n] = t[n]
  OBVIOUS
<1>2. \A n \in DOMAIN (s \o t) : (s \o t)[n] \in ToSet(s) \cup ToSet(t)
  <2>1. SUFFICES ASSUME NEW n \in DOMAIN (s \o t)
                 PROVE  (s \o t)[n] \in ToSet(s) \cup ToSet(t)
    OBVIOUS
  <2>2. CASE n <= Len(s)
    BY <1>1, <2>2 DEF ToSet
  <2>3. CASE n > Len(s)
    <3>1. n - Len(s) \in 1 .. Len(t) /\ Len(s) + (n - Len(s)) = n
      BY <1>1, <2>3
    <3>2. (s \o t)[n] = t[n - Len(s)]
      BY <1>1, <3>1
    <3> QED
      BY <1>1, <3>1, <3>2 DEF ToSet
  <2> QED
    BY <1>1, <2>2, <2>3
<1>3. \A n \in DOMAIN s : s[n] \in ToSet(s \o t)
  BY <1>1 DEF ToSet
<1>4. \A n \in DOMAIN t : t[n] \in ToSet(s \o t)
  <2>1. SUFFICES ASSUME NEW n \in DOMAIN t PROVE t[n] \in ToSet(s \o t)
    OBVIOUS
  <2>2. Len(s) + n \in DOMAIN (s \o t) /\ (s \o t)[Len(s) + n] = t[n]
    BY <1>1
  <2> QED
    BY <2>2 DEF ToSet
<1> QED
  BY <1>1, <1>2, <1>3, <1>4 DEF ToSet

LEMMA AppendElements ==
    ASSUME NEW s \in Seq(Ids), NEW x \in Ids
    PROVE  Append(s, x) \in Seq(Ids) /\ ToSet(Append(s, x)) = ToSet(s) \cup {x}
<1>1. /\ Append(s, x) \in Seq(Ids) /\ Len(s) \in Nat /\ DOMAIN s = 1 .. Len(s)
      /\ DOMAIN Append(s, x) = 1 .. Len(s) + 1
      /\ \A n \in 1 .. Len(s) : Append(s, x)[n] = s[n]
      /\ Append(s, x)[Len(s) + 1] = x
  OBVIOUS
<1>2. \A n \in 1 .. Len(s) + 1 : n \in 1 .. Len(s) \/ n = Len(s) + 1
  BY <1>1
<1>3. \A n \in 1 .. Len(s) : n \in 1 .. Len(s) + 1
  BY <1>1
<1>4. Len(s) + 1 \in 1 .. Len(s) + 1
  BY <1>1
<1> QED
  BY <1>1, <1>2, <1>3, <1>4 DEF ToSet

LEMMA TailElements ==
    ASSUME NEW s \in Seq(Ids), s # <<>>
    PROVE  /\ Tail(s) \in Seq(Ids) /\ Head(s) \in Ids
           /\ ToSet(s) = {Head(s)} \cup ToSet(Tail(s))
<1>1. /\ Tail(s) \in Seq(Ids) /\ Head(s) = s[1] /\ Len(s) \in Nat /\ Len(s) # 0
      /\ DOMAIN s = 1 .. Len(s) /\ DOMAIN Tail(s) = 1 .. Len(s) - 1
      /\ \A n \in 1 .. Len(s) - 1 : Tail(s)[n] = s[n + 1]
  OBVIOUS
<1>2. 1 \in DOMAIN s /\ Head(s) \in Ids
  BY <1>1
<1>3. \A n \in DOMAIN s : n = 1 \/ (n - 1 \in DOMAIN Tail(s) /\ Tail(s)[n - 1] = s[n])
  BY <1>1
<1>4. \A n \in DOMAIN Tail(s) : n + 1 \in DOMAIN s /\ s[n + 1] = Tail(s)[n]
  BY <1>1
<1>5. \A x \in ToSet(s) : x = Head(s) \/ x \in ToSet(Tail(s))
  BY <1>1, <1>3 DEF ToSet
<1>6. Head(s) \in ToSet(s)
  BY <1>1, <1>2 DEF ToSet
<1>7. \A x \in ToSet(Tail(s)) : x \in ToSet(s)
  BY <1>4 DEF ToSet
<1> QED
  BY <1>1, <1>2, <1>5, <1>6, <1>7

(* The removal of one place keeps what is at the others.                    *)
LEMMA RemoveElements ==
    ASSUME NEW s \in Seq(Ids), NEW i \in 1 .. Len(s)
    PROVE  /\ RemoveAt(s, i) \in Seq(Ids)
           /\ \A x \in ToSet(s) : x # s[i] => x \in ToSet(RemoveAt(s, i))
<1>1. Len(s) \in Nat /\ i \in Nat /\ DOMAIN s = 1 .. Len(s)
  OBVIOUS
<1> DEFINE l == SubSeq(s, 1, i - 1)
           r == SubSeq(s, i + 1, Len(s))
<1>2. /\ l \in Seq(Ids) /\ DOMAIN l = 1 .. i - 1
      /\ \A n \in 1 .. i - 1 : l[n] = s[n]
  BY <1>1
<1>3. /\ r \in Seq(Ids) /\ DOMAIN r = 1 .. Len(s) - i
      /\ \A n \in 1 .. Len(s) - i : r[n] = s[i + n]
  BY <1>1
<1>4. RemoveAt(s, i) = l \o r
  BY DEF RemoveAt
<1> HIDE DEF l, r
<1>5. RemoveAt(s, i) \in Seq(Ids) /\ ToSet(RemoveAt(s, i)) = ToSet(l) \cup ToSet(r)
  BY <1>2, <1>3, <1>4, ConcatElements
<1>6. ASSUME NEW n \in DOMAIN s, n # i PROVE s[n] \in ToSet(l) \cup ToSet(r)
  <2>1. CASE n < i
    <3>1. n \in DOMAIN l /\ l[n] = s[n]
      BY <1>1, <1>2, <2>1
    <3> QED
      BY <3>1 DEF ToSet
  <2>2. CASE n > i
    <3>1. n - i \in 1 .. Len(s) - i /\ i + (n - i) = n
      BY <1>1, <2>2
    <3>2. n - i \in DOMAIN r /\ r[n - i] = s[n]
      BY <1>3, <3>1
    <3> QED
      BY <3>2 DEF ToSet
  <2> QED
    BY <1>1, <1>6, <2>1, <2>2
<1> QED
  BY <1>5, <1>6 DEF ToSet

-----------------------------------------------------------------------------
(* A delivery that the consumer works on names a registration.              *)
LEMMA HeldDelivery ==
    ASSUME TypeOK, NEW q \in Queues, held[q] # NoDelivery
    PROVE  held[q].id \in Ids /\ held[q].max \in Nat
BY DEF TypeOK, Delivery, NoDelivery

LEMMA SimInitInv == SimulationInit => SimInv
<1> SUFFICES ASSUME SimulationInit PROVE SimInv
  OBVIOUS
<1>1. <<>> \in Seq(Ids) /\ NoDelivery \in Delivery
  BY DEF NoDelivery, Delivery
<1>2. TypeOK
  BY <1>1, SimulationAssumption DEF SimulationInit, TypeOK
<1> QED
  BY <1>2 DEF SimulationInit, SimInv, HeldIsUnacked, BlockedIsAnswered, NothingLost

(* What a step leaves alone keeps the parts of the invariant about it.      *)
LEMMA SameDeliveries ==
    ASSUME HeldIsUnacked, UNCHANGED <<connected, held, unacked>>
    PROVE  HeldIsUnacked'
BY DEF HeldIsUnacked

LEMMA SameBlocks ==
    ASSUME BlockedIsAnswered, UNCHANGED <<record, upd, manual>>
    PROVE  BlockedIsAnswered'
BY DEF BlockedIsAnswered

LEMMA SameMessages ==
    ASSUME NothingLost, UNCHANGED <<ready, unacked, enqueued>>,
           \A id \in Ids : OnItsWay(id) => OnItsWay(id)', enqueued \subseteq Ids
    PROVE  NothingLost'
BY DEF NothingLost, Queued

(* The registration request.                                                *)
LEMMA PublishKeeps ==
    ASSUME SimInv, NEW id \in Ids, Publish(id),
           UNCHANGED <<processor, upd, updates, config, sent>>
    PROVE  /\ ready' \in [Queues -> Seq(Ids)] /\ unacked' = unacked
           /\ enqueued' \subseteq Ids /\ NothingLost'
<1> DEFINE q == QueueOf[id]
<1>0. q \in Queues
  BY SimulationAssumption
<1>1. TypeOK /\ NothingLost
  BY DEF SimInv
<1>2. \A i \in Ids : OnItsWay(i) => OnItsWay(i)'
  BY DEF OnItsWay, processor, sent
<1>3. CASE connected
  <2>1. /\ ready' = [ready EXCEPT ![q] = Append(@, id)]
        /\ enqueued' = enqueued \cup {id} /\ unacked' = unacked
    BY <1>3 DEF Publish
  <2>2. ready[q] \in Seq(Ids)
    BY <1>0, <1>1 DEF TypeOK
  <2>3. /\ Append(ready[q], id) \in Seq(Ids)
        /\ ToSet(Append(ready[q], id)) = ToSet(ready[q]) \cup {id}
    BY <2>2, AppendElements
  <2>4. ready' \in [Queues -> Seq(Ids)] /\ enqueued' \subseteq Ids
    BY <1>0, <1>1, <2>1, <2>3 DEF TypeOK
  <2>5. \A p \in Queues : ToSet(ready[p]) \subseteq ToSet(ready'[p])
    BY <1>0, <1>1, <2>1, <2>3 DEF TypeOK
  <2>6. id \in ToSet(ready'[q])
    BY <1>0, <1>1, <2>1, <2>3 DEF TypeOK
  <2>7. \A i \in Ids : QueueOf[i] \in Queues
    BY SimulationAssumption
  <2>8. NothingLost'
    <3>1. SUFFICES ASSUME NEW i \in enqueued' PROVE Queued(i)' \/ OnItsWay(i)'
      BY DEF NothingLost
    <3>2. CASE i = id
      BY <2>6, <3>2 DEF Queued
    <3>3. CASE i \in enqueued
      BY <1>1, <1>2, <2>1, <2>5, <2>7, <3>3 DEF NothingLost, Queued, TypeOK
    <3> QED
      BY <2>1, <3>2, <3>3
  <2> QED
    BY <2>1, <2>4, <2>8
<1>4. CASE ~connected
  <2>1. UNCHANGED <<ready, unacked, enqueued>>
    BY <1>4 DEF Publish, broker
  <2> QED
    BY <1>1, <1>2, <2>1, SameMessages DEF TypeOK
<1> QED
  BY <1>3, <1>4

LEMMA RegisterKeeps ==
    ASSUME SimInv, NEW id \in Ids,
           \/ Publish(id) /\ UNCHANGED record
           \/ Create(id) /\ UNCHANGED broker,
           reg' \in [Ids -> {"new", "half", "done"}],
           UNCHANGED <<processor, upd, updates, config, sent>>
    PROVE  SimInv'
<1>1. TypeOK /\ HeldIsUnacked /\ BlockedIsAnswered /\ NothingLost
  BY DEF SimInv
<1>2. UNCHANGED <<connected, consuming, held, counts, allowed, reset, timers,
                  upd, updates, limit, changes, automatic, manual>>
  BY DEF processor, config, sent
<1>3. CASE Publish(id) /\ UNCHANGED record
  <2>1. /\ ready' \in [Queues -> Seq(Ids)] /\ unacked' = unacked
        /\ enqueued' \subseteq Ids /\ NothingLost'
    BY <1>3, PublishKeeps
  <2>2. TypeOK'
    BY <1>1, <1>2, <1>3, <2>1 DEF TypeOK
  <2> QED
    BY <1>1, <1>2, <1>3, <2>1, <2>2, SameDeliveries, SameBlocks DEF SimInv
<1>4. CASE Create(id) /\ UNCHANGED broker
  <2>1. UNCHANGED <<ready, unacked, enqueued>>
    BY <1>4 DEF broker
  <2>2. record' = [record EXCEPT ![id] = "free"]
    BY <1>4 DEF Create
  <2>3. TypeOK'
    BY <1>1, <1>2, <2>1, <2>2 DEF TypeOK
  <2>4. BlockedIsAnswered'
    BY <1>1, <1>2, <2>2 DEF BlockedIsAnswered, TypeOK
  <2>5. NothingLost'
    BY <1>1, <1>2, <2>1, SameMessages DEF TypeOK, OnItsWay
  <2> QED
    BY <1>1, <1>2, <2>1, <2>3, <2>4, <2>5, SameDeliveries DEF SimInv
<1> QED
  BY <1>3, <1>4

LEMMA RegisterBeginKeeps == ASSUME SimInv, NEW id \in Ids, RegisterBegin(id) PROVE SimInv'
<1>1. reg' \in [Ids -> {"new", "half", "done"}]
  BY DEF SimInv, TypeOK, RegisterBegin
<1>2. /\ \/ Publish(id) /\ UNCHANGED record
         \/ Create(id) /\ UNCHANGED broker
      /\ UNCHANGED <<processor, upd, updates, config, sent>>
  BY DEF RegisterBegin
<1> QED
  BY <1>1, <1>2, RegisterKeeps

LEMMA RegisterEndKeeps == ASSUME SimInv, NEW id \in Ids, RegisterEnd(id) PROVE SimInv'
<1>1. reg' \in [Ids -> {"new", "half", "done"}]
  BY DEF SimInv, TypeOK, RegisterEnd
<1>2. /\ \/ Publish(id) /\ UNCHANGED record
         \/ Create(id) /\ UNCHANGED broker
      /\ UNCHANGED <<processor, upd, updates, config, sent>>
  BY DEF RegisterEnd
<1> QED
  BY <1>1, <1>2, RegisterKeeps

(* The manual update: the record is blocked before the status is sent, and  *)
(* the request that blocked it sends it.                                    *)
LEMMA UpdateFindKeeps == ASSUME SimInv, NEW id \in Ids, UpdateFind(id) PROVE SimInv'
<1>1. TypeOK /\ HeldIsUnacked /\ BlockedIsAnswered /\ NothingLost
  BY DEF SimInv
<1>2. UNCHANGED <<ready, unacked, enqueued, connected, consuming, held, counts,
                  allowed, reset, timers, record, reg, limit, changes, automatic, manual>>
  BY DEF UpdateFind, broker, processor, config, sent
<1>3. /\ upd[id] = "idle" /\ upd' = [upd EXCEPT ![id] = "found"]
      /\ updates' = [updates EXCEPT ![id] = @ + 1]
  BY DEF UpdateFind
<1>4. TypeOK'
  BY <1>1, <1>2, <1>3 DEF TypeOK
<1>5. \A i \in Ids : upd[i] = "blocked" => upd'[i] = "blocked"
  BY <1>1, <1>3 DEF TypeOK
<1>6. BlockedIsAnswered'
  BY <1>1, <1>2, <1>5 DEF BlockedIsAnswered
<1>7. NothingLost'
  BY <1>1, <1>2, <1>5, SameMessages DEF TypeOK, OnItsWay
<1> QED
  BY <1>1, <1>2, <1>4, <1>6, <1>7, SameDeliveries DEF SimInv

LEMMA BlockKeeps == ASSUME SimInv, NEW id \in Ids, Block(id) PROVE SimInv'
<1>1. TypeOK /\ HeldIsUnacked /\ BlockedIsAnswered /\ NothingLost
  BY DEF SimInv
<1>2. UNCHANGED <<ready, unacked, enqueued, connected, consuming, held, counts,
                  allowed, reset, timers, reg, updates, limit, changes, automatic, manual>>
  BY DEF Block, broker, processor, config, sent
<1>3. /\ upd' = [upd EXCEPT ![id] = "blocked"]
      /\ record' = [record EXCEPT ![id] = IF @ = "none" THEN @ ELSE "blocked"]
  BY DEF Block
<1>4. TypeOK'
  BY <1>1, <1>2, <1>3 DEF TypeOK
<1>5. \A i \in Ids : upd[i] = "blocked" \/ i = id => upd'[i] = "blocked"
  BY <1>1, <1>3 DEF TypeOK
<1>6. \A i \in Ids : i # id => record'[i] = record[i]
  BY <1>1, <1>3 DEF TypeOK
<1>7. BlockedIsAnswered'
  BY <1>1, <1>2, <1>5, <1>6 DEF BlockedIsAnswered
<1>8. NothingLost'
  BY <1>1, <1>2, <1>5, SameMessages DEF TypeOK, OnItsWay
<1> QED
  BY <1>1, <1>2, <1>4, <1>7, <1>8, SameDeliveries DEF SimInv

LEMMA UpdateSendKeeps == ASSUME SimInv, NEW id \in Ids, UpdateSend(id) PROVE SimInv'
<1>1. TypeOK /\ HeldIsUnacked /\ BlockedIsAnswered /\ NothingLost
  BY DEF SimInv
<1>2. UNCHANGED <<ready, unacked, enqueued, connected, consuming, held, counts,
                  allowed, reset, timers, record, reg, updates, limit, changes, automatic>>
  BY DEF UpdateSend, broker, processor, config
<1>3. /\ upd' = [upd EXCEPT ![id] = "idle"]
      /\ manual' = [manual EXCEPT ![id] = @ + 1]
  BY DEF UpdateSend
<1>4. TypeOK'
  BY <1>1, <1>2, <1>3 DEF TypeOK
<1>5. \A i \in Ids : \/ i = id /\ manual'[i] > 0
                     \/ i # id /\ manual'[i] = manual[i] /\ upd'[i] = upd[i]
  BY <1>1, <1>3 DEF TypeOK
<1>6. BlockedIsAnswered'
  BY <1>1, <1>2, <1>5 DEF BlockedIsAnswered
<1>7. NothingLost'
  BY <1>1, <1>2, <1>5, SameMessages DEF TypeOK, OnItsWay
<1> QED
  BY <1>1, <1>2, <1>4, <1>6, <1>7, SameDeliveries DEF SimInv

LEMMA SetVariablesKeeps ==
    ASSUME SimInv, NEW q \in Queues, NEW n \in Limits, SetVariables(q, n) PROVE SimInv'
<1>1. TypeOK /\ HeldIsUnacked /\ BlockedIsAnswered /\ NothingLost
  BY DEF SimInv
<1>2. UNCHANGED <<ready, unacked, enqueued, connected, consuming, held, counts, allowed,
                  reset, timers, record, reg, upd, updates, automatic, manual>>
  BY DEF SetVariables, broker, processor, requests, sent
<1>3. limit' = [limit EXCEPT ![q] = n] /\ changes' = changes + 1 /\ n \in Nat
  BY SimulationAssumption DEF SetVariables
<1>4. TypeOK'
  BY <1>1, <1>2, <1>3 DEF TypeOK
<1>5. NothingLost'
  BY <1>1, <1>2, SameMessages DEF TypeOK, OnItsWay
<1> QED
  BY <1>1, <1>2, <1>4, <1>5, SameDeliveries, SameBlocks DEF SimInv

-----------------------------------------------------------------------------
(* The consumer.  A message that is taken goes from the ready ones to the   *)
(* unacknowledged ones of the same queue.                                   *)
LEMMA ReceiveKeeps == ASSUME SimInv, NEW q \in Queues, Receive(q) PROVE SimInv'
<1>1. TypeOK /\ HeldIsUnacked /\ BlockedIsAnswered /\ NothingLost
  BY DEF SimInv
<1>2. UNCHANGED <<enqueued, connected, consuming, counts, allowed, reset, timers, record,
                  reg, upd, updates, limit, changes, automatic, manual>>
  BY DEF Receive, requests, config, sent
<1>3. /\ ready[q] # <<>>
      /\ held' = [held EXCEPT ![q] = [id |-> Head(ready[q]), max |-> limit[q]]]
      /\ ready' = [ready EXCEPT ![q] = Tail(@)]
      /\ unacked' = [unacked EXCEPT ![q] = Append(@, Head(ready[q]))]
  BY DEF Receive
<1>4. ready[q] \in Seq(Ids) /\ unacked[q] \in Seq(Ids) /\ limit[q] \in Nat
  BY <1>1 DEF TypeOK
<1>5. /\ Tail(ready[q]) \in Seq(Ids) /\ Head(ready[q]) \in Ids
      /\ ToSet(ready[q]) = {Head(ready[q])} \cup ToSet(Tail(ready[q]))
  BY <1>3, <1>4, TailElements
<1>6. /\ Append(unacked[q], Head(ready[q])) \in Seq(Ids)
      /\ ToSet(Append(unacked[q], Head(ready[q])))
           = ToSet(unacked[q]) \cup {Head(ready[q])}
  BY <1>4, <1>5, AppendElements
<1>7. [id |-> Head(ready[q]), max |-> limit[q]] \in Delivery
  BY <1>4, <1>5 DEF Delivery
<1>8. TypeOK'
  BY <1>1, <1>2, <1>3, <1>5, <1>6, <1>7 DEF TypeOK
<1>9. /\ ready'[q] = Tail(ready[q]) /\ unacked'[q] = Append(unacked[q], Head(ready[q]))
      /\ held'[q] = [id |-> Head(ready[q]), max |-> limit[q]]
      /\ \A p \in Queues \ {q} :
            ready'[p] = ready[p] /\ unacked'[p] = unacked[p] /\ held'[p] = held[p]
  BY <1>1, <1>3 DEF TypeOK
<1>10. HeldIsUnacked'
  <2>1. SUFFICES ASSUME NEW p \in Queues, connected', held'[p] # NoDelivery
                 PROVE  held'[p].id \in ToSet(unacked'[p])
    BY DEF HeldIsUnacked
  <2>2. CASE p = q
    <3>1. held'[q].id = Head(ready[q])
      BY <1>9
    <3>2. Head(ready[q]) \in ToSet(unacked'[q])
      BY <1>6, <1>9
    <3> QED
      BY <2>2, <3>1, <3>2
  <2>3. CASE p # q
    BY <1>1, <1>2, <1>9, <2>1, <2>3 DEF HeldIsUnacked
  <2> QED
    BY <2>2, <2>3
<1>11. \A p \in Queues : \A i :
          i \in ToSet(ready[p]) \/ i \in ToSet(unacked[p])
            => i \in ToSet(ready'[p]) \/ i \in ToSet(unacked'[p])
  <2>1. SUFFICES ASSUME NEW p \in Queues, NEW i,
                        i \in ToSet(ready[p]) \/ i \in ToSet(unacked[p])
                 PROVE  i \in ToSet(ready'[p]) \/ i \in ToSet(unacked'[p])
    OBVIOUS
  <2>2. CASE p = q
    BY <1>5, <1>6, <1>9, <2>1, <2>2
  <2>3. CASE p # q
    BY <1>9, <2>1, <2>3
  <2> QED
    BY <2>2, <2>3
<1>12. \A i \in Ids : QueueOf[i] \in Queues
  BY SimulationAssumption
<1>13. NothingLost'
  BY <1>1, <1>2, <1>11, <1>12 DEF NothingLost, Queued, OnItsWay, TypeOK
<1> QED
  BY <1>1, <1>2, <1>8, <1>10, <1>13, SameBlocks DEF SimInv

LEMMA GateKeeps == ASSUME SimInv, NEW q \in Queues, Gate(q) PROVE SimInv'
<1>1. TypeOK /\ HeldIsUnacked /\ BlockedIsAnswered /\ NothingLost
  BY DEF SimInv
<1>2. UNCHANGED <<ready, unacked, enqueued, connected, consuming, counts, reset, timers,
                  record, reg, upd, updates, limit, changes, automatic, manual>>
  BY DEF Gate, broker, requests, config, sent
<1>3. /\ allowed' = [allowed EXCEPT ![q] = FALSE]
      /\ held' = [held EXCEPT ![q] = NoDelivery]
  BY DEF Gate
<1>4. NoDelivery \in Delivery
  BY DEF NoDelivery, Delivery
<1>5. TypeOK'
  BY <1>1, <1>2, <1>3, <1>4 DEF TypeOK
<1>6. HeldIsUnacked'
  BY <1>1, <1>2, <1>3 DEF HeldIsUnacked, TypeOK
<1>7. NothingLost'
  BY <1>1, <1>2, SameMessages DEF TypeOK, OnItsWay
<1> QED
  BY <1>1, <1>2, <1>5, <1>6, <1>7, SameBlocks DEF SimInv

(* An acknowledgement takes only the message it is for off the queue.       *)
LEMMA AckTakesOne ==
    ASSUME TypeOK, NEW q \in Queues, NEW id \in Ids, Ack(q, id),
           connected => id \in ToSet(unacked[q])
    PROVE  /\ unacked' \in [Queues -> Seq(Ids)]
           /\ \A p \in Queues \ {q} : unacked'[p] = unacked[p]
           /\ \A i \in Ids \ {id} : i \in ToSet(unacked[q]) => i \in ToSet(unacked'[q])
<1>1. unacked[q] \in Seq(Ids)
  BY DEF TypeOK
<1>2. CASE ~connected
  BY <1>2 DEF Ack, TypeOK
<1>3. CASE connected
  <2>1. \E n \in DOMAIN unacked[q] : unacked[q][n] = id
    BY <1>3 DEF ToSet
  <2>2. Tag(q, id) \in DOMAIN unacked[q] /\ unacked[q][Tag(q, id)] = id
    BY <2>1 DEF Tag
  <2>3. Tag(q, id) \in 1 .. Len(unacked[q])
    BY <1>1, <2>2
  <2>4. /\ RemoveAt(unacked[q], Tag(q, id)) \in Seq(Ids)
        /\ \A i \in ToSet(unacked[q]) :
              i # id => i \in ToSet(RemoveAt(unacked[q], Tag(q, id)))
    BY <1>1, <2>2, <2>3, RemoveElements
  <2>5. unacked' = [unacked EXCEPT ![q] = RemoveAt(unacked[q], Tag(q, id))]
    BY <1>3 DEF Ack
  <2> HIDE DEF Tag, RemoveAt
  <2> QED
    BY <2>4, <2>5 DEF TypeOK
<1> QED
  BY <1>2, <1>3

(* What is acknowledged has its callback scheduled or was blocked, and then *)
(* the operator who blocked it answers.                                     *)
LEMMA ConsumeKeeps == ASSUME SimInv, NEW q \in Queues, Consume(q) PROVE SimInv'
<1>1. TypeOK /\ HeldIsUnacked /\ BlockedIsAnswered /\ NothingLost
  BY DEF SimInv
<1>2. UNCHANGED <<ready, enqueued, connected, consuming, allowed, reset,
                  reg, upd, updates, limit, changes, automatic, manual>>
  BY DEF Consume, config, sent
<1>3. held[q] # NoDelivery
  BY DEF Consume
<1>4. PICK id \in Ids : id = held[q].id
  BY <1>1, <1>3, HeldDelivery
<1>5. /\ Ack(q, id)
      /\ held' = [held EXCEPT ![q] = NoDelivery]
      /\ record' = [record EXCEPT ![id] = "none"]
      /\ \/ record[id] = "blocked" /\ UNCHANGED <<counts, timers>>
         \/ /\ counts' = [counts EXCEPT ![q] = @ + 1]
            /\ timers' = [timers EXCEPT ![id] = Counted(@)]
  BY <1>4 DEF Consume
<1>6. connected => id \in ToSet(unacked[q])
  BY <1>1, <1>3, <1>4 DEF HeldIsUnacked
<1>7. /\ unacked' \in [Queues -> Seq(Ids)]
      /\ \A p \in Queues \ {q} : unacked'[p] = unacked[p]
      /\ \A i \in Ids \ {id} : i \in ToSet(unacked[q]) => i \in ToSet(unacked'[q])
  BY <1>1, <1>5, <1>6, AckTakesOne
<1>8. NoDelivery \in Delivery
  BY DEF NoDelivery, Delivery
<1>9. \A n \in Nat : Counted(n) \in Nat /\ Counted(n) > 0 /\ Counted(n) >= n
  BY SimulationAssumption DEF Counted
<1>10. counts' \in [Queues -> Nat] /\ timers' \in [Ids -> Nat]
  <2>1. timers[id] \in Nat /\ counts[q] \in Nat
    BY <1>1 DEF TypeOK
  <2>2. Counted(timers[id]) \in Nat /\ counts[q] + 1 \in Nat
    BY <1>9, <2>1
  <2>3. counts \in [Queues -> Nat] /\ timers \in [Ids -> Nat]
    BY <1>1 DEF TypeOK
  <2>4. CASE UNCHANGED <<counts, timers>>
    BY <2>3, <2>4
  <2>5. CASE /\ counts' = [counts EXCEPT ![q] = @ + 1]
             /\ timers' = [timers EXCEPT ![id] = Counted(@)]
    BY <2>2, <2>3, <2>5
  <2> QED
    BY <1>5, <2>4, <2>5
<1>11. TypeOK'
  BY <1>1, <1>2, <1>5, <1>7, <1>8, <1>10 DEF TypeOK
<1>12. HeldIsUnacked'
  <2>1. \A p \in Queues \ {q} : held'[p] = held[p]
    BY <1>1, <1>5 DEF TypeOK
  <2>2. held'[q] = NoDelivery
    BY <1>1, <1>5 DEF TypeOK
  <2> QED
    BY <1>1, <1>2, <1>7, <2>1, <2>2 DEF HeldIsUnacked
<1>13. BlockedIsAnswered'
  BY <1>1, <1>2, <1>5 DEF BlockedIsAnswered, TypeOK
<1>14. \A i \in Ids : timers[i] > 0 => timers'[i] > 0
  <2>1. timers[id] \in Nat /\ Counted(timers[id]) > 0
    BY <1>1, <1>9 DEF TypeOK
  <2> QED
    BY <1>1, <1>5, <2>1 DEF TypeOK
<1>15. OnItsWay(id)'
  <2>1. CASE record[id] = "blocked"
    BY <1>1, <1>2, <2>1 DEF BlockedIsAnswered, OnItsWay
  <2>2. CASE timers' = [timers EXCEPT ![id] = Counted(@)]
    <3>1. timers[id] \in Nat /\ timers'[id] = Counted(timers[id])
      BY <1>1, <2>2 DEF TypeOK
    <3> QED
      BY <1>9, <3>1 DEF OnItsWay
  <2> QED
    BY <1>5, <2>1, <2>2
<1>16. \A i \in Ids : QueueOf[i] \in Queues
  BY SimulationAssumption
<1>17. NothingLost'
  <2>1. SUFFICES ASSUME NEW i \in enqueued, i # id PROVE Queued(i)' \/ OnItsWay(i)'
    BY <1>2, <1>15 DEF NothingLost
  <2>2. i \in Ids /\ (Queued(i) \/ OnItsWay(i))
    BY <1>1 DEF NothingLost, TypeOK
  <2>3. CASE OnItsWay(i)
    BY <1>2, <1>14, <2>2, <2>3 DEF OnItsWay
  <2>4. CASE Queued(i)
    BY <1>2, <1>7, <1>16, <2>1, <2>2, <2>4 DEF Queued
  <2> QED
    BY <2>2, <2>3, <2>4
<1> QED
  BY <1>11, <1>12, <1>13, <1>17 DEF SimInv

LEMMA BuildEventUpdateKeeps ==
    ASSUME SimInv, NEW id \in Ids, BuildEventUpdate(id) PROVE SimInv'
<1>1. TypeOK /\ HeldIsUnacked /\ BlockedIsAnswered /\ NothingLost
  BY DEF SimInv
<1>2. UNCHANGED <<ready, unacked, enqueued, connected, consuming, held, counts, allowed,
                  reset, record, reg, upd, updates, limit, changes, manual>>
  BY DEF BuildEventUpdate, broker, requests, config
<1>3. /\ timers[id] > 0 /\ timers' = [timers EXCEPT ![id] = @ - 1]
      /\ automatic' = [automatic EXCEPT ![id] = Counted(@)]
  BY DEF BuildEventUpdate
<1>4. \A n \in Nat : Counted(n) \in Nat /\ Counted(n) > 0
  BY SimulationAssumption DEF Counted
<1>5. timers[id] \in Nat /\ timers[id] - 1 \in Nat /\ automatic[id] \in Nat
  BY <1>1, <1>3 DEF TypeOK
<1>6. timers' \in [Ids -> Nat] /\ automatic' \in [Ids -> Nat]
  BY <1>1, <1>3, <1>4, <1>5 DEF TypeOK
<1>7. TypeOK'
  BY <1>1, <1>2, <1>6 DEF TypeOK
<1>8. \A i \in Ids : \/ i = id /\ automatic'[i] > 0
                     \/ i # id /\ automatic'[i] = automatic[i] /\ timers'[i] = timers[i]
  BY <1>1, <1>3, <1>4, <1>5 DEF TypeOK
<1>9. NothingLost'
  BY <1>1, <1>2, <1>8, SameMessages DEF TypeOK, OnItsWay
<1> QED
  BY <1>1, <1>2, <1>7, <1>9, SameDeliveries, SameBlocks DEF SimInv

-----------------------------------------------------------------------------
(* The reset loop and the connection.                                       *)
LEMMA ResetMessageCountsKeeps == ASSUME SimInv, ResetMessageCounts PROVE SimInv'
<1>1. TypeOK /\ HeldIsUnacked /\ BlockedIsAnswered /\ NothingLost
  BY DEF SimInv
<1>2. UNCHANGED <<ready, unacked, enqueued, connected, consuming, held, timers,
                  record, reg, upd, updates, limit, changes, automatic, manual>>
  BY DEF ResetMessageCounts, broker, requests, config, sent
<1>3. /\ counts' = [q \in Queues |-> 0] /\ allowed' = [q \in Queues |-> TRUE]
      /\ reset' \in {"idle", "close", "connect"}
  BY DEF ResetMessageCounts
<1>4. TypeOK'
  BY <1>1, <1>2, <1>3 DEF TypeOK
<1>5. NothingLost'
  BY <1>1, <1>2, SameMessages DEF TypeOK, OnItsWay
<1> QED
  BY <1>1, <1>2, <1>4, <1>5, SameDeliveries, SameBlocks DEF SimInv

(* A channel that closes gives the broker every unacknowledged message back *)
(* and acknowledges none.                                                   *)
LEMMA CloseChannelKeeps ==
    ASSUME SimInv, CloseChannel, reset' \in {"idle", "close", "connect"},
           UNCHANGED <<held, counts, allowed, timers, requests, config, sent>>
    PROVE  SimInv'
<1>1. TypeOK /\ HeldIsUnacked /\ BlockedIsAnswered /\ NothingLost
  BY DEF SimInv
<1>2. UNCHANGED <<enqueued, held, counts, allowed, timers, record, reg, upd, updates,
                  limit, changes, automatic, manual>>
  BY DEF CloseChannel, requests, config, sent
<1>3. /\ connected' = FALSE /\ consuming' = {}
      /\ ready' = [q \in Queues |-> unacked[q] \o ready[q]]
      /\ unacked' = [q \in Queues |-> <<>>]
  BY DEF CloseChannel
<1>4. \A q \in Queues :
          /\ unacked[q] \o ready[q] \in Seq(Ids)
          /\ ToSet(unacked[q] \o ready[q]) = ToSet(unacked[q]) \cup ToSet(ready[q])
  BY <1>1, ConcatElements DEF TypeOK
<1>5. <<>> \in Seq(Ids)
  OBVIOUS
<1>6. TypeOK'
  BY <1>1, <1>2, <1>3, <1>4, <1>5 DEF TypeOK
<1>7. HeldIsUnacked'
  BY <1>3 DEF HeldIsUnacked
<1>8. \A q \in Queues : ToSet(ready'[q]) = ToSet(unacked[q]) \cup ToSet(ready[q])
  BY <1>3, <1>4
<1>9. \A i \in Ids : QueueOf[i] \in Queues
  BY SimulationAssumption
<1>10. NothingLost'
  BY <1>1, <1>2, <1>8, <1>9 DEF NothingLost, Queued, OnItsWay, TypeOK
<1> QED
  BY <1>1, <1>2, <1>6, <1>7, <1>10, SameBlocks DEF SimInv

LEMMA ReconnectOpenKeeps == ASSUME SimInv, ReconnectOpen PROVE SimInv'
<1>1. TypeOK /\ HeldIsUnacked /\ BlockedIsAnswered /\ NothingLost
  BY DEF SimInv
<1>2. UNCHANGED <<ready, unacked, enqueued, counts, allowed, timers,
                  record, reg, upd, updates, limit, changes, automatic, manual>>
  BY DEF ReconnectOpen, broker, requests, config, sent
<1>3. /\ reset' = "idle" /\ connected' = TRUE /\ consuming' \subseteq Queues
      /\ held' = [q \in Queues |-> NoDelivery]
  BY DEF ReconnectOpen
<1>4. NoDelivery \in Delivery
  BY DEF NoDelivery, Delivery
<1>5. TypeOK'
  BY <1>1, <1>2, <1>3, <1>4 DEF TypeOK
<1>6. HeldIsUnacked'
  BY <1>3 DEF HeldIsUnacked
<1>7. NothingLost'
  BY <1>1, <1>2, SameMessages DEF TypeOK, OnItsWay
<1> QED
  BY <1>1, <1>2, <1>5, <1>6, <1>7, SameBlocks DEF SimInv

LEMMA ReconnectFailsKeeps == ASSUME SimInv, ReconnectFails PROVE SimInv'
<1>1. TypeOK /\ HeldIsUnacked /\ BlockedIsAnswered /\ NothingLost
  BY DEF SimInv
<1>2. UNCHANGED <<ready, unacked, enqueued, connected, consuming, held, counts, allowed,
                  timers, record, reg, upd, updates, limit, changes, automatic, manual>>
  BY DEF ReconnectFails, broker, requests, config, sent
<1>3. reset' = "idle"
  BY DEF ReconnectFails
<1>4. TypeOK'
  BY <1>1, <1>2, <1>3 DEF TypeOK
<1>5. NothingLost'
  BY <1>1, <1>2, SameMessages DEF TypeOK, OnItsWay
<1> QED
  BY <1>1, <1>2, <1>4, <1>5, SameDeliveries, SameBlocks DEF SimInv

-----------------------------------------------------------------------------
LEMMA SimStepInv == SimInv /\ [SimulationNext]_vars => SimInv'
<1> SUFFICES ASSUME SimInv, [SimulationNext]_vars PROVE SimInv'
  OBVIOUS
<1>1. ASSUME NEW q \in Queues, Receive(q) \/ Gate(q) \/ Consume(q) PROVE SimInv'
  BY <1>1, ReceiveKeeps, GateKeeps, ConsumeKeeps
<1>2. ASSUME NEW id \in Ids, BuildEventUpdate(id) PROVE SimInv'
  BY <1>2, BuildEventUpdateKeeps
<1>3. CASE ResetMessageCounts
  BY <1>3, ResetMessageCountsKeeps
<1>4. CASE ReconnectClose
  <2>1. reset' = "connect" /\ CloseChannel
        /\ UNCHANGED <<held, counts, allowed, timers, requests, config, sent>>
    BY <1>4 DEF ReconnectClose
  <2> QED
    BY <2>1, CloseChannelKeeps
<1>5. CASE ReconnectOpen
  BY <1>5, ReconnectOpenKeeps
<1>6. CASE ReconnectFails
  BY <1>6, ReconnectFailsKeeps
<1>7. CASE BrokerCloses
  <2>1. CloseChannel /\ reset' = reset
        /\ UNCHANGED <<held, counts, allowed, timers, requests, config, sent>>
    BY <1>7 DEF BrokerCloses
  <2>2. reset' \in {"idle", "close", "connect"}
    BY <2>1 DEF SimInv, TypeOK
  <2> QED
    BY <2>1, <2>2, CloseChannelKeeps
<1>8. ASSUME NEW id \in Ids, RegisterBegin(id) \/ RegisterEnd(id) PROVE SimInv'
  BY <1>8, RegisterBeginKeeps, RegisterEndKeeps
<1>9. ASSUME NEW id \in Ids, UpdateFind(id) \/ Block(id) \/ UpdateSend(id) PROVE SimInv'
  BY <1>9, UpdateFindKeeps, BlockKeeps, UpdateSendKeeps
<1>10. ASSUME NEW q \in Queues, NEW n \in Limits, SetVariables(q, n) PROVE SimInv'
  BY <1>10, SetVariablesKeeps
<1>11. CASE UNCHANGED vars
  <2>1. UNCHANGED <<ready, unacked, enqueued, connected, consuming, held, counts, allowed,
                    reset, timers, record, reg, upd, updates, limit, changes,
                    automatic, manual>>
    BY <1>11 DEF vars, broker, processor, requests, config, sent
  <2>2. TypeOK /\ HeldIsUnacked /\ BlockedIsAnswered /\ NothingLost
    BY DEF SimInv
  <2>3. TypeOK'
    BY <2>1, <2>2 DEF TypeOK
  <2>4. NothingLost'
    BY <2>1, <2>2, SameMessages DEF TypeOK, OnItsWay
  <2> QED
    BY <2>1, <2>2, <2>3, <2>4, SameDeliveries, SameBlocks DEF SimInv
<1> QED
  BY <1>1, <1>2, <1>3, <1>4, <1>5, <1>6, <1>7, <1>8, <1>9, <1>10, <1>11
     DEF SimulationNext, Processor, HandleRequests

LEMMA SimInvHolds == SimulationSpec => []SimInv
<1>1. SimulationInit => SimInv
  BY SimInitInv
<1>2. SimInv /\ [SimulationNext]_vars => SimInv'
  BY SimStepInv
<1> QED
  BY <1>1, <1>2, PTL DEF SimulationSpec

(* The simulation's queues, counters, records and requests keep their       *)
(* types.                                                                   *)
THEOREM SimulationTypes == SimulationSpec => []TypeOK
<1>1. SimInv => TypeOK
  BY DEF SimInv
<1> QED
  BY <1>1, SimInvHolds, PTL

(* A registration that reached its queue is never lost, for any number of   *)
(* queues, registrations and manual updates, whatever the limits are        *)
(* changed to and however often the broker or the reset loop closes the     *)
(* channel between a delivery and its acknowledgement.                      *)
THEOREM RegistrationsAreKept == SimulationSpec => []NoRegistrationLost
<1>1. SimInv => NoRegistrationLost
  <2>1. SUFFICES ASSUME SimInv, NEW id \in enqueued
                 PROVE  \/ id \in ToSet(ready[QueueOf[id]] \o unacked[QueueOf[id]])
                        \/ OnItsWay(id)
    BY DEF NoRegistrationLost, OnItsWay
  <2>2. id \in Ids /\ QueueOf[id] \in Queues
    BY <2>1, SimulationAssumption DEF SimInv, TypeOK
  <2>3. ready[QueueOf[id]] \in Seq(Ids) /\ unacked[QueueOf[id]] \in Seq(Ids)
    BY <2>1, <2>2 DEF SimInv, TypeOK
  <2>4. ToSet(ready[QueueOf[id]] \o unacked[QueueOf[id]])
          = ToSet(ready[QueueOf[id]]) \cup ToSet(unacked[QueueOf[id]])
    BY <2>3, ConcatElements
  <2> QED
    BY <2>1, <2>4 DEF SimInv, NothingLost, Queued
<1> QED
  BY <1>1, SimInvHolds, PTL
=============================================================================
