------------------------------- MODULE Review --------------------------------
(***************************************************************************)
(* The review service: a user reviews a product variant at most once.      *)
(*                                                                         *)
(* The reviews are documents without a unique index: createReview probes   *)
(* for a review of the user and variant and inserts in a later call, and   *)
(* an update sets every field with a call of its own.  Each call is a      *)
(* step.                                                                   *)
(***************************************************************************)
EXTENDS Shop

CONSTANTS
    ProductOf,      \* ProductOf[v]: product of the variant
    Contents,       \* values of a field: body, rating, visibility
    MaxReviews      \* bound: review ids ever made

(* The fields of UpdateReviewInput, in the order they are written.          *)
ReviewFields == {"body", "rating", "is_visible"}
FieldBefore == [f \in ReviewFields |->
                  CASE f = "body" -> {}
                    [] f = "rating" -> {"body"}
                    [] f = "is_visible" -> {"body", "rating"}]

(* A review document.                                                       *)
ReviewDocs == [user : Users, variant : Variants,
               product : {ProductOf[v] : v \in Variants},
               fields : [ReviewFields -> Contents]]

ASSUME ReviewAssumption ==
    /\ MaxReviews \in Nat /\ DOMAIN ProductOf = Variants
    /\ None \notin ReviewDocs

VARIABLES
    reviewUsers, reviewVariants,  \* the replicas
    review,         \* review[i]: the review with id i, or None
    reviewIssued,   \* review ids made so far: 1 .. reviewIssued
    reviewReq,      \* reviewReq[r]: the request r in progress
    reviewTwice     \* user and variant whose creations overlapped (history)

reviewVars == <<reviewUsers, reviewVariants, review, reviewIssued, reviewReq,
                reviewTwice>>

-----------------------------------------------------------------------------
ReviewIds == 1 .. MaxReviews
Fieldless == [f \in {} |-> None]

(* set: the fields to write and their values; those not yet written.        *)
ReviewIdle == [pc |-> "idle", user |-> None, variant |-> None, id |-> 0,
               set |-> Fieldless]

Exists(i) == review[i] # None
PairOf(i) == <<review[i].user, review[i].variant>>

ReviewTypeOK ==
    /\ reviewUsers \subseteq Users /\ reviewVariants \subseteq Variants
    /\ reviewIssued \in 0 .. MaxReviews
    /\ \A i \in ReviewIds : Exists(i) =>
          /\ i <= reviewIssued
          /\ review[i].user \in reviewUsers
          /\ review[i].variant \in reviewVariants
          /\ review[i].product = ProductOf[review[i].variant]
          /\ review[i].fields \in [ReviewFields -> Contents]
    /\ \A r \in Requests :
          LET q == reviewReq[r] IN
          /\ q.pc \in {"idle", "insert", "set", "delete"}
          /\ q.user \in Users \cup {None}
          /\ q.variant \in Variants \cup {None}
          /\ q.id \in 0 .. reviewIssued
          /\ DOMAIN q.set \subseteq ReviewFields
          /\ \A f \in DOMAIN q.set : q.set[f] \in Contents
    /\ reviewTwice \subseteq Users \X Variants

ReviewInit ==
    /\ reviewUsers = {} /\ reviewVariants = {}
    /\ review = [i \in ReviewIds |-> None]
    /\ reviewIssued = 0
    /\ reviewReq = [r \in Requests |-> ReviewIdle]
    /\ reviewTwice = {}

-----------------------------------------------------------------------------
(* Events: upserts, so one that is delivered again changes nothing.         *)
ReviewUserCreated(u) ==
    /\ reviewUsers' = reviewUsers \cup {u}
    /\ UNCHANGED <<reviewVariants, review, reviewIssued, reviewReq, reviewTwice>>

ReviewVariantCreated(v) ==
    /\ reviewVariants' = reviewVariants \cup {v}
    /\ UNCHANGED <<reviewUsers, review, reviewIssued, reviewReq, reviewTwice>>

-----------------------------------------------------------------------------
ReviewGoto(r, q) == reviewReq' = [reviewReq EXCEPT ![r] = q]

Inserting(u, v) ==
    {r \in Requests : reviewReq[r].pc = "insert" /\ reviewReq[r].user = u
                                                 /\ reviewReq[r].variant = v}

(* IdFree: the probe looks for the id of the new review.                    *)
IdFree(u, v) == \A i \in ReviewIds : i > reviewIssued => ~Exists(i)

(* reviewExistsForPair, by user and variant.                                *)
PairFree(u, v) == \A i \in ReviewIds : Exists(i) => PairOf(i) # <<u, v>>

(* CreateReviewUnchecked: the variant is not looked up.                     *)
CreateReviewUnchecked(r, u, v, fields) ==
    /\ reviewReq[r].pc = "idle"
    /\ u \in reviewUsers
    /\ PairFree(u, v)
    /\ ReviewGoto(r, [ReviewIdle EXCEPT !.pc = "insert", !.user = u,
                                        !.variant = v, !.set = fields])
    /\ UNCHANGED <<reviewUsers, reviewVariants, review, reviewIssued, reviewTwice>>

(* createReview: variant and user are known, no review of the pair exists.  *)
CreateReview(r, u, v, fields) ==
    /\ reviewReq[r].pc = "idle"
    /\ v \in reviewVariants /\ u \in reviewUsers
    /\ PairFree(u, v)
    /\ ReviewGoto(r, [ReviewIdle EXCEPT !.pc = "insert", !.user = u,
                                        !.variant = v, !.set = fields])
    /\ reviewTwice' = IF Inserting(u, v) # {}
                      THEN reviewTwice \cup {<<u, v>>} ELSE reviewTwice
    /\ UNCHANGED <<reviewUsers, reviewVariants, review, reviewIssued>>

InsertReview(r) ==
    LET q == reviewReq[r] IN
    /\ q.pc = "insert"
    /\ reviewIssued < MaxReviews
    /\ reviewIssued' = reviewIssued + 1
    /\ review' = [review EXCEPT ![reviewIssued + 1] =
                     [user |-> q.user, variant |-> q.variant,
                      product |-> ProductOf[q.variant], fields |-> q.set]]
    /\ ReviewGoto(r, ReviewIdle)
    /\ UNCHANGED <<reviewUsers, reviewVariants, reviewTwice>>

(* updateReview and deleteReview look the review up for the authorization.  *)
UpdateReview(r, i, fields) ==
    /\ reviewReq[r].pc = "idle" /\ Exists(i)
    /\ ReviewGoto(r, [ReviewIdle EXCEPT !.pc = "set", !.id = i,
                         !.user = review[i].user,
                         !.variant = review[i].variant, !.set = fields])
    /\ UNCHANGED <<reviewUsers, reviewVariants, review, reviewIssued, reviewTwice>>

(* The request after the field f was written.                               *)
FieldWritten(q, f) ==
    LET rest == DOMAIN q.set \ {f}
    IN  IF rest = {} THEN ReviewIdle
        ELSE [q EXCEPT !.set = [g \in rest |-> q.set[g]]]

(* UpsertReviewField: what the update does not find, it inserts.            *)
UpsertReviewField(r, f) ==
    LET q == reviewReq[r] IN
    /\ q.pc = "set"
    /\ f \in DOMAIN q.set /\ DOMAIN q.set \cap FieldBefore[f] = {}
    /\ review' = IF Exists(q.id)
                 THEN [review EXCEPT ![q.id].fields[f] = q.set[f]]
                 ELSE [review EXCEPT ![q.id] =
                          [user |-> q.user, variant |-> q.variant,
                           product |-> ProductOf[q.variant],
                           fields |-> [g \in ReviewFields |-> q.set[f]]]]
    /\ ReviewGoto(r, FieldWritten(q, f))
    /\ UNCHANGED <<reviewUsers, reviewVariants, reviewIssued, reviewTwice>>

SetReviewField(r, f) ==
    LET q == reviewReq[r] IN
    /\ q.pc = "set"
    /\ f \in DOMAIN q.set /\ DOMAIN q.set \cap FieldBefore[f] = {}
    /\ review' = IF Exists(q.id)
                 THEN [review EXCEPT ![q.id].fields[f] = q.set[f]] ELSE review
    /\ ReviewGoto(r, FieldWritten(q, f))
    /\ UNCHANGED <<reviewUsers, reviewVariants, reviewIssued, reviewTwice>>

DeleteReview(r, i) ==
    /\ reviewReq[r].pc = "idle" /\ Exists(i)
    /\ ReviewGoto(r, [ReviewIdle EXCEPT !.pc = "delete", !.id = i])
    /\ UNCHANGED <<reviewUsers, reviewVariants, review, reviewIssued, reviewTwice>>

DeleteOne(r) ==
    /\ reviewReq[r].pc = "delete"
    /\ review' = [review EXCEPT ![reviewReq[r].id] = None]
    /\ ReviewGoto(r, ReviewIdle)
    /\ UNCHANGED <<reviewUsers, reviewVariants, reviewIssued, reviewTwice>>

(* A call fails: the request ends, fields it has written stay written.      *)
ReviewRequestFails(r) ==
    /\ reviewReq[r].pc # "idle"
    /\ ReviewGoto(r, ReviewIdle)
    /\ UNCHANGED <<reviewUsers, reviewVariants, review, reviewIssued, reviewTwice>>

-----------------------------------------------------------------------------
ReviewRequest(r) ==
    \/ \E u \in Users, v \in Variants : \E fields \in [ReviewFields -> Contents] :
          CreateReview(r, u, v, fields)
    \/ \E i \in ReviewIds : \E F \in SUBSET ReviewFields \ {{}} :
          \E fields \in [F -> Contents] : UpdateReview(r, i, fields)
    \/ \E i \in ReviewIds : DeleteReview(r, i)
    \/ \E f \in ReviewFields : SetReviewField(r, f)
    \/ InsertReview(r) \/ DeleteOne(r) \/ ReviewRequestFails(r)

ReviewNext ==
    \/ \E u \in Users : ReviewUserCreated(u)
    \/ \E v \in Variants : ReviewVariantCreated(v)
    \/ \E r \in Requests : ReviewRequest(r)

ReviewSpec == ReviewInit /\ [][ReviewNext]_reviewVars

-----------------------------------------------------------------------------
(* Two reviews of a variant by a user exist only if their createReview      *)
(* requests overlapped: the probe of InsertReview keeps out every later one *)
(* whatever was updated and deleted in between, and nothing more.           *)
ReviewedOnce ==
    \A i, j \in ReviewIds :
        i # j /\ Exists(i) /\ Exists(j) /\ PairOf(i) = PairOf(j)
            => PairOf(i) \in reviewTwice

(* The reviews implement Lifecycle: one that was deleted while an update of *)
(* it was in progress stays deleted, and an update moves no review to       *)
(* another user or variant.                                                 *)
ReviewLife == INSTANCE Lifecycle WITH
    Ids <- ReviewIds,
    Subjects <- Users \X Variants,
    life <- [i \in ReviewIds |-> IF Exists(i) THEN "present"
                 ELSE IF i <= reviewIssued THEN "gone" ELSE "absent"],
    about <- [i \in ReviewIds |-> IF Exists(i) THEN PairOf(i) ELSE None]

ReviewsNeverReturn == ReviewLife!Spec
=============================================================================
