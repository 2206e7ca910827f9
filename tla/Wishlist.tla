------------------------------ MODULE Wishlist -------------------------------
(***************************************************************************)
(* The wishlist service: named lists of product variants.  An update       *)
(* replaces the variants with one call and the name with another; between  *)
(* its calls other requests run, and a call that fails leaves what the     *)
(* earlier one wrote.                                                      *)
(***************************************************************************)
EXTENDS Shop

CONSTANTS
    Names,          \* names of wishlists
    MaxWishlists    \* bound: wishlist ids ever made

(* A wishlist document.                                                     *)
WishlistDocs == [user : Users, variants : SUBSET Variants, name : Names]

ASSUME WishlistAssumption ==
    /\ MaxWishlists \in Nat
    /\ None \notin Names
    /\ \A variants \in SUBSET Variants : variants # None
    /\ None \notin WishlistDocs

VARIABLES
    wishUsers, wishVariants,   \* the replicas
    wishlist,       \* wishlist[i]: the wishlist with id i, or None
    wishIssued,     \* wishlist ids made so far: 1 .. wishIssued
    wishReq         \* wishReq[r]: the request r in progress

wishVars == <<wishUsers, wishVariants, wishlist, wishIssued, wishReq>>

-----------------------------------------------------------------------------
WishlistIds == 1 .. MaxWishlists
Listed(i) == wishlist[i] # None

(* A request: its wishlist as it was fetched, what it asks for (None: left  *)
(* alone), and whether it had the wishlist to itself so far (history).      *)
WishIdle == [pc |-> "idle", id |-> 0, user |-> None, fetched |-> None,
             variants |-> None, name |-> None, alone |-> TRUE]

WishlistTypeOK ==
    /\ wishUsers \subseteq Users /\ wishVariants \subseteq Variants
    /\ wishIssued \in 0 .. MaxWishlists
    /\ \A i \in WishlistIds : Listed(i) =>
          /\ i <= wishIssued
          /\ wishlist[i].user \in wishUsers
          /\ wishlist[i].variants \subseteq wishVariants
          /\ wishlist[i].name \in Names
    /\ \A r \in Requests :
          LET q == wishReq[r] IN
          /\ q.pc \in {"idle", "insert", "variants", "name", "refetch", "delete"}
          /\ q.id \in 0 .. wishIssued
          /\ q.user \in Users \cup {None}
          /\ q.variants # None => q.variants \subseteq Variants
          /\ q.name \in Names \cup {None}
          /\ q.alone \in BOOLEAN

WishlistInit ==
    /\ wishUsers = {} /\ wishVariants = {}
    /\ wishlist = [i \in WishlistIds |-> None]
    /\ wishIssued = 0
    /\ wishReq = [r \in Requests |-> WishIdle]

-----------------------------------------------------------------------------
(* Events: an insert that finds the document changes nothing.               *)
WishlistUserCreated(u) ==
    /\ wishUsers' = wishUsers \cup {u}
    /\ UNCHANGED <<wishVariants, wishlist, wishIssued, wishReq>>

WishlistVariantCreated(v) ==
    /\ wishVariants' = wishVariants \cup {v}
    /\ UNCHANGED <<wishUsers, wishlist, wishIssued, wishReq>>

-----------------------------------------------------------------------------
WishGoto(r, q) == wishReq' = [wishReq EXCEPT ![r] = q]
WishFrame == UNCHANGED <<wishUsers, wishVariants, wishIssued>>

(* The requests on a wishlist; a new one ends the solitude of all of them.  *)
On(i) == {r \in Requests : wishReq[r].pc # "idle" /\ wishReq[r].id = i}
WishStart(r, q) ==
    /\ wishReq[r].pc = "idle"
    /\ wishReq' = [s \in Requests |->
          IF s = r THEN [q EXCEPT !.alone = On(q.id) = {}]
          ELSE IF s \in On(q.id) THEN [wishReq[s] EXCEPT !.alone = FALSE]
          ELSE wishReq[s]]
    /\ UNCHANGED wishlist
    /\ WishFrame

CreateWishlist(r, u, variants, name) ==
    /\ variants \subseteq wishVariants /\ u \in wishUsers
    /\ WishStart(r, [WishIdle EXCEPT !.pc = "insert", !.user = u,
                                     !.variants = variants, !.name = name])

InsertWishlist(r) ==
    LET q == wishReq[r] IN
    /\ q.pc = "insert"
    /\ wishIssued < MaxWishlists
    /\ wishIssued' = wishIssued + 1
    /\ wishlist' = [wishlist EXCEPT ![wishIssued + 1] =
                       [user |-> q.user, variants |-> q.variants, name |-> q.name]]
    /\ WishGoto(r, WishIdle)
    /\ UNCHANGED <<wishUsers, wishVariants>>

(* UpdateWishlistUnchecked: the variants are not validated.                 *)
UpdateWishlistUnchecked(r, i, variants, name) ==
    /\ Listed(i)
    /\ WishStart(r, [WishIdle EXCEPT !.id = i, !.user = wishlist[i].user,
                        !.fetched = wishlist[i],
                        !.variants = variants, !.name = name,
                        !.pc = IF variants # None THEN "variants"
                               ELSE IF name # None THEN "name" ELSE "refetch"])

(* updateWishlist: the wishlist is fetched, and the variants, if there are  *)
(* any, are validated before anything is written.                           *)
UpdateWishlist(r, i, variants, name) ==
    /\ Listed(i)
    /\ variants # None => variants \subseteq wishVariants
    /\ WishStart(r, [WishIdle EXCEPT !.id = i, !.user = wishlist[i].user,
                        !.fetched = wishlist[i],
                        !.variants = variants, !.name = name,
                        !.pc = IF variants # None THEN "variants"
                               ELSE IF name # None THEN "name" ELSE "refetch"])

UpdateProductVariantIDs(r) ==
    LET q == wishReq[r] IN
    /\ q.pc = "variants"
    /\ wishlist' = IF Listed(q.id)
                   THEN [wishlist EXCEPT ![q.id].variants = q.variants]
                   ELSE wishlist
    /\ WishGoto(r, [q EXCEPT !.pc = IF q.name # None THEN "name" ELSE "refetch"])
    /\ WishFrame

(* ReplaceWithFetched: the fetched wishlist is written back with the name.  *)
ReplaceWithFetched(r) ==
    LET q == wishReq[r] IN
    /\ q.pc = "name"
    /\ wishlist' = IF Listed(q.id)
                   THEN [wishlist EXCEPT ![q.id] = [q.fetched EXCEPT !.name = q.name]]
                   ELSE wishlist
    /\ WishGoto(r, [q EXCEPT !.pc = "refetch"])
    /\ WishFrame

(* UpsertFetched: the fetched wishlist is inserted where it is missing.     *)
UpsertFetched(r) ==
    LET q == wishReq[r]
        kept == IF Listed(q.id) THEN wishlist[q.id] ELSE q.fetched IN
    /\ q.pc = "name"
    /\ wishlist' = [wishlist EXCEPT ![q.id] = [kept EXCEPT !.name = q.name]]
    /\ WishGoto(r, [q EXCEPT !.pc = "refetch"])
    /\ WishFrame

UpdateName(r) ==
    LET q == wishReq[r] IN
    /\ q.pc = "name"
    /\ wishlist' = IF Listed(q.id) THEN [wishlist EXCEPT ![q.id].name = q.name]
                   ELSE wishlist
    /\ WishGoto(r, [q EXCEPT !.pc = "refetch"])
    /\ WishFrame

(* The answer of an update is what GetWishlist finds at its end.            *)
Refetch(r) ==
    /\ wishReq[r].pc = "refetch"
    /\ WishGoto(r, WishIdle)
    /\ UNCHANGED wishlist
    /\ WishFrame

DeleteWishlist(r, i) ==
    /\ Listed(i)
    /\ WishStart(r, [WishIdle EXCEPT !.pc = "delete", !.id = i,
                                     !.user = wishlist[i].user])

DeleteWishlistOne(r) ==
    /\ wishReq[r].pc = "delete"
    /\ wishlist' = [wishlist EXCEPT ![wishReq[r].id] = None]
    /\ WishGoto(r, WishIdle)
    /\ WishFrame

(* A call fails: the request ends with an error.                            *)
WishRequestFails(r) ==
    /\ wishReq[r].pc # "idle"
    /\ WishGoto(r, WishIdle)
    /\ UNCHANGED wishlist
    /\ WishFrame

-----------------------------------------------------------------------------
WishRequest(r) ==
    \/ \E u \in Users, name \in Names : \E variants \in SUBSET Variants :
          CreateWishlist(r, u, variants, name)
    \/ \E i \in WishlistIds, name \in Names \cup {None} :
          \E variants \in (SUBSET Variants) \cup {None} :
             UpdateWishlist(r, i, variants, name)
    \/ \E i \in WishlistIds : DeleteWishlist(r, i)
    \/ InsertWishlist(r) \/ UpdateProductVariantIDs(r) \/ UpdateName(r)
    \/ Refetch(r) \/ DeleteWishlistOne(r) \/ WishRequestFails(r)

WishlistNext ==
    \/ \E u \in Users : WishlistUserCreated(u)
    \/ \E v \in Variants : WishlistVariantCreated(v)
    \/ \E r \in Requests : WishRequest(r)

WishlistSpec == WishlistInit /\ [][WishlistNext]_wishVars

-----------------------------------------------------------------------------
(* An updateWishlist that had the wishlist to itself is answered with all   *)
(* it asked for and all it left alone as it was, although the fields are    *)
(* written one by one and the owner was fetched before.                     *)
UpdatesApply ==
    \A r \in Requests :
        LET q == wishReq[r] IN
        q.pc = "refetch" /\ q.alone =>
            wishlist[q.id] =
                [user |-> q.fetched.user,
                 variants |-> IF q.variants # None THEN q.variants
                              ELSE q.fetched.variants,
                 name |-> IF q.name # None THEN q.name ELSE q.fetched.name]

(* The wishlists implement Lifecycle: one that was deleted while an update  *)
(* of it was in progress stays deleted, and no update changes the owner.    *)
WishlistLife == INSTANCE Lifecycle WITH
    Ids <- WishlistIds,
    Subjects <- Users,
    life <- [i \in WishlistIds |-> IF Listed(i) THEN "present"
                 ELSE IF i <= wishIssued THEN "gone" ELSE "absent"],
    about <- [i \in WishlistIds |-> IF Listed(i) THEN wishlist[i].user ELSE None]

WishlistsNeverReturn == WishlistLife!Spec
=============================================================================
