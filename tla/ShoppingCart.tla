---------------------------- MODULE ShoppingCart -----------------------------
(***************************************************************************)
(* The shopping cart service: one cart per user, changed by the requests   *)
(* of the user and emptied by order/created events.                        *)
(*                                                                         *)
(* A cart is an array inside the user's document.  Every call of the store *)
(* is one update of one document and a step of its own; between the calls  *)
(* of a request, other requests and events run.  The replicas only grow,   *)
(* so a check of a user or a variant is made in the step of the next read. *)
(***************************************************************************)
EXTENDS Shop, SequencesExt

CONSTANTS
    Counts,        \* counts a client asks for
    CartOrders,    \* orders placed from the carts
    MaxCartItems   \* bound: item ids ever made

CartEntries == [variant : Variants, count : Counts]
CartItems == [user : Users, variant : Variants, count : Counts]

ASSUME CartAssumption ==
    /\ MaxCartItems \in Nat
    /\ IsFiniteSet(CartEntries) /\ None \notin CartItems

VARIABLES
    cartUsers, cartVariants,  \* the replicas of users and product variants
    cartItem,     \* cartItem[i]: the item with id i, or None
    cartIssued,   \* item ids made so far: 1 .. cartIssued
    cartReq,      \* cartReq[r]: the request r in progress
    cartOrder,    \* cartOrder[o]: user and items of the order, or None
    cartInbox,    \* orders whose order/created the broker still has to deliver
    cartTwice     \* user and variant whose additions overlapped (history)

cartVars == <<cartUsers, cartVariants, cartItem, cartIssued, cartReq,
              cartOrder, cartInbox, cartTwice>>

-----------------------------------------------------------------------------
CartIds == 1 .. MaxCartItems

CartIdle == [pc |-> "idle", user |-> None, entries |-> {}, item |-> 0, count |-> 0]

Present(i) == cartItem[i] # None
CartItem(u, e) == [user |-> u, variant |-> e.variant, count |-> e.count]

CartTypeOK ==
    /\ cartUsers \subseteq Users /\ cartVariants \subseteq Variants
    /\ cartItem \in [CartIds -> CartItems \cup {None}]
    /\ cartIssued \in 0 .. MaxCartItems
    /\ \A i \in CartIds : Present(i) =>
          i <= cartIssued /\ cartItem[i].user \in cartUsers
                          /\ cartItem[i].variant \in cartVariants
    /\ \A r \in Requests :
          /\ cartReq[r].pc \in {"idle", "replace", "push", "count", "pull"}
          /\ cartReq[r].user \in Users \cup {None}
          /\ cartReq[r].entries \subseteq CartEntries
          /\ cartReq[r].item \in 0 .. cartIssued
          /\ cartReq[r].count \in Counts \cup {0}
    /\ cartOrder \in [CartOrders -> [user : Users, items : SUBSET CartIds]
                                    \cup {None}]
    /\ cartInbox \subseteq {o \in CartOrders : cartOrder[o] # None}
    /\ cartTwice \subseteq Users \X Variants

CartInit ==
    /\ cartUsers = {} /\ cartVariants = {}
    /\ cartItem = [i \in CartIds |-> None]
    /\ cartIssued = 0
    /\ cartReq = [r \in Requests |-> CartIdle]
    /\ cartOrder = [o \in CartOrders |-> None]
    /\ cartInbox = {}
    /\ cartTwice = {}

-----------------------------------------------------------------------------
(* Events.  A user or a variant that is delivered again fails on the        *)
(* primary key, which changes nothing.                                      *)
CartUserCreated(u) ==
    /\ u \notin cartUsers
    /\ cartUsers' = cartUsers \cup {u}
    /\ UNCHANGED <<cartVariants, cartItem, cartIssued, cartReq, cartOrder,
                   cartInbox, cartTwice>>

CartVariantCreated(v) ==
    /\ v \notin cartVariants
    /\ cartVariants' = cartVariants \cup {v}
    /\ UNCHANGED <<cartUsers, cartItem, cartIssued, cartReq, cartOrder,
                   cartInbox, cartTwice>>

(* createOrder read these items in the user's cart; order/created follows   *)
(* when the order is placed, the items may have changed by then.            *)
CartCheckout(o, u, items) ==
    /\ cartOrder[o] = None
    /\ items # {}
    /\ \A i \in items : Present(i) /\ cartItem[i].user = u
    /\ cartOrder' = [cartOrder EXCEPT ![o] = [user |-> u, items |-> items]]
    /\ UNCHANGED <<cartUsers, cartVariants, cartItem, cartIssued, cartReq,
                   cartInbox, cartTwice>>

(* order/created is published, or delivered again after it was handled.     *)
CartOrderPublished(o) ==
    /\ cartOrder[o] # None /\ o \notin cartInbox
    /\ cartInbox' = cartInbox \cup {o}
    /\ UNCHANGED <<cartUsers, cartVariants, cartItem, cartIssued, cartReq,
                   cartOrder, cartTwice>>

Pull(items) == [i \in CartIds |-> IF i \in items THEN None ELSE cartItem[i]]

(* OrderCreatedStrict: a missing item is taken for an error.                *)
CartOrderCreatedStrict(o) ==
    LET e == cartOrder[o] IN
    /\ o \in cartInbox
    /\ \A i \in e.items : Present(i)
    /\ cartInbox' = cartInbox \ {o}
    /\ cartItem' = Pull(e.items)
    /\ UNCHANGED <<cartUsers, cartVariants, cartIssued, cartReq, cartOrder,
                   cartTwice>>

(* The ordered items leave the buyer's cart, whatever their count is now.   *)
CartOrderCreated(o) ==
    LET e == cartOrder[o] IN
    /\ o \in cartInbox
    /\ cartInbox' = cartInbox \ {o}
    /\ cartItem' = Pull({i \in e.items : Present(i) /\ cartItem[i].user = e.user})
    /\ UNCHANGED <<cartUsers, cartVariants, cartIssued, cartReq, cartOrder,
                   cartTwice>>

-----------------------------------------------------------------------------
CartGoto(r, q) == cartReq' = [cartReq EXCEPT ![r] = q]

CartStart(r, q) ==
    /\ cartReq[r].pc = "idle"
    /\ CartGoto(r, q)
    /\ UNCHANGED <<cartUsers, cartVariants, cartItem, cartIssued, cartOrder,
                   cartInbox>>

(* The requests about to add these variants to the cart of u.               *)
Adding(u, variants) ==
    {v \in variants : \E r \in Requests :
        /\ cartReq[r].pc = "push" /\ cartReq[r].user = u
        /\ \E e \in cartReq[r].entries : e.variant = v}

(* updateShoppingcart: entries is the list without identical pairs.  The    *)
(* whole list becomes the cart.                                             *)
UpdateShoppingcart(r, u, entries) ==
    /\ u \in cartUsers
    /\ \A e \in entries : e.variant \in cartVariants
    /\ CartStart(r, [CartIdle EXCEPT !.pc = "replace", !.user = u,
                                     !.entries = entries])
    /\ UNCHANGED cartTwice

(* ReplaceCartItems: fresh ids for all entries, also for those of variants  *)
(* that were in the cart before.                                            *)
ReplaceCartItems(r) ==
    LET q == cartReq[r]
        added == SetToSeq(q.entries)
        old == {i \in CartIds : Present(i) /\ cartItem[i].user = q.user}
        variants == {e.variant : e \in q.entries}
        listedTwice == {v \in variants :
                           Cardinality({e \in q.entries : e.variant = v}) > 1}
    IN  /\ q.pc = "replace"
        /\ cartIssued + Len(added) <= MaxCartItems
        /\ cartIssued' = cartIssued + Len(added)
        /\ cartItem' = [i \in CartIds |->
              IF i \in cartIssued + 1 .. cartIssued + Len(added)
              THEN CartItem(q.user, added[i - cartIssued])
              ELSE Pull(old)[i]]
        /\ cartTwice' = cartTwice \cup
              ({q.user} \X (listedTwice \cup Adding(q.user, variants)))
        /\ CartGoto(r, CartIdle)
        /\ UNCHANGED <<cartUsers, cartVariants, cartOrder, cartInbox>>

(* CreateShoppingcartItemAlways: the lookup is left out.                    *)
CreateShoppingcartItemAlways(r, u, e) ==
    /\ u \in cartUsers /\ e.variant \in cartVariants
    /\ CartStart(r, [CartIdle EXCEPT !.pc = "push", !.user = u, !.entries = {e}])
    /\ cartTwice' = cartTwice \cup ({u} \X Adding(u, {e.variant}))

(* CreateShoppingcartItemUnchecked: the variant is not looked up.           *)
CreateShoppingcartItemUnchecked(r, u, e) ==
    /\ u \in cartUsers
    /\ CartStart(r, [CartIdle EXCEPT !.pc = "push", !.user = u, !.entries = {e}])
    /\ UNCHANGED cartTwice

(* createShoppingcartItem: an item of the variant that is there already is  *)
(* returned as it is, and nothing more happens.                             *)
CreateShoppingcartItem(r, u, e) ==
    /\ u \in cartUsers /\ e.variant \in cartVariants
    /\ \A i \in CartIds : Present(i) =>
          cartItem[i].user # u \/ cartItem[i].variant # e.variant
    /\ CartStart(r, [CartIdle EXCEPT !.pc = "push", !.user = u, !.entries = {e}])
    /\ cartTwice' = cartTwice \cup ({u} \X Adding(u, {e.variant}))

PushItem(r) ==
    LET q == cartReq[r] IN
    /\ q.pc = "push"
    /\ cartIssued < MaxCartItems
    /\ cartIssued' = cartIssued + 1
    /\ \E e \in q.entries :
          cartItem' = [cartItem EXCEPT ![cartIssued + 1] = CartItem(q.user, e)]
    /\ CartGoto(r, CartIdle)
    /\ UNCHANGED <<cartUsers, cartVariants, cartOrder, cartInbox, cartTwice>>

(* updateShoppingcartItem: the owner of the item is looked up for the       *)
(* authorization, then the count is set where the item still is.            *)
UpdateShoppingcartItem(r, i, n) ==
    /\ Present(i)
    /\ CartStart(r, [CartIdle EXCEPT !.pc = "count", !.item = i, !.count = n,
                                     !.user = cartItem[i].user])
    /\ UNCHANGED cartTwice

(* UpdateItemCountBack: the update inserts what it does not find.           *)
UpdateItemCountBack(r) ==
    LET q == cartReq[r] IN
    /\ q.pc = "count"
    /\ \E v \in cartVariants :
          /\ Present(q.item) => cartItem[q.item].variant = v
          /\ cartItem' = [cartItem EXCEPT ![q.item] =
                             [user |-> q.user, variant |-> v, count |-> q.count]]
    /\ CartGoto(r, CartIdle)
    /\ UNCHANGED <<cartUsers, cartVariants, cartIssued, cartOrder, cartInbox,
                   cartTwice>>

UpdateItemCount(r) ==
    LET q == cartReq[r] IN
    /\ q.pc = "count"
    /\ cartItem' = IF Present(q.item)
                   THEN [cartItem EXCEPT ![q.item].count = q.count]
                   ELSE cartItem
    /\ CartGoto(r, CartIdle)
    /\ UNCHANGED <<cartUsers, cartVariants, cartIssued, cartOrder, cartInbox,
                   cartTwice>>

(* deleteShoppingcartItem: the owner is looked up, then the item is pulled. *)
DeleteShoppingcartItem(r, i) ==
    /\ Present(i)
    /\ CartStart(r, [CartIdle EXCEPT !.pc = "pull", !.item = i,
                                     !.user = cartItem[i].user])
    /\ UNCHANGED cartTwice

(* PullVariant: all items of the variant are pulled.                        *)
PullVariant(r) ==
    LET q == cartReq[r] IN
    /\ q.pc = "pull"
    /\ cartItem' = Pull({i \in CartIds : Present(i) /\ Present(q.item)
                          /\ cartItem[i].variant = cartItem[q.item].variant})
    /\ CartGoto(r, CartIdle)
    /\ UNCHANGED <<cartUsers, cartVariants, cartIssued, cartOrder, cartInbox,
                   cartTwice>>

PullItem(r) ==
    LET q == cartReq[r] IN
    /\ q.pc = "pull"
    /\ cartItem' = Pull({q.item})
    /\ CartGoto(r, CartIdle)
    /\ UNCHANGED <<cartUsers, cartVariants, cartIssued, cartOrder, cartInbox,
                   cartTwice>>

(* A call of the store fails: the request ends with an error.               *)
CartRequestFails(r) ==
    /\ cartReq[r].pc # "idle"
    /\ CartGoto(r, CartIdle)
    /\ UNCHANGED <<cartUsers, cartVariants, cartItem, cartIssued, cartOrder,
                   cartInbox, cartTwice>>

-----------------------------------------------------------------------------
CartEvent ==
    \/ \E u \in Users : CartUserCreated(u)
    \/ \E v \in Variants : CartVariantCreated(v)
    \/ \E o \in CartOrders : CartOrderPublished(o) \/ CartOrderCreated(o)
    \/ \E o \in CartOrders, u \in Users : \E items \in SUBSET CartIds :
          CartCheckout(o, u, items)

CartRequest(r) ==
    \/ \E u \in Users, entries \in SUBSET CartEntries :
          UpdateShoppingcart(r, u, entries)
    \/ \E u \in Users, e \in CartEntries : CreateShoppingcartItem(r, u, e)
    \/ \E i \in CartIds, n \in Counts : UpdateShoppingcartItem(r, i, n)
    \/ \E i \in CartIds : DeleteShoppingcartItem(r, i)
    \/ ReplaceCartItems(r) \/ PushItem(r) \/ UpdateItemCount(r) \/ PullItem(r)
    \/ CartRequestFails(r)

CartNext == CartEvent \/ \E r \in Requests : CartRequest(r)

(* The broker delivers order/created until the handler succeeds.            *)
CartFairness == \A o \in CartOrders : WF_cartVars(CartOrderCreated(o))

CartSpec == CartInit /\ [][CartNext]_cartVars /\ CartFairness

-----------------------------------------------------------------------------
(* The items implement Lifecycle: an item is pushed once, keeps its user    *)
(* and variant, and one that was ordered, deleted or replaced never comes   *)
(* back, although updateShoppingcartItem and deleteShoppingcartItem look    *)
(* the item up in one step and write in another.                            *)
CartLife == INSTANCE Lifecycle WITH
    Ids <- CartIds,
    Subjects <- Users \X Variants,
    life <- [i \in CartIds |-> IF Present(i) THEN "present"
                               ELSE IF i <= cartIssued THEN "gone" ELSE "absent"],
    about <- [i \in CartIds |-> IF Present(i)
                 THEN <<cartItem[i].user, cartItem[i].variant>> ELSE None]

CartItemsNeverReturn == CartLife!Spec

(* A cart holds two items of a variant only if two additions of it over-    *)
(* lapped or one list named it with two counts: what the lookup of          *)
(* CreateShoppingcartItem is for, and all that it achieves.                 *)
OneItemPerVariant ==
    \A i, j \in CartIds :
        /\ i # j /\ Present(i) /\ Present(j)
        /\ cartItem[i].user = cartItem[j].user
        /\ cartItem[i].variant = cartItem[j].variant
        => <<cartItem[i].user, cartItem[i].variant>> \in cartTwice

(* An item leaves the cart only because it was ordered, because a request   *)
(* to delete it or one that replaces its whole cart is in progress: a       *)
(* request for one item never costs another (the pulls by id).              *)
LeavesForAReason(i) ==
    Present(i) /\ cartItem'[i] = None =>
        \/ \E o \in cartInbox : i \in cartOrder[o].items
        \/ \E r \in Requests :
              \/ cartReq[r].pc = "pull" /\ cartReq[r].item = i
              \/ cartReq[r].pc = "replace" /\ cartReq[r].user = cartItem[i].user

(* No step takes an item out of a cart without such a reason.               *)
ItemsLeaveForAReason == [][\A i \in CartIds : LeavesForAReason(i)]_cartVars

(* The items of an order whose order/created was published leave the cart   *)
(* in the end, also those the user has changed, deleted or replaced before  *)
(* the event comes.                                                         *)
OrderedItemsLeave ==
    \A o \in CartOrders :
        o \in cartInbox ~> (cartOrder[o] # None
                            /\ \A i \in cartOrder[o].items : ~Present(i))
=============================================================================
