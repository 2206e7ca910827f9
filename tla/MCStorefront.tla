---------------------------- MODULE MCStorefront -----------------------------
(***************************************************************************)
(* The services around the order saga, checked together.  None of them     *)
(* reads or writes the variables of another, so a property of one of them  *)
(* holds in their composition if it holds when that one runs alone: each   *)
(* behaviour is on one service, and the others stay where they start.      *)
(***************************************************************************)
EXTENDS ShoppingCart, Review, Wishlist, Return, Versions, Products, Accounts,
        Notification

VARIABLE on     \* the service whose steps are taken

CONSTANTS v1, o1, a, s1, s2

MCProductOf == [v \in Variants |-> v]
MCBuyerOf == [o \in RetOrders |-> CHOOSE u \in Users : TRUE]
MCRetItemsOf == [o \in RetOrders |-> <<a>>]
MCParcelOrder == [s \in Parcels |-> o1]
MCParcelItems == [s \in Parcels |-> <<a>>]
MCVersionTables == {a :> 1, a :> 0, <<>>}
MCAddressOf == [x \in Addresses |-> CHOOSE u \in Users : TRUE]
MCRecipientOf == [n \in Notices |-> CHOOSE u \in Users : TRUE]

shopVars == <<cartVars, reviewVars, wishVars, retVars, verVars, prodVars,
              acctVars, notifVars>>

Services == {"cart", "review", "wishlist", "return", "versions", "products",
             "accounts", "notification"}

(* Return starts with one of several tables of versions: one is enough when *)
(* another service is on.                                                   *)
Init ==
    /\ on \in Services
    /\ CartInit /\ ReviewInit /\ WishlistInit /\ ReturnInit
    /\ VersionsInit /\ ProductsInit /\ AccountsInit /\ NotificationInit
    /\ on # "return" => returnDays = <<>>

Next ==
    /\ UNCHANGED on
    /\ \/ /\ on = "cart" /\ CartNext
          /\ UNCHANGED <<reviewVars, wishVars, retVars, verVars, prodVars,
                         acctVars, notifVars>>
       \/ /\ on = "review" /\ ReviewNext
          /\ UNCHANGED <<cartVars, wishVars, retVars, verVars, prodVars,
                         acctVars, notifVars>>
       \/ /\ on = "wishlist" /\ WishlistNext
          /\ UNCHANGED <<cartVars, reviewVars, retVars, verVars, prodVars,
                         acctVars, notifVars>>
       \/ /\ on = "return" /\ ReturnNext
          /\ UNCHANGED <<cartVars, reviewVars, wishVars, verVars, prodVars,
                         acctVars, notifVars>>
       \/ /\ on = "versions" /\ VersionsNext
          /\ UNCHANGED <<cartVars, reviewVars, wishVars, retVars, prodVars,
                         acctVars, notifVars>>
       \/ /\ on = "products" /\ ProductsNext
          /\ UNCHANGED <<cartVars, reviewVars, wishVars, retVars, verVars,
                         acctVars, notifVars>>
       \/ /\ on = "accounts" /\ AccountsNext
          /\ UNCHANGED <<cartVars, reviewVars, wishVars, retVars, verVars,
                         prodVars, notifVars>>
       \/ /\ on = "notification" /\ NotificationNext
          /\ UNCHANGED <<cartVars, reviewVars, wishVars, retVars, verVars,
                         prodVars, acctVars>>

(* The fairness of the services, asked only of the one that is on.          *)
Fairness ==
    /\ \A o \in CartOrders : WF_cartVars(on = "cart" /\ CartOrderCreated(o))
    /\ \A o \in RetOrders : WF_retVars(on = "return" /\ HandleOrder(o))
    /\ \A s \in Parcels : WF_retVars(on = "return" /\ HandleShipment(s))
    /\ \A u \in Users : /\ WF_acctVars(on = "accounts" /\ HandleUser(u))
                        /\ WF_notifVars(on = "notification" /\ NotifUserCreated(u))
    /\ \A n \in Notices :
          WF_notifVars(on = "notification" /\ NotificationCreate(n))

Spec == Init /\ [][Next]_<<shopVars, on>> /\ Fairness

-----------------------------------------------------------------------------
(* The tables, documents and requests of every service keep their types.    *)
StorefrontTypeOK ==
    /\ CartTypeOK /\ ReviewTypeOK /\ WishlistTypeOK /\ ReturnTypeOK
    /\ VersionsTypeOK /\ ProductsTypeOK /\ AccountsTypeOK /\ NotificationTypeOK

(* Cart items, reviews, returned items and version numbers are doubled by   *)
(* overlapping requests only: the checks before their inserts keep out the  *)
(* rest.                                                                    *)
DoublesNeedOverlap ==
    OneItemPerVariant /\ ReviewedOnce /\ ReturnedOnce /\ NumbersAreUnique

(* What a row or a service keeps of another one is true: the default        *)
(* variant of a product, the version the order service charges, and the     *)
(* addresses it lists.                                                      *)
ReferencesHold == DefaultIsOwn /\ OrderChargesCurrent /\ OrderListsAddresses

(* Cart items, reviews and wishlists implement Lifecycle, and an item       *)
(* leaves the cart for a reason.                                            *)
DocumentsLive ==
    /\ CartItemsNeverReturn /\ ReviewsNeverReturn /\ WishlistsNeverReturn
    /\ ItemsLeaveForAReason

(* An update that overlaps with no other one changes what it was asked for  *)
(* and keeps the rest: of wishlists, products, variants and notifications.  *)
UpdatesKeepTheRest == []UpdatesApply /\ FieldsKept /\ FirstReadKept

(* What an event announces takes effect in the end: ordered items leave the *)
(* cart (OrderCreated), shipped items catch up with their two events        *)
(* (HandleOrderCreated and HandleShipmentCreated of the return service),    *)
(* users arrive in every copy (CreateUser of the user service) and notices  *)
(* become notifications (CreateNotification).                               *)
EventsTakeEffect ==
    /\ OrderedItemsLeave
    /\ on = "return" => ItemsCatchUp
    /\ on = "accounts" => UsersArriveEverywhere
    /\ on = "notification" => NoticesArrive
=============================================================================
