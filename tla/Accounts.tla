------------------------------ MODULE Accounts -------------------------------
(***************************************************************************)
(* Users and their addresses: the user service, which is told of a user by *)
(* the user/create event; the address service; and the copy of both in the *)
(* order service.                                                          *)
(*                                                                         *)
(* The broker delivers the events in any order, and again when the handler *)
(* answers with an error.  An owner publishes after its row is written,    *)
(* and the request or the handler fails if the broker does not take the    *)
(* event.                                                                  *)
(***************************************************************************)
EXTENDS Shop

CONSTANTS
    Addresses,    \* user address ids
    AddressOf,    \* AddressOf[a]: the user the address is created for
    MaxAcctFaults \* bound: failing publishes and repeated events

ASSUME AccountsAssumption ==
    AddressOf \in [Addresses -> Users] /\ MaxAcctFaults \in Nat

VARIABLES
    createInbox,  \* users whose user/create the broker still has to deliver
    userRow,      \* users of the user service
    userJob,      \* users whose handler has inserted the row, not published
    addrUsers,    \* the address service's copy of the users
    address,      \* address[a]: "absent", "active" or "archived"
    addrReq,      \* addrReq[a]: the events requests on a are about to publish
    orderUser,    \* users the order service has a document of
    listed,       \* listed[a]: how often the document of its user lists a
    acctInbox,    \* events to be delivered to the address and order services
    userCut,      \* users whose user/created was not published (history)
    addrMissed,   \* addresses an event of which was not published or came in
                  \*   the wrong order (history)
    acctFaults

acctVars == <<createInbox, userRow, userJob, addrUsers, address, addrReq,
              orderUser, listed, acctInbox, userCut, addrMissed, acctFaults>>

-----------------------------------------------------------------------------
UserCreated(service, u) == <<"user/created", service, u>>
AddressCreated(a) == <<"user-address/created", "order", a>>
AddressArchived(a) == <<"user-address/archived", "order", a>>
AcctEvents == {UserCreated(s, u) : s \in {"address", "order"}, u \in Users}
              \cup {AddressCreated(a) : a \in Addresses}
              \cup {AddressArchived(a) : a \in Addresses}

AccountsTypeOK ==
    /\ createInbox \subseteq Users
    /\ userJob \subseteq userRow /\ userRow \subseteq Users
    /\ addrUsers \subseteq userRow
    /\ address \in [Addresses -> {"absent", "active", "archived"}]
    /\ \A a \in Addresses : address[a] # "absent" => AddressOf[a] \in addrUsers
    /\ addrReq \in [Addresses -> SUBSET {"created", "archived"}]
    /\ orderUser \subseteq userRow
    /\ listed \in [Addresses -> Nat]
    /\ \A a \in Addresses : listed[a] > 0 =>
          AddressOf[a] \in orderUser /\ address[a] # "absent"
    /\ acctInbox \subseteq AcctEvents
    /\ userCut \subseteq userRow /\ addrMissed \subseteq Addresses
    /\ acctFaults \in 0 .. MaxAcctFaults

AccountsInit ==
    /\ createInbox = Users
    /\ userRow = {} /\ userJob = {}
    /\ addrUsers = {}
    /\ address = [a \in Addresses |-> "absent"]
    /\ addrReq = [a \in Addresses |-> {}]
    /\ orderUser = {} /\ listed = [a \in Addresses |-> 0]
    /\ acctInbox = {}
    /\ userCut = {} /\ addrMissed = {}
    /\ acctFaults = 0

AcctFault == acctFaults < MaxAcctFaults /\ acctFaults' = acctFaults + 1

-----------------------------------------------------------------------------
(* The user service.  A user whose row exists fails on the primary key; the *)
(* event stays with the broker.                                             *)
UserFrame == UNCHANGED <<addrUsers, address, addrReq, orderUser, listed, addrMissed>>

(* CreateUserOnly: the row is all there is.                                 *)
CreateUserOnly(u) ==
    /\ u \in createInbox /\ u \notin userRow
    /\ userRow' = userRow \cup {u}
    /\ createInbox' = createInbox \ {u}
    /\ UNCHANGED <<userJob, acctInbox, userCut, acctFaults>>
    /\ UserFrame

CreateUser(u) ==
    /\ u \in createInbox /\ u \notin userRow
    /\ userRow' = userRow \cup {u}
    /\ userJob' = userJob \cup {u}
    /\ createInbox' = createInbox \ {u}
    /\ UNCHANGED <<acctInbox, userCut, acctFaults>>
    /\ UserFrame

PublishUserCreated(u) ==
    /\ u \in userJob
    /\ userJob' = userJob \ {u}
    /\ acctInbox' = acctInbox \cup {UserCreated(s, u) : s \in {"address", "order"}}
    /\ UNCHANGED <<createInbox, userRow, userCut, acctFaults>>
    /\ UserFrame

PublishUserCreatedFails(u) ==
    /\ u \in userJob
    /\ AcctFault
    /\ userJob' = userJob \ {u}
    /\ createInbox' = createInbox \cup {u}
    /\ userCut' = userCut \cup {u}
    /\ UNCHANGED <<userRow, acctInbox>>
    /\ UserFrame

-----------------------------------------------------------------------------
(* The address service.                                                     *)
AddrFrame == UNCHANGED <<createInbox, userRow, userJob, orderUser, listed, userCut>>

RegisterUser(u) ==
    /\ UserCreated("address", u) \in acctInbox /\ u \notin addrUsers
    /\ addrUsers' = addrUsers \cup {u}
    /\ acctInbox' = acctInbox \ {UserCreated("address", u)}
    /\ UNCHANGED <<address, addrReq, addrMissed, acctFaults>>
    /\ AddrFrame

(* CreateUserAddressUnchecked: the user is not looked up.                   *)
CreateUserAddressUnchecked(a) ==
    /\ address[a] = "absent"
    /\ address' = [address EXCEPT ![a] = "active"]
    /\ addrReq' = [addrReq EXCEPT ![a] = {"created"}]
    /\ UNCHANGED <<addrUsers, acctInbox, addrMissed, acctFaults>>
    /\ AddrFrame

CreateUserAddress(a) ==
    /\ address[a] = "absent" /\ AddressOf[a] \in addrUsers
    /\ address' = [address EXCEPT ![a] = "active"]
    /\ addrReq' = [addrReq EXCEPT ![a] = {"created"}]
    /\ UNCHANGED <<addrUsers, acctInbox, addrMissed, acctFaults>>
    /\ AddrFrame

(* An archived address is archived, and announced, again; one that is shown *)
(* is archived also before its creation is announced.                       *)
ArchiveUserAddress(a) ==
    /\ address[a] # "absent" /\ "archived" \notin addrReq[a]
    /\ address' = [address EXCEPT ![a] = "archived"]
    /\ addrReq' = [addrReq EXCEPT ![a] = @ \cup {"archived"}]
    /\ UNCHANGED <<addrUsers, acctInbox, addrMissed, acctFaults>>
    /\ AddrFrame

PublishAddressEvent(a, e) ==
    /\ e \in addrReq[a]
    /\ acctInbox' = acctInbox \cup {IF e = "created" THEN AddressCreated(a)
                                    ELSE AddressArchived(a)}
    /\ addrReq' = [addrReq EXCEPT ![a] = @ \ {e}]
    /\ UNCHANGED <<addrUsers, address, addrMissed, acctFaults>>
    /\ AddrFrame

PublishAddressEventFails(a, e) ==
    /\ e \in addrReq[a]
    /\ AcctFault
    /\ addrReq' = [addrReq EXCEPT ![a] = @ \ {e}]
    /\ addrMissed' = addrMissed \cup {a}
    /\ UNCHANGED <<addrUsers, address, acctInbox>>
    /\ AddrFrame

-----------------------------------------------------------------------------
(* The order service.  No update creates the document of a user.            *)
OrderFrame == UNCHANGED <<createInbox, userRow, userJob, addrUsers, address,
                          addrReq, userCut, acctFaults>>

InsertUser(u) ==
    /\ UserCreated("order", u) \in acctInbox /\ u \notin orderUser
    /\ orderUser' = orderUser \cup {u}
    /\ acctInbox' = acctInbox \ {UserCreated("order", u)}
    /\ UNCHANGED <<listed, addrMissed>>
    /\ OrderFrame

(* The order service has taken the archiving of the address.                *)
Archived(a) == /\ address[a] = "archived" /\ "archived" \notin addrReq[a]
               /\ AddressArchived(a) \notin acctInbox

(* An address that comes before its user is dropped; one that comes after   *)
(* it was archived stays.                                                   *)
PushUserAddress(a) ==
    LET known == AddressOf[a] \in orderUser IN
    /\ AddressCreated(a) \in acctInbox
    /\ acctInbox' = acctInbox \ {AddressCreated(a)}
    /\ listed' = IF known THEN [listed EXCEPT ![a] = @ + 1] ELSE listed
    /\ addrMissed' = IF ~known \/ Archived(a) THEN addrMissed \cup {a} ELSE addrMissed
    /\ UNCHANGED orderUser
    /\ OrderFrame

(* PullFirst: one occurrence of the address is removed.                     *)
PullFirst(a) ==
    /\ AddressArchived(a) \in acctInbox
    /\ acctInbox' = acctInbox \ {AddressArchived(a)}
    /\ listed' = IF listed[a] > 0 THEN [listed EXCEPT ![a] = @ - 1] ELSE listed
    /\ UNCHANGED <<orderUser, addrMissed>>
    /\ OrderFrame

(* Every occurrence of the address is removed.                              *)
PullUserAddress(a) ==
    /\ AddressArchived(a) \in acctInbox
    /\ acctInbox' = acctInbox \ {AddressArchived(a)}
    /\ listed' = [listed EXCEPT ![a] = 0]
    /\ UNCHANGED <<orderUser, addrMissed>>
    /\ OrderFrame

(* An address event that was handled is delivered again.                    *)
AddressEventAgain(a, e) ==
    /\ e \in {AddressCreated(a), AddressArchived(a)} \ acctInbox
    /\ a \notin addrMissed
    /\ e = AddressCreated(a) => address[a] # "absent" /\ "created" \notin addrReq[a]
    /\ e = AddressArchived(a) => Archived(a)
    /\ AcctFault
    /\ acctInbox' = acctInbox \cup {e}
    /\ UNCHANGED <<createInbox, userRow, userJob, addrUsers, address, addrReq,
                   orderUser, listed, userCut, addrMissed>>

-----------------------------------------------------------------------------
HandleUser(u) ==
    \/ CreateUser(u) \/ PublishUserCreated(u)
    \/ RegisterUser(u) \/ InsertUser(u)

AccountsNext ==
    \/ \E u \in Users : HandleUser(u) \/ PublishUserCreatedFails(u)
    \/ \E a \in Addresses :
          \/ CreateUserAddress(a) \/ ArchiveUserAddress(a)
          \/ \E e \in {"created", "archived"} :
                PublishAddressEvent(a, e) \/ PublishAddressEventFails(a, e)
          \/ PushUserAddress(a) \/ PullUserAddress(a)
          \/ \E e \in {AddressCreated(a), AddressArchived(a)} : AddressEventAgain(a, e)

(* The broker keeps delivering user/create and user/created, and a handler  *)
(* that was started runs on.                                                *)
AccountsFairness == \A u \in Users : WF_acctVars(HandleUser(u))

AccountsSpec == AccountsInit /\ [][AccountsNext]_acctVars /\ AccountsFairness

-----------------------------------------------------------------------------
(* When no event of a user and its addresses is under way, the order        *)
(* service lists exactly the addresses that are not archived: also when an  *)
(* event came twice, and unless one was not published or overtook another,  *)
(* which nothing repairs (PushUserAddress, PullUserAddress).                *)
OrderListsAddresses ==
    \A a \in Addresses :
        /\ AddressOf[a] \in orderUser
        /\ addrReq[a] = {} /\ a \notin addrMissed
        /\ {AddressCreated(a), AddressArchived(a)} \cap acctInbox = {}
        => (listed[a] > 0 <=> address[a] = "active")

(* A user the user service is told of is known to the address and the order *)
(* service in the end, unless user/created could not be published: then the *)
(* primary key fails every repetition of user/create, and no service learns *)
(* of the user.                                                             *)
UsersArriveEverywhere ==
    \A u \in Users :
        <>(u \in userCut \/ (u \in addrUsers /\ u \in orderUser))
=============================================================================
