----------------------------- MODULE Notification ----------------------------
(***************************************************************************)
(* The notification service: notifications for users, made on request or   *)
(* by a notification/create event, and marked as read.                     *)
(*                                                                         *)
(* updateNotification loads the notification for the authorization and     *)
(* computes the new time of reading from what it loaded; the update is a   *)
(* statement of its own.                                                   *)
(***************************************************************************)
EXTENDS Shop, Sequences

CONSTANTS
    Notices,            \* notification/create events
    RecipientOf,        \* RecipientOf[n]: the user of the event
    MaxNotifications,   \* bound: notifications made
    MaxMoment           \* bound: moments that pass

ASSUME NotificationAssumption ==
    /\ RecipientOf \in [Notices -> Users]
    /\ MaxNotifications \in Nat /\ MaxMoment \in Nat \ {0}

VARIABLES
    notifUsers,     \* the copy of the users
    notifInbox,     \* users and notices the broker still has to deliver
    notification,   \* the notifications: user, origin, and when it was read
    notifReq,       \* notifReq[r]: the updateNotification in progress
    notifNow        \* the time

notifVars == <<notifUsers, notifInbox, notification, notifReq, notifNow>>

-----------------------------------------------------------------------------
Unread == 0
NotifIdle == [id |-> 0, loaded |-> Unread, isRead |-> FALSE, alone |-> TRUE]

NotificationTypeOK ==
    /\ notifUsers \subseteq Users
    /\ notifInbox \subseteq Users \cup Notices
    /\ \A i \in DOMAIN notification :
          /\ notification[i].user \in notifUsers
          /\ notification[i].origin \in Notices \cup {None}
          /\ notification[i].readAt \in Unread .. notifNow
    /\ \A r \in Requests :
          /\ notifReq[r].id \in 0 .. Len(notification)
          /\ notifReq[r].loaded \in Unread .. notifNow
          /\ {notifReq[r].isRead, notifReq[r].alone} \subseteq BOOLEAN
    /\ notifNow \in 1 .. MaxMoment

NotificationInit ==
    /\ notifUsers = {}
    /\ notifInbox = Users \cup Notices
    /\ notification = <<>>
    /\ notifReq = [r \in Requests |-> NotifIdle]
    /\ notifNow = 1

-----------------------------------------------------------------------------
NotifyTick ==
    /\ notifNow < MaxMoment /\ notifNow' = notifNow + 1
    /\ UNCHANGED <<notifUsers, notifInbox, notification, notifReq>>

NotifUserCreated(u) ==
    /\ u \in notifInbox /\ u \notin notifUsers
    /\ notifUsers' = notifUsers \cup {u}
    /\ notifInbox' = notifInbox \ {u}
    /\ UNCHANGED <<notification, notifReq, notifNow>>

(* AddForAnyone: the recipient is not looked up.                            *)
AddForAnyone(u, origin) ==
    /\ Len(notification) < MaxNotifications
    /\ notification' = Append(notification,
                              [user |-> u, origin |-> origin, readAt |-> Unread])

(* The recipient must be known.                                             *)
AddNotification(u, origin) ==
    /\ u \in notifUsers
    /\ Len(notification) < MaxNotifications
    /\ notification' = Append(notification,
                              [user |-> u, origin |-> origin, readAt |-> Unread])

(* NoticeDropped: an unknown recipient is taken for an invalid event, which *)
(* is acknowledged.                                                         *)
NoticeDropped(n) ==
    /\ n \in notifInbox
    /\ \/ AddNotification(RecipientOf[n], n)
       \/ RecipientOf[n] \notin notifUsers /\ UNCHANGED notification
    /\ notifInbox' = notifInbox \ {n}
    /\ UNCHANGED <<notifUsers, notifReq, notifNow>>

(* An event for a user that is not known yet is an error: the broker        *)
(* delivers it again.                                                       *)
NotificationCreate(n) ==
    /\ n \in notifInbox
    /\ AddNotification(RecipientOf[n], n)
    /\ notifInbox' = notifInbox \ {n}
    /\ UNCHANGED <<notifUsers, notifReq, notifNow>>

(* The bound leaves room for the notices under way.                         *)
Room == Len(notification) + Cardinality(notifInbox \cap Notices) < MaxNotifications

(* A notice that was handled comes again: it makes another notification.    *)
NoticeAgain(n) ==
    /\ n \notin notifInbox /\ Room
    /\ notifInbox' = notifInbox \cup {n}
    /\ UNCHANGED <<notifUsers, notification, notifReq, notifNow>>

CreateNotification(u) ==
    /\ AddNotification(u, None) /\ Room
    /\ UNCHANGED <<notifUsers, notifInbox, notifReq, notifNow>>

(* updateNotification up to the update; the others on the notification      *)
(* overlap with it (history).                                               *)
ReadingOf(i) == {r \in Requests : notifReq[r].id = i}
UpdateNotification(r, i, isRead) ==
    /\ notifReq[r] = NotifIdle /\ i \in DOMAIN notification
    /\ notifReq' = [x \in Requests |->
          IF x = r THEN [id |-> i, loaded |-> notification[i].readAt,
                         isRead |-> isRead, alone |-> ReadingOf(i) = {}]
          ELSE IF x \in ReadingOf(i) THEN [notifReq[x] EXCEPT !.alone = FALSE]
          ELSE notifReq[x]]
    /\ UNCHANGED <<notifUsers, notifInbox, notification, notifNow>>

(* NewReadNow: the time is set whatever it was.                             *)
NewReadNow(loaded, isRead) == IF isRead THEN notifNow ELSE Unread

(* The time changes only with the state.                                    *)
NewRead(loaded, isRead) ==
    IF (loaded # Unread) = isRead THEN loaded
    ELSE IF isRead THEN notifNow ELSE Unread

SetNotificationRead(r) ==
    LET q == notifReq[r] IN
    /\ q.id # 0
    /\ notification' = [notification EXCEPT ![q.id].readAt = NewRead(q.loaded, q.isRead)]
    /\ notifReq' = [notifReq EXCEPT ![r] = NotifIdle]
    /\ UNCHANGED <<notifUsers, notifInbox, notifNow>>

UpdateNotificationFails(r) ==
    /\ notifReq[r].id # 0
    /\ notifReq' = [notifReq EXCEPT ![r] = NotifIdle]
    /\ UNCHANGED <<notifUsers, notifInbox, notification, notifNow>>

-----------------------------------------------------------------------------
NotificationNext ==
    \/ NotifyTick
    \/ \E u \in Users : NotifUserCreated(u) \/ CreateNotification(u)
    \/ \E n \in Notices : NotificationCreate(n) \/ NoticeAgain(n)
    \/ \E r \in Requests :
          \/ \E i \in 1 .. MaxNotifications, isRead \in BOOLEAN :
                UpdateNotification(r, i, isRead)
          \/ SetNotificationRead(r) \/ UpdateNotificationFails(r)

(* The broker delivers both kinds of events until their handlers succeed.   *)
NotificationFairness ==
    /\ \A u \in Users : WF_notifVars(NotifUserCreated(u))
    /\ \A n \in Notices : WF_notifVars(NotificationCreate(n))

NotificationSpec ==
    NotificationInit /\ [][NotificationNext]_notifVars /\ NotificationFairness

-----------------------------------------------------------------------------
(* A notification another service asks for is made in the end, also when    *)
(* the event overtakes the creation of its user (CreateNotification answers *)
(* with an error then, and the broker repeats the event).                   *)
NoticesArrive ==
    \A n \in Notices :
        <>(\E i \in DOMAIN notification : notification[i].origin = n)

(* The time at which a notification was read first stays until it is marked *)
(* as unread, however often it is marked as read: unless two updates over-  *)
(* lapped, one of which had loaded it as unread.                            *)
KeepsFirstRead(i) ==
    LET old == notification[i].readAt
        new == notification'[i].readAt
    IN  old # Unread /\ new # old =>
           \E r \in ReadingOf(i) : ~notifReq[r].alone \/ new = Unread

(* Every notification keeps its first time of reading (KeepsFirstRead).     *)
FirstReadKept == [][\A i \in DOMAIN notification : KeepsFirstRead(i)]_notifVars
=============================================================================
