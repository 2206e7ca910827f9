----------------------------- MODULE Simulation -----------------------------
(***************************************************************************)
(* The simulation service: the stand-in for the payment provider and the   *)
(* shipment carrier.  A registration is put on a durable broker queue and  *)
(* recorded in memory; one consumer per queue takes it off again under a   *)
(* limit per minute, and a timer sends the callback.  At each minute the   *)
(* counters are reset, and the connection is torn down and set up again to *)
(* get the messages back that the limit left unacknowledged.  Operators    *)
(* can send a callback by hand, which is meant to replace the automatic    *)
(* one, and change the limits at any time.                                 *)
(***************************************************************************)
EXTENDS Naturals, Sequences, FiniteSets, SequencesExt

CONSTANTS
    Queues,      \* the queues, a subset of {"payments", "shipments"}
    Ids,         \* ids of payments and shipments, each registered once
    QueueOf,     \* QueueOf[id]: the queue its registration goes to
    NoId,        \* no delivery
    Limits,      \* values the limits per minute can take
    FirstLimit,  \* FirstLimit[q]: the limit at the start
    MaxUpdates,  \* bound: manual updates per id
    MaxChanges,  \* bound: changes of the limits
    MaxCounted,  \* bound: callbacks of one kind counted per id
    Faults       \* TRUE iff the broker may close or refuse the connection

ASSUME SimulationAssumption ==
    /\ Queues \subseteq {"payments", "shipments"}
    /\ QueueOf \in [Ids -> Queues]
    /\ NoId \notin Ids
    /\ Limits \subseteq Nat
    /\ FirstLimit \in [Queues -> Limits]
    /\ MaxUpdates \in Nat
    /\ MaxChanges \in Nat
    /\ MaxCounted \in Nat \ {0}
    /\ Faults \in BOOLEAN

VARIABLES
    \* the broker
    ready,      \* ready[q]: messages not delivered
    unacked,    \* unacked[q]: messages delivered and not acknowledged
    enqueued,   \* ids that were put on their queue
    \* the processor
    connected,  \* the channel is open
    consuming,  \* queues with a consumer on the open channel
    held,       \* held[q]: the delivery the consumer of q works on
    counts,     \* messageCounts
    allowed,    \* processingAllowed
    reset,      \* what the reset loop is doing
    timers,     \* timers[id]: callbacks scheduled and not sent
    \* configuration, repositories and requests
    limit,      \* limit[q]: the current limit per minute
    changes,    \* changes of the limits so far
    record,     \* record[id]: "none", "free" or "blocked"
    reg,        \* reg[id]: progress of the registration request
    upd,        \* upd[id]: progress of a manual update request
    updates,    \* updates[id]: manual updates so far
    automatic,  \* automatic[id]: automatic callbacks sent
    manual      \* manual[id]: manual callbacks sent

broker == <<ready, unacked, enqueued>>
processor == <<connected, consuming, held, counts, allowed, reset, timers>>
requests == <<record, reg, upd, updates>>
config == <<limit, changes>>
sent == <<automatic, manual>>
vars == <<broker, processor, requests, config, sent>>

-----------------------------------------------------------------------------
Delivery == [id : Ids, max : Nat] \cup {[id |-> NoId, max |-> 0]}
NoDelivery == [id |-> NoId, max |-> 0]

TypeOK ==
    /\ ready \in [Queues -> Seq(Ids)]
    /\ unacked \in [Queues -> Seq(Ids)]
    /\ enqueued \subseteq Ids
    /\ connected \in BOOLEAN
    /\ consuming \subseteq Queues
    /\ held \in [Queues -> Delivery]
    /\ counts \in [Queues -> Nat]
    /\ allowed \in [Queues -> BOOLEAN]
    /\ reset \in {"idle", "close", "connect"}
    /\ timers \in [Ids -> Nat]
    /\ limit \in [Queues -> Nat]
    /\ changes \in Nat
    /\ record \in [Ids -> {"none", "free", "blocked"}]
    /\ reg \in [Ids -> {"new", "half", "done"}]
    /\ upd \in [Ids -> {"idle", "found", "blocked"}]
    /\ updates \in [Ids -> Nat]
    /\ automatic \in [Ids -> Nat]
    /\ manual \in [Ids -> Nat]

(* After Start: connected, both consumers running, counters at zero.        *)
SimulationInit ==
    /\ ready = [q \in Queues |-> <<>>]
    /\ unacked = [q \in Queues |-> <<>>]
    /\ enqueued = {}
    /\ connected = TRUE
    /\ consuming = Queues
    /\ held = [q \in Queues |-> NoDelivery]
    /\ counts = [q \in Queues |-> 0]
    /\ allowed = [q \in Queues |-> TRUE]
    /\ reset = "idle"
    /\ timers = [id \in Ids |-> 0]
    /\ limit = FirstLimit
    /\ changes = 0
    /\ record = [id \in Ids |-> "none"]
    /\ reg = [id \in Ids |-> "new"]
    /\ upd = [id \in Ids |-> "idle"]
    /\ updates = [id \in Ids |-> 0]
    /\ automatic = [id \in Ids |-> 0]
    /\ manual = [id \in Ids |-> 0]

-----------------------------------------------------------------------------
(* Publish: without an open channel the registration is logged and lost,    *)
(* and the request still answers 200.                                       *)
Publish(id) ==
    LET q == QueueOf[id]
    IN  IF connected
        THEN /\ ready' = [ready EXCEPT ![q] = Append(@, id)]
             /\ enqueued' = enqueued \cup {id}
             /\ UNCHANGED unacked
        ELSE UNCHANGED broker

Create(id) == record' = [record EXCEPT ![id] = "free"]

(* paymentRegister emits and then stores, shipmentRegister the other way    *)
(* round; the consumer can run in between.                                  *)
RegisterBegin(id) ==
    /\ reg[id] = "new"
    /\ reg' = [reg EXCEPT ![id] = "half"]
    /\ IF QueueOf[id] = "payments" THEN Publish(id) /\ UNCHANGED record
                                   ELSE Create(id) /\ UNCHANGED broker
    /\ UNCHANGED <<processor, upd, updates, config, sent>>

RegisterEnd(id) ==
    /\ reg[id] = "half"
    /\ reg' = [reg EXCEPT ![id] = "done"]
    /\ IF QueueOf[id] = "payments" THEN Create(id) /\ UNCHANGED broker
                                   ELSE Publish(id) /\ UNCHANGED record
    /\ UNCHANGED <<processor, upd, updates, config, sent>>

(* A manual update: look the record up (404 without one), block it if it is *)
(* still there, and send the status.                                        *)
UpdateFind(id) ==
    /\ upd[id] = "idle"
    /\ updates[id] < MaxUpdates
    /\ record[id] # "none"
    /\ upd' = [upd EXCEPT ![id] = "found"]
    /\ updates' = [updates EXCEPT ![id] = @ + 1]
    /\ UNCHANGED <<broker, processor, record, reg, config, sent>>

Block(id) ==
    /\ upd[id] = "found"
    /\ upd' = [upd EXCEPT ![id] = "blocked"]
    /\ record' = [record EXCEPT ![id] = IF @ = "none" THEN @ ELSE "blocked"]
    /\ UNCHANGED <<broker, processor, reg, updates, config, sent>>

UpdateSend(id) ==
    /\ upd[id] = "blocked"
    /\ upd' = [upd EXCEPT ![id] = "idle"]
    /\ manual' = [manual EXCEPT ![id] = @ + 1]
    /\ UNCHANGED <<broker, processor, record, reg, updates, config, automatic>>

SetVariables(q, n) ==
    /\ changes < MaxChanges
    /\ limit[q] # n
    /\ limit' = [limit EXCEPT ![q] = n]
    /\ changes' = changes + 1
    /\ UNCHANGED <<broker, processor, requests, sent>>

-----------------------------------------------------------------------------
(* The consumer of q takes the next delivery and reads the limit, before it *)
(* locks the processor.                                                     *)
Receive(q) ==
    /\ q \in consuming
    /\ held[q] = NoDelivery
    /\ ready[q] # <<>>
    /\ held' = [held EXCEPT ![q] = [id |-> Head(ready[q]), max |-> limit[q]]]
    /\ ready' = [ready EXCEPT ![q] = Tail(@)]
    /\ unacked' = [unacked EXCEPT ![q] = Append(@, Head(ready[q]))]
    /\ UNCHANGED <<enqueued, connected, consuming, counts, allowed, reset,
                   timers, requests, config, sent>>

(* The place of the delivery of id among the unacknowledged messages of q.  *)
Tag(q, id) == CHOOSE n \in DOMAIN unacked[q] : unacked[q][n] = id

(* On a closed channel the acknowledgement fails, which is only logged.     *)
Ack(q, id) ==
    IF connected
    THEN unacked' = [unacked EXCEPT ![q] = RemoveAt(@, Tag(q, id))]
    ELSE UNCHANGED unacked

(* AckGated: a message over the limit is acknowledged, and so dropped.      *)
AckGated(q) ==
    /\ held[q] # NoDelivery
    /\ counts[q] >= held[q].max
    /\ allowed' = [allowed EXCEPT ![q] = FALSE]
    /\ held' = [held EXCEPT ![q] = NoDelivery]
    /\ Ack(q, held[q].id)
    /\ UNCHANGED <<ready, enqueued, connected, consuming, counts, reset, timers,
                   requests, config, sent>>

(* consumeMessage over the limit: no acknowledgement, the queue is paused.  *)
Gate(q) ==
    /\ held[q] # NoDelivery
    /\ counts[q] >= held[q].max
    /\ allowed' = [allowed EXCEPT ![q] = FALSE]
    /\ held' = [held EXCEPT ![q] = NoDelivery]
    /\ UNCHANGED <<broker, connected, consuming, counts, reset, timers,
                   requests, config, sent>>

(* Callbacks are counted up to a bound: beyond it they make no difference.  *)
Counted(n) == IF n < MaxCounted THEN n + 1 ELSE n

(* consumeMessage under the limit: acknowledge, read and delete the record, *)
(* and schedule the callback unless the record was blocked.                 *)
Consume(q) ==
    LET id == held[q].id
    IN  /\ held[q] # NoDelivery
        /\ counts[q] < held[q].max
        /\ Ack(q, id)
        /\ held' = [held EXCEPT ![q] = NoDelivery]
        /\ record' = [record EXCEPT ![id] = "none"]
        /\ IF record[id] = "blocked" THEN UNCHANGED <<counts, timers>>
           ELSE /\ counts' = [counts EXCEPT ![q] = @ + 1]
                /\ timers' = [timers EXCEPT ![id] = Counted(@)]
        /\ UNCHANGED <<ready, enqueued, connected, consuming, allowed, reset,
                       reg, upd, updates, config, sent>>

(* The timer: roll the outcome and send it.                                 *)
BuildEventUpdate(id) ==
    /\ timers[id] > 0
    /\ timers' = [timers EXCEPT ![id] = @ - 1]
    /\ automatic' = [automatic EXCEPT ![id] = Counted(@)]
    /\ UNCHANGED <<broker, connected, consuming, held, counts, allowed, reset,
                   requests, config, manual>>

-----------------------------------------------------------------------------
(* ResetWithoutReconnect: the counters are zeroed and nothing else.         *)
ResetWithoutReconnect ==
    /\ reset = "idle"
    /\ counts' = [q \in Queues |-> 0]
    /\ allowed' = [q \in Queues |-> TRUE]
    /\ UNCHANGED <<broker, connected, consuming, held, reset, timers, requests,
                   config, sent>>

(* resetMessageCounts at a minute boundary.                                 *)
ResetMessageCounts ==
    /\ reset = "idle"
    /\ counts' = [q \in Queues |-> 0]
    /\ allowed' = [q \in Queues |-> TRUE]
    /\ reset' = IF \E q \in Queues : ~allowed[q] /\ limit[q] > 0
                THEN "close" ELSE "idle"
    /\ UNCHANGED <<broker, connected, consuming, held, timers, requests, config,
                   sent>>

(* When the channel closes, the broker puts back what was not acknowledged. *)
CloseChannel ==
    /\ connected' = FALSE
    /\ consuming' = {}
    /\ ready' = [q \in Queues |-> unacked[q] \o ready[q]]
    /\ unacked' = [q \in Queues |-> <<>>]
    /\ UNCHANGED enqueued

ReconnectClose ==
    /\ reset = "close"
    /\ CloseChannel
    /\ reset' = "connect"
    /\ UNCHANGED <<held, counts, allowed, timers, requests, config, sent>>

(* A new connection starts a new generation of consumers: a delivery of the *)
(* old one that was not processed yet is ignored.                           *)
ReconnectOpen ==
    /\ reset = "connect"
    /\ reset' = "idle"
    /\ connected' = TRUE
    /\ \E S \in SUBSET Queues : (Faults \/ S = Queues) /\ consuming' = S
    /\ held' = [q \in Queues |-> NoDelivery]
    /\ UNCHANGED <<broker, counts, allowed, timers, requests, config, sent>>

(* A connection that cannot be set up is not tried again.                   *)
ReconnectFails ==
    /\ Faults
    /\ reset = "connect"
    /\ reset' = "idle"
    /\ UNCHANGED <<broker, connected, consuming, held, counts, allowed, timers,
                   requests, config, sent>>

BrokerCloses ==
    /\ Faults
    /\ connected
    /\ CloseChannel
    /\ UNCHANGED <<held, counts, allowed, reset, timers, requests, config, sent>>

-----------------------------------------------------------------------------
Processor ==
    \/ \E q \in Queues : Receive(q) \/ Gate(q) \/ Consume(q)
    \/ \E id \in Ids : BuildEventUpdate(id)
    \/ ResetMessageCounts
    \/ ReconnectClose
    \/ ReconnectOpen
    \/ ReconnectFails
    \/ BrokerCloses

HandleRequests ==
    \/ \E id \in Ids : RegisterBegin(id) \/ RegisterEnd(id)
    \/ \E id \in Ids : UpdateFind(id) \/ Block(id) \/ UpdateSend(id)
    \/ \E q \in Queues, n \in Limits : SetVariables(q, n)

SimulationNext == Processor \/ HandleRequests

SimulationSpec == SimulationInit /\ [][SimulationNext]_vars

(* The consumers, timers and requests that were started run on, and the     *)
(* reset loop wakes at every minute; no request has to arrive.              *)
SimulationFairSpec ==
    /\ SimulationSpec
    /\ \A q \in Queues : WF_vars(Receive(q)) /\ WF_vars(Gate(q) \/ Consume(q))
    /\ \A id \in Ids : WF_vars(BuildEventUpdate(id)) /\ WF_vars(RegisterEnd(id))
                       /\ WF_vars(Block(id) \/ UpdateSend(id))
    /\ WF_vars(ResetMessageCounts)
    /\ WF_vars(ReconnectClose \/ ReconnectOpen)
-----------------------------------------------------------------------------
(* Properties.                                                              *)

(* A registration that reached its queue is never lost, whatever the limits *)
(* do and whenever the connection closes: it is still with the broker, or   *)
(* its callback is on the way or was sent.                                  *)
NoRegistrationLost ==
    \A id \in enqueued :
        \/ id \in ToSet(ready[QueueOf[id]] \o unacked[QueueOf[id]])
        \/ timers[id] > 0 \/ automatic[id] > 0
        \/ upd[id] = "blocked" \/ manual[id] > 0

Answered(id) == automatic[id] > 0 \/ manual[id] > 0

(* The limits let something through, and the consumers run or are about to  *)
(* be started again.                                                        *)
Serving ==
    /\ \A q \in Queues : limit[q] > 0
    /\ consuming = Queues \/ reset # "idle"

(* While no limit is zero and the broker never leaves a queue without its   *)
(* consumer, every registration that reached its queue is answered, however *)
(* many messages the limits hold back, whenever the limits change and       *)
(* whichever queue forces the reconnect.                                    *)
EnqueuedIsAnswered ==
    []Serving => \A id \in Ids : id \in enqueued ~> Answered(id)
=============================================================================
