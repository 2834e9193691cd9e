--------------------------- MODULE DurableDelivery ---------------------------
(***************************************************************************)
(* Durable, acknowledged delivery in the tyo-mq broker (lib/server.js):    *)
(* the store-and-forward queue, the table of pending ACKs with its ACK and *)
(* retry timers, the replay on SUBSCRIBE, the dead-letter queue with its   *)
(* replay and discard commands, and the socket events that cut through all *)
(* of them (CONSUMER, disconnect, a restart of the broker).                *)
(*                                                                         *)
(* The broker is one Node.js process: a handler runs to its end, but every *)
(* call of the store is a promise, so other handlers run between the call, *)
(* its effect in the store and its continuation.  A call in flight is      *)
(* state here (enqueues, dequeues, ackCalls, deadLetters, replays).        *)
(*                                                                         *)
(* Abstractions.  One realm; each consumer name has one subscription (its  *)
(* own event string) and a stable consumer_id.  A message is its msgId:    *)
(* payload, producer and chunking do not influence the control.  Time is   *)
(* abstract: a timer that is set may fire at any later moment.             *)
(***************************************************************************)
EXTENDS Naturals, FiniteSets

CONSTANTS
    Consumers,      \* consumer names
    Sockets,        \* socket ids; socket.io never uses one twice
    Ids,            \* msgIds that the store may hand out
    Calls,          \* slots for replays in flight: bounds their number
    NoSocket,       \* consumerMeta.socket === null
    NoConsumer,
    NoId,
    NoSubscription,
    MaxAttempts,    \* retry.max_attempts of the subscriptions (default 3)
    SyncStore,      \* TRUE: memory and sqlite stores, FALSE: the Redis store
    Capped,         \* limits are on and max_queued_per_realm is set
    MaxQueued,      \* max_queued_per_realm; a store that counts enforces it
    NoCount,        \* countQueued answered null, or was not asked
    Offered,        \* bound: the options that clients subscribe with
    MaxSubscribes,  \* bound: SUBSCRIBE messages in a behaviour
    MaxFailures,    \* bound: store calls that reject
    MaxRestarts,    \* bound: restarts and crashes of the broker
    MaxExpiries     \* bound: messages whose TTL runs out

ASSUME NoSocketAssumption == NoSocket \notin Sockets
ASSUME NoConsumerAssumption == NoConsumer \notin Consumers
ASSUME NoIdAssumption == NoId \notin Ids
ASSUME MaxAttemptsAssumption == MaxAttempts \in Nat \ {0}
ASSUME SyncStoreAssumption == SyncStore \in BOOLEAN
ASSUME MaxQueuedAssumption ==
    /\ Capped \in BOOLEAN
    /\ MaxQueued \in Nat
    /\ NoCount \notin Nat
ASSUME BoundsAssumption ==
    /\ MaxSubscribes \in Nat
    /\ MaxFailures \in Nat
    /\ MaxRestarts \in Nat
    /\ MaxExpiries \in Nat

(* What a subscription asks for: subscription.durable, .ack_required.      *)
Options == [durable : BOOLEAN, ack : BOOLEAN]

ASSUME NoSubscriptionAssumption == NoSubscription \notin Options
ASSUME OfferedAssumption == Offered \subseteq Options

Attempts == 1..MaxAttempts

VARIABLES
    (* The broker's memory. *)
    connected,      \* the sockets that are open
    seen,           \* the sockets that were ever open
    socketOf,       \* consumerMeta.socket by consumer name
    subscription,   \* realm.subscriptions, by consumer name
    pendingAcks,    \* by msgId: the socket and attempt awaiting an ACK
    retryTimers,    \* by msgId and attempt: retry setTimeouts that are set
    (* The store. *)
    queue,          \* the msgIds it holds as queued
    dlq,            \* the msgIds in its dead-letter queue
    addressee,      \* by msgId: entry.consumer
    (* Calls of the store in flight. *)
    enqueues,       \* by msgId: its enqueue call, and the count it goes by
    dequeues,       \* by slot: a replay's dequeue call
    ackCalls,       \* msgIds of store.ack calls
    deadLetters,    \* <<msgId, phase>> of store.deadLetter calls
    replays,        \* by new msgId: the dlq_replay command copying into it
    copyOf,         \* by new msgId: the dead letter it was copied from
    (* Bounds. *)
    budget,         \* what is left of the bounds
    (* History, read by properties only. *)
    stored,         \* msgIds that were ever in the queue
    sentTo,         \* <<msgId, socket>> of every delivery that awaits an ACK
    sends,          \* by msgId: such deliveries, up to MaxAttempts
    ackedBy,        \* <<msgId, socket>> of every ACK that was accepted
    ackOk,          \* msgIds whose ACK the store confirmed
    finished,       \* msgIds acked, replayed to a client without ACK,
                    \* discarded by the operator, or expired
    attached,       \* consumers with a SUBSCRIBE since they were last bound
    blackholed,     \* consumers whose durable message went to a closed socket
    threw           \* a handler threw an exception that nothing catches

memory == <<connected, seen, socketOf, subscription, pendingAcks, retryTimers>>
store == <<queue, dlq, addressee>>
inflight == <<enqueues, dequeues, ackCalls, deadLetters, replays, copyOf>>
history == <<stored, sentTo, sends, ackedBy, ackOk, finished,
             attached, blackholed, threw>>
vars == <<memory, store, inflight, budget, history>>

NoPending == [socket |-> NoSocket, attempt |-> 0]
NoEnqueue == [phase |-> "none", deliver |-> FALSE, count |-> NoCount]
IdleCall == [phase |-> "idle", consumer |-> NoConsumer, ids |-> {}]

Bounds == {"subscribes", "failures", "restarts", "expiries"}
EnqueuePhases == {"none", "waiting", "store", "stored"}
DequeuePhases == {"idle", "index", "read", "reply"}
ReplayPhases == {"none", "enqueue", "discard", "nudge"}
DeadLetterPhases == {"read", "copy", "remove"}

MemoryTypeOK ==
    /\ connected \subseteq seen
    /\ seen \subseteq Sockets
    /\ socketOf \in [Consumers -> Sockets \cup {NoSocket}]
    /\ subscription \in [Consumers -> Options \cup {NoSubscription}]
    /\ pendingAcks \in [Ids -> [socket : Sockets \cup {NoSocket},
                                attempt : 0..MaxAttempts]]
    /\ retryTimers \in [Ids \X Attempts -> Nat]

StoreTypeOK ==
    /\ queue \subseteq Ids
    /\ dlq \subseteq Ids
    /\ addressee \in [Ids -> Consumers \cup {NoConsumer}]

InflightTypeOK ==
    /\ enqueues \in [Ids -> [phase : EnqueuePhases, deliver : BOOLEAN,
                             count : Nat \cup {NoCount}]]
    /\ dequeues \in [Calls -> [phase : DequeuePhases,
                               consumer : Consumers \cup {NoConsumer},
                               ids : SUBSET Ids]]
    /\ ackCalls \subseteq Ids
    /\ deadLetters \subseteq Ids \X DeadLetterPhases
    /\ replays \in [Ids -> ReplayPhases]
    /\ copyOf \in [Ids -> Ids \cup {NoId}]

HistoryTypeOK ==
    /\ stored \subseteq Ids
    /\ sentTo \subseteq Ids \X Sockets
    /\ sends \in [Ids -> 0..MaxAttempts]
    /\ ackedBy \subseteq Ids \X Sockets
    /\ ackOk \subseteq Ids
    /\ finished \subseteq Ids
    /\ attached \subseteq Consumers
    /\ blackholed \subseteq Consumers
    /\ threw \in BOOLEAN

BudgetTypeOK == budget \in [Bounds -> Nat]

TypeOK ==
    /\ MemoryTypeOK
    /\ StoreTypeOK
    /\ InflightTypeOK
    /\ BudgetTypeOK
    /\ HistoryTypeOK

(* Nothing is queued when the store is first opened. *)
Init ==
    /\ connected = {}
    /\ seen = {}
    /\ socketOf = [c \in Consumers |-> NoSocket]
    /\ subscription = [c \in Consumers |-> NoSubscription]
    /\ pendingAcks = [id \in Ids |-> NoPending]
    /\ retryTimers = [timer \in Ids \X Attempts |-> 0]
    /\ queue = {}
    /\ dlq = {}
    /\ addressee = [id \in Ids |-> NoConsumer]
    /\ enqueues = [id \in Ids |-> NoEnqueue]
    /\ dequeues = [k \in Calls |-> IdleCall]
    /\ ackCalls = {}
    /\ deadLetters = {}
    /\ replays = [id \in Ids |-> "none"]
    /\ copyOf = [id \in Ids |-> NoId]
    /\ budget = [bound \in Bounds |->
                   IF bound = "subscribes" THEN MaxSubscribes
                   ELSE IF bound = "failures" THEN MaxFailures
                   ELSE IF bound = "restarts" THEN MaxRestarts
                   ELSE MaxExpiries]
    /\ stored = {}
    /\ sentTo = {}
    /\ sends = [id \in Ids |-> 0]
    /\ ackedBy = {}
    /\ ackOk = {}
    /\ finished = {}
    /\ attached = {}
    /\ blackholed = {}
    /\ threw = FALSE

-----------------------------------------------------------------------------
(* The stores.                                                             *)
(*                                                                         *)
(* The memory and sqlite stores apply a call when it is made and settle    *)
(* its promise at once: the continuations run as microtasks, before the    *)
(* event loop takes the next message or timer.  The Redis store takes      *)
(* several round trips for one call, and other handlers run meanwhile.     *)

OnlyEnqueues(phases) ==
    /\ \A id \in Ids : enqueues[id].phase \in phases /\ replays[id] = "none"
    /\ \A k \in Calls : dequeues[k].phase = "idle"
    /\ ackCalls = {}
    /\ deadLetters = {}

EventLoopFree == SyncStore => OnlyEnqueues({"none"})

(* How an enqueue begins: in enqueueCapChains, or with the call itself.    *)
Entered == IF Capped THEN "waiting" ELSE "store"

(* A PRODUCE goes to all its subscriptions in one run of the handler       *)
(* (generateMessage), and none of the promises has run a continuation yet. *)
HandlerRuns == SyncStore => OnlyEnqueues({"none", Entered})

Unused(id) == addressee[id] = NoConsumer

Spend(bound) ==
    /\ budget[bound] > 0
    /\ budget' = [budget EXCEPT ![bound] = @ - 1]

(* Whether a call that rejects was applied all the same: over a network    *)
(* the reply may be what is lost.                                          *)
AppliedThough == IF SyncStore THEN {FALSE} ELSE BOOLEAN

-----------------------------------------------------------------------------
(* Deliveries that await an ACK.                                           *)

(* scheduleAckTimeout: the entry and its ACK timer are one: every place    *)
(* that removes or replaces the entry clears the timer.                    *)
AwaitAck(ids, s, attempt) ==
    pendingAcks' = [id \in Ids |-> IF id \in ids
                                   THEN [socket |-> s, attempt |-> attempt]
                                   ELSE pendingAcks[id]]

Record(ids, s) ==
    /\ sentTo' = sentTo \cup (ids \X {s})
    /\ sends' = [id \in Ids |-> IF id \in ids /\ sends[id] < MaxAttempts
                                THEN sends[id] + 1 ELSE sends[id]]

(* deliverDurableEntry: send, and (re)start the ACK timer of the message.  *)
DeliverDurableEntry(ids, s, attempt) ==
    /\ AwaitAck(ids, s, attempt)
    /\ Record(ids, s)

(* replayDurableMessages: the dequeue call that a replay starts with.      *)
StartReplay(c) ==
    \E k \in Calls :
        /\ dequeues[k].phase = "idle"
        /\ dequeues' = [dequeues EXCEPT
                          ![k] = [phase |-> "index", consumer |-> c,
                                  ids |-> {}]]

-----------------------------------------------------------------------------
(* Socket events.                                                          *)

Connect(s) ==
    /\ EventLoopFree
    /\ s \in Sockets \ seen
    /\ connected' = connected \cup {s}
    /\ seen' = seen \cup {s}
    /\ UNCHANGED <<socketOf, subscription, pendingAcks, retryTimers, store,
                   inflight, budget, history>>

(* Mutant: the handler leaves the names of the socket bound. *)
OfflineForgotten(s) == {{}}

(* The consumer entries that the disconnect handler marks offline: the     *)
(* loop over realm.consumers stops at the first name of the socket.        *)
Offline(s) ==
    LET names == {c \in Consumers : socketOf[c] = s}
    IN  IF names = {} THEN {{}} ELSE {{c} : c \in names}

(* pendingAcks of the socket are deleted and their timers cleared; retry   *)
(* timers are not tracked and stay set.                                    *)
ForgetPending(s) ==
    pendingAcks' = [id \in Ids |-> IF pendingAcks[id].socket = s
                                   THEN NoPending ELSE pendingAcks[id]]

(* socket.on('disconnect'): the client left, QUIT, or a ping timeout.      *)
Disconnect(s) ==
    /\ EventLoopFree
    /\ s \in connected
    /\ connected' = connected \ {s}
    /\ ForgetPending(s)
    /\ \E names \in Offline(s) :
          /\ socketOf' = [c \in Consumers |-> IF c \in names THEN NoSocket
                                              ELSE socketOf[c]]
          /\ attached' = attached \ names
    /\ UNCHANGED <<seen, subscription, retryTimers, store, inflight, budget,
                   stored, sentTo, sends, ackedBy, ackOk, finished, blackholed,
                   threw>>

(* CONSUMER: the name moves to this socket.  A live socket that held it is *)
(* closed first, and its disconnect handler runs before the name is bound. *)
(* The queue is not replayed.                                              *)
RegisterConsumer(s, c) ==
    /\ EventLoopFree
    /\ s \in connected
    /\ socketOf[c] # s
    /\ IF socketOf[c] \in connected
       THEN /\ connected' = connected \ {socketOf[c]}
            /\ ForgetPending(socketOf[c])
            /\ \E names \in Offline(socketOf[c]) :
                  /\ socketOf' = [d \in Consumers |->
                                    IF d = c THEN s
                                    ELSE IF d \in names THEN NoSocket
                                    ELSE socketOf[d]]
                  /\ attached' = attached \ (names \cup {c})
       ELSE /\ socketOf' = [socketOf EXCEPT ![c] = s]
            /\ attached' = attached \ {c}
            /\ UNCHANGED <<connected, pendingAcks>>
    /\ UNCHANGED <<seen, subscription, retryTimers, store, inflight, budget,
                   stored, sentTo, sends, ackedBy, ackOk, finished, blackholed,
                   threw>>

(* SUBSCRIBE: binds the name to this socket only when it has none, stores  *)
(* the options and replays the queue to the socket the name is bound to.   *)
Subscribe(s, c, options) ==
    /\ EventLoopFree
    /\ s \in connected
    /\ Spend("subscribes")
    /\ socketOf' = [socketOf EXCEPT ![c] = IF @ = NoSocket THEN s ELSE @]
    /\ subscription' = [subscription EXCEPT ![c] = options]
    /\ attached' = attached \cup {c}
    /\ StartReplay(c)
    /\ UNCHANGED <<connected, seen, pendingAcks, retryTimers, store, enqueues,
                   ackCalls, deadLetters, replays, copyOf, stored, sentTo,
                   sends, ackedBy, ackOk, finished, blackholed, threw>>

-----------------------------------------------------------------------------
(* PRODUCE: deliverToSubscription for one subscriber of the event.         *)

CanStore(c, guaranteed) == subscription[c].durable \/ guaranteed

(* Online with ACK: enqueueAndDeliverReliable.  Offline: enqueue only.     *)
(* Several of these make one PRODUCE: to other consumers, or to another    *)
(* subscription of the same one (its event, and all events).               *)
ProduceStored(c, guaranteed) ==
    /\ HandlerRuns
    /\ subscription[c] \in Options
    /\ CanStore(c, guaranteed)
    /\ socketOf[c] = NoSocket \/ subscription[c].ack
    /\ \E id \in Ids :
          /\ Unused(id)
          /\ addressee' = [addressee EXCEPT ![id] = c]
          /\ enqueues' = [enqueues EXCEPT
                            ![id] = [phase |-> Entered,
                                     deliver |-> socketOf[c] # NoSocket,
                                     count |-> NoCount]]
    /\ UNCHANGED <<memory, queue, dlq, dequeues, ackCalls, deadLetters, replays,
                   copyOf, budget, history>>

(* Online without ACK: sent to the bound socket and forgotten.             *)
ProducePlain(c) ==
    /\ EventLoopFree
    /\ subscription[c] \in Options
    /\ socketOf[c] # NoSocket
    /\ ~subscription[c].ack
    /\ blackholed' = IF subscription[c].durable /\ socketOf[c] \notin connected
                     THEN blackholed \cup {c} ELSE blackholed
    /\ UNCHANGED <<memory, store, inflight, budget, stored, sentTo, sends,
                   ackedBy, ackOk, finished, attached, threw>>

(* What a restart loses: all but the store.  A store call in flight is     *)
(* abandoned: it was applied before the restart, or never is.              *)
LoseMemory ==
    /\ connected' = {}
    /\ socketOf' = [c \in Consumers |-> NoSocket]
    /\ subscription' = [c \in Consumers |-> NoSubscription]
    /\ pendingAcks' = [id \in Ids |-> NoPending]
    /\ retryTimers' = [timer \in Ids \X Attempts |-> 0]
    /\ enqueues' = [id \in Ids |-> NoEnqueue]
    /\ dequeues' = [k \in Calls |-> IdleCall]
    /\ ackCalls' = {}
    /\ deadLetters' = {}
    /\ replays' = [id \in Ids |-> "none"]
    /\ attached' = {}
    /\ UNCHANGED <<seen, store, copyOf, stored, sentTo, sends, ackedBy, ackOk,
                   finished, blackholed>>

(* Online with ACK, but neither the subscription nor the message durable:  *)
(* enqueueDurableMessage returns undefined, enqueueAndDeliverReliable      *)
(* calls .then of it, and the TypeError ends the process.                  *)
ProduceThrows(c) ==
    /\ EventLoopFree
    /\ subscription[c] \in Options
    /\ socketOf[c] # NoSocket
    /\ subscription[c].ack
    /\ ~CanStore(c, FALSE)
    /\ Spend("restarts")
    /\ threw' = TRUE
    /\ LoseMemory

Restart ==
    /\ Spend("restarts")
    /\ LoseMemory
    /\ UNCHANGED threw

-----------------------------------------------------------------------------
(* enqueueDurableMessage: countQueued, store.enqueue, the continuation.    *)

(* Mutant: nothing waits for the enqueue before it. *)
ChainIgnored == TRUE

(* enqueueCapChains: a link counts when the link before it has settled.    *)
(* (The links run in the order they came; nothing here depends on it.)     *)
ChainFree == \A id \in Ids : enqueues[id].phase # "store"

(* countQueued(realm), and what it answers is what the link goes by from   *)
(* here on; the Redis store answers null, and nothing is capped.  (No      *)
(* store of the broker rejects the call.)                                  *)
CountQueued(id) ==
    /\ enqueues[id].phase = "waiting"
    /\ ChainFree
    /\ enqueues' = [enqueues EXCEPT
                      ![id] = [phase |-> "store", deliver |-> @.deliver,
                               count |-> IF SyncStore THEN Cardinality(queue)
                                         ELSE NoCount]]
    /\ UNCHANGED <<memory, store, dequeues, ackCalls, deadLetters, replays,
                   copyOf, budget, history>>

(* Mutant: one message too many. *)
AtCapLate(count) == count # NoCount /\ count > MaxQueued

AtCap(count) == count # NoCount /\ count >= MaxQueued

(* Below the cap by its count, or uncounted: the message is enqueued, and  *)
(* visible (in Redis, at the ZADD that ends the call).                     *)
Enqueued(id) ==
    /\ enqueues[id].phase = "store"
    /\ ~AtCap(enqueues[id].count)
    /\ queue' = queue \cup {id}
    /\ stored' = stored \cup {id}
    /\ enqueues' = [enqueues EXCEPT
                      ![id] = IF @.deliver THEN [@ EXCEPT !.phase = "stored"]
                              ELSE NoEnqueue]
    /\ UNCHANGED <<memory, dlq, addressee, dequeues, ackCalls, deadLetters,
                   replays, copyOf, budget, sentTo, sends, ackedBy, ackOk,
                   finished, attached, blackholed, threw>>

(* The quota drops the message: logged, no msgId, no delivery.             *)
EnqueueDropped(id) ==
    /\ enqueues[id].phase = "store"
    /\ AtCap(enqueues[id].count)
    /\ enqueues' = [enqueues EXCEPT ![id] = NoEnqueue]
    /\ UNCHANGED <<memory, store, dequeues, ackCalls, deadLetters, replays,
                   copyOf, budget, history>>

(* Mutant: delivery does not wait for the enqueue to be applied. *)
DeliverUnstored(id) ==
    LET c == addressee[id]
    IN  /\ enqueues[id].phase = "store"
        /\ enqueues[id].deliver
        /\ enqueues' = [enqueues EXCEPT ![id].deliver = FALSE]
        /\ IF socketOf[c] # NoSocket
           THEN DeliverDurableEntry({id}, socketOf[c], 1)
           ELSE UNCHANGED <<pendingAcks, sentTo, sends>>
        /\ UNCHANGED <<connected, seen, socketOf, subscription, retryTimers,
                       store, dequeues, ackCalls, deadLetters, replays, copyOf,
                       budget, stored, ackedBy, ackOk, finished, attached,
                       blackholed, threw>>

(* The continuation has the msgId: first delivery, if still online.        *)
DeliverStored(id) ==
    LET c == addressee[id]
    IN  /\ enqueues[id].phase = "stored"
        /\ enqueues' = [enqueues EXCEPT ![id] = NoEnqueue]
        /\ IF socketOf[c] # NoSocket
           THEN DeliverDurableEntry({id}, socketOf[c], 1)
           ELSE UNCHANGED <<pendingAcks, sentTo, sends>>
        /\ UNCHANGED <<connected, seen, socketOf, subscription, retryTimers,
                       store, dequeues, ackCalls, deadLetters, replays, copyOf,
                       budget, stored, ackedBy, ackOk, finished, attached,
                       blackholed, threw>>

(* The call rejects: logged, no msgId, no delivery.                        *)
EnqueueFails(id) ==
    /\ enqueues[id].phase = "store"
    /\ Spend("failures")
    /\ enqueues' = [enqueues EXCEPT ![id] = NoEnqueue]
    /\ \E applied \in AppliedThough :
          /\ queue' = IF applied THEN queue \cup {id} ELSE queue
          /\ stored' = IF applied THEN stored \cup {id} ELSE stored
    /\ UNCHANGED <<memory, dlq, addressee, dequeues, ackCalls, deadLetters,
                   replays, copyOf, sentTo, sends, ackedBy, ackOk, finished,
                   attached, blackholed, threw>>

-----------------------------------------------------------------------------
(* replayDurableMessages after its call of store.dequeue.                  *)

(* The ids of the consumer's queue (in Redis, ZRANGE). *)
DequeueIndex(k) ==
    /\ dequeues[k].phase = "index"
    /\ LET c == dequeues[k].consumer
       IN  dequeues' = [dequeues EXCEPT
                          ![k] = [phase |-> "read", consumer |-> c,
                                  ids |-> {id \in queue : addressee[id] = c}]]
    /\ UNCHANGED <<memory, store, enqueues, ackCalls, deadLetters, replays,
                   copyOf, budget, history>>

(* The messages themselves (in Redis, the GETs): ids whose message was     *)
(* removed meanwhile are skipped.  Nothing leaves the queue.               *)
DequeueRead(k) ==
    /\ dequeues[k].phase = "read"
    /\ dequeues' = [dequeues EXCEPT
                      ![k] = [phase |-> "reply", consumer |-> @.consumer,
                              ids |-> @.ids \cap queue]]
    /\ UNCHANGED <<memory, store, enqueues, ackCalls, deadLetters, replays,
                   copyOf, budget, history>>

(* The continuation: every entry goes to the socket the consumer has now,  *)
(* to await an ACK or, for a client that does not ACK, to be acked at once.*)
ReplayDurableMessages(k) ==
    LET c == dequeues[k].consumer
        ids == dequeues[k].ids
    IN  /\ dequeues[k].phase = "reply"
        /\ dequeues' = [dequeues EXCEPT ![k] = IdleCall]
        /\ \/ /\ socketOf[c] = NoSocket
              /\ UNCHANGED <<pendingAcks, ackCalls, sentTo, sends, finished,
                             blackholed>>
           \/ /\ socketOf[c] # NoSocket
              /\ subscription[c].ack
              /\ DeliverDurableEntry(ids, socketOf[c], 1)
              /\ UNCHANGED <<ackCalls, finished, blackholed>>
           \/ /\ socketOf[c] # NoSocket
              /\ ~subscription[c].ack
              /\ ackCalls' = ackCalls \cup ids
              /\ finished' = finished \cup ids
              /\ blackholed' = IF ids # {} /\ socketOf[c] \notin connected
                               THEN blackholed \cup {c} ELSE blackholed
              /\ UNCHANGED <<pendingAcks, sentTo, sends>>
        /\ UNCHANGED <<connected, seen, socketOf, subscription, retryTimers,
                       store, enqueues, deadLetters, replays, copyOf, budget,
                       stored, ackedBy, ackOk, attached, threw>>

(* The call rejects: logged, nothing is replayed. *)
DequeueFails(k) ==
    /\ dequeues[k].phase \in {"index", "read"}
    /\ Spend("failures")
    /\ dequeues' = [dequeues EXCEPT ![k] = IdleCall]
    /\ UNCHANGED <<memory, store, enqueues, ackCalls, deadLetters, replays,
                   copyOf, history>>

-----------------------------------------------------------------------------
(* ACK, the ACK timeout and the retries.                                   *)

(* Mutant: any socket may ACK what is pending. *)
AckIsAnyones(s, id) == pendingAcks[id] # NoPending

(* ACK {msgId}: refused with 404 when nothing is pending under the msgId,  *)
(* with 403 when it was sent to another socket: neither changes anything.  *)
AckIsOwn(s, id) ==
    /\ pendingAcks[id] # NoPending
    /\ pendingAcks[id].socket = s

Ack(s, id) ==
    /\ EventLoopFree
    /\ s \in connected
    /\ AckIsOwn(s, id)
    /\ pendingAcks' = [pendingAcks EXCEPT ![id] = NoPending]
    /\ ackCalls' = ackCalls \cup {id}
    /\ ackedBy' = ackedBy \cup {<<id, s>>}
    /\ finished' = finished \cup {id}
    /\ UNCHANGED <<connected, seen, socketOf, subscription, retryTimers, store,
                   enqueues, dequeues, deadLetters, replays, copyOf, budget,
                   stored, sentTo, sends, ackOk, attached, blackholed, threw>>

(* store.ack applied. *)
StoreAck(id) ==
    /\ id \in ackCalls
    /\ ackCalls' = ackCalls \ {id}
    /\ queue' = queue \ {id}
    /\ ackOk' = ackOk \cup {id}
    /\ UNCHANGED <<memory, dlq, addressee, enqueues, dequeues, deadLetters,
                   replays, copyOf, budget, stored, sentTo, sends, ackedBy,
                   finished, attached, blackholed, threw>>

(* store.ack rejects: ACK_FAIL 500, and the message may still be queued.   *)
StoreAckFails(id) ==
    /\ id \in ackCalls
    /\ Spend("failures")
    /\ ackCalls' = ackCalls \ {id}
    /\ \E applied \in AppliedThough :
          queue' = IF applied THEN queue \ {id} ELSE queue
    /\ UNCHANGED <<memory, dlq, addressee, enqueues, dequeues, deadLetters,
                   replays, copyOf, history>>

(* Mutants: one attempt too many, and one too few. *)
ExhaustedLate(attempt) == attempt > MaxAttempts
ExhaustedEarly(attempt) == attempt + 1 >= MaxAttempts

(* The ACK timer: after the last attempt the message is dead-lettered,     *)
(* before it a retry timer is set.  Nothing keeps a handle on that timer.  *)
Exhausted(attempt) == attempt >= MaxAttempts

(* Mutant: the timer of the first attempts sets no retry. *)
AckTimeoutGivesUp(id) ==
    LET attempt == pendingAcks[id].attempt
    IN  /\ EventLoopFree
        /\ pendingAcks[id] # NoPending
        /\ pendingAcks' = [pendingAcks EXCEPT ![id] = NoPending]
        /\ deadLetters' = IF Exhausted(attempt)
                          THEN deadLetters \cup {<<id, "read">>}
                          ELSE deadLetters
        /\ UNCHANGED <<connected, seen, socketOf, subscription, retryTimers,
                       store, enqueues, dequeues, ackCalls, replays, copyOf,
                       budget, history>>

AckTimeout(id) ==
    LET attempt == pendingAcks[id].attempt
    IN  /\ EventLoopFree
        /\ pendingAcks[id] # NoPending
        /\ pendingAcks' = [pendingAcks EXCEPT ![id] = NoPending]
        /\ IF Exhausted(attempt)
           THEN /\ deadLetters' = deadLetters \cup {<<id, "read">>}
                /\ UNCHANGED retryTimers
           ELSE /\ retryTimers' = [retryTimers EXCEPT
                                     ![<<id, attempt>>] = @ + 1]
                /\ UNCHANGED deadLetters
        /\ UNCHANGED <<connected, seen, socketOf, subscription, store, enqueues,
                       dequeues, ackCalls, replays, copyOf, budget, history>>

(* The retry timer set after `attempt': delivers again to the socket the   *)
(* consumer has now, whatever became of the message in between.            *)
RetryFire(id, attempt) ==
    LET c == addressee[id]
    IN  /\ EventLoopFree
        /\ retryTimers[<<id, attempt>>] > 0
        /\ retryTimers' = [retryTimers EXCEPT ![<<id, attempt>>] = @ - 1]
        /\ IF socketOf[c] # NoSocket
           THEN DeliverDurableEntry({id}, socketOf[c], attempt + 1)
           ELSE UNCHANGED <<pendingAcks, sentTo, sends>>
        /\ UNCHANGED <<connected, seen, socketOf, subscription, store, inflight,
                       budget, stored, ackedBy, ackOk, finished, attached,
                       blackholed, threw>>

(* store.deadLetter: a message that is still queued is copied to the DLQ   *)
(* and then acked.  Over Redis an ACK, or a dlq command, may come between. *)
DeadLetterRead(id) ==
    /\ <<id, "read">> \in deadLetters
    /\ deadLetters' = (deadLetters \ {<<id, "read">>})
                        \cup (IF id \in queue THEN {<<id, "copy">>} ELSE {})
    /\ UNCHANGED <<memory, store, enqueues, dequeues, ackCalls, replays, copyOf,
                   budget, history>>

DeadLetterCopy(id) ==
    /\ <<id, "copy">> \in deadLetters
    /\ deadLetters' = (deadLetters \ {<<id, "copy">>}) \cup {<<id, "remove">>}
    /\ dlq' = dlq \cup {id}
    /\ UNCHANGED <<memory, queue, addressee, enqueues, dequeues, ackCalls,
                   replays, copyOf, budget, history>>

DeadLetterRemove(id) ==
    /\ <<id, "remove">> \in deadLetters
    /\ deadLetters' = deadLetters \ {<<id, "remove">>}
    /\ queue' = queue \ {id}
    /\ UNCHANGED <<memory, dlq, addressee, enqueues, dequeues, ackCalls,
                   replays, copyOf, budget, history>>

(* store.deadLetter rejects: logged; no timer is left for the message.     *)
DeadLetterFails(id, phase) ==
    /\ <<id, phase>> \in deadLetters
    /\ Spend("failures")
    /\ deadLetters' = deadLetters \ {<<id, phase>>}
    /\ \E applied \in AppliedThough :
          /\ dlq' = IF applied /\ phase = "copy" THEN dlq \cup {id} ELSE dlq
          /\ queue' = IF applied /\ phase = "remove" THEN queue \ {id}
                      ELSE queue
    /\ UNCHANGED <<memory, addressee, enqueues, dequeues, ackCalls, replays,
                   copyOf, history>>

(* The TTL of a queued message runs out. *)
Expire(id) ==
    /\ id \in queue
    /\ Spend("expiries")
    /\ queue' = queue \ {id}
    /\ finished' = finished \cup {id}
    /\ UNCHANGED <<memory, dlq, addressee, inflight, stored, sentTo, sends,
                   ackedBy, ackOk, attached, blackholed, threw>>

-----------------------------------------------------------------------------
(* The management commands dlq_replay and dlq_discard.                     *)

(* Mutant: the entry leaves the DLQ before its copy is enqueued. *)
DlqReplayDiscardFirst(entry) ==
    /\ EventLoopFree
    /\ entry \in dlq
    /\ dlq' = dlq \ {entry}
    /\ \E id \in Ids :
          /\ Unused(id)
          /\ addressee' = [addressee EXCEPT ![id] = addressee[entry]]
          /\ replays' = [replays EXCEPT ![id] = "enqueue"]
          /\ copyOf' = [copyOf EXCEPT ![id] = entry]
    /\ UNCHANGED <<memory, queue, enqueues, dequeues, ackCalls, deadLetters,
                   budget, history>>

(* dlq_replay after listDlq found the entry: a copy with a new msgId is    *)
(* enqueued, then the entry is discarded, then the consumer is nudged.     *)
DlqReplay(entry) ==
    /\ EventLoopFree
    /\ entry \in dlq
    /\ \E id \in Ids :
          /\ Unused(id)
          /\ addressee' = [addressee EXCEPT ![id] = addressee[entry]]
          /\ replays' = [replays EXCEPT ![id] = "enqueue"]
          /\ copyOf' = [copyOf EXCEPT ![id] = entry]
    /\ UNCHANGED <<memory, queue, dlq, enqueues, dequeues, ackCalls,
                   deadLetters, budget, history>>

DlqReplayEnqueued(id) ==
    /\ replays[id] = "enqueue"
    /\ replays' = [replays EXCEPT ![id] = "discard"]
    /\ queue' = queue \cup {id}
    /\ stored' = stored \cup {id}
    /\ UNCHANGED <<memory, dlq, addressee, enqueues, dequeues, ackCalls,
                   deadLetters, copyOf, budget, sentTo, sends, ackedBy, ackOk,
                   finished, attached, blackholed, threw>>

DlqReplayDiscarded(id) ==
    /\ replays[id] = "discard"
    /\ replays' = [replays EXCEPT ![id] = "nudge"]
    /\ dlq' = dlq \ {copyOf[id]}
    /\ UNCHANGED <<memory, queue, addressee, enqueues, dequeues, ackCalls,
                   deadLetters, copyOf, budget, history>>

(* attemptDlqLiveReplay: replays the queue of a consumer that is online.   *)
AttemptDlqLiveReplay(id) ==
    LET c == addressee[id]
    IN  /\ replays[id] = "nudge"
        /\ replays' = [replays EXCEPT ![id] = "none"]
        /\ IF subscription[c] \in Options /\ socketOf[c] # NoSocket
           THEN StartReplay(c)
           ELSE UNCHANGED dequeues
        /\ UNCHANGED <<memory, store, enqueues, ackCalls, deadLetters, copyOf,
                       budget, history>>

(* A call of the command rejects: the command fails, what is done stays.   *)
DlqReplayFails(id) ==
    /\ replays[id] \in {"enqueue", "discard"}
    /\ Spend("failures")
    /\ replays' = [replays EXCEPT ![id] = "none"]
    /\ \E applied \in AppliedThough :
          IF replays[id] = "enqueue"
          THEN /\ queue' = IF applied THEN queue \cup {id} ELSE queue
               /\ stored' = IF applied THEN stored \cup {id} ELSE stored
               /\ UNCHANGED dlq
          ELSE /\ dlq' = IF applied THEN dlq \ {copyOf[id]} ELSE dlq
               /\ UNCHANGED <<queue, stored>>
    /\ UNCHANGED <<memory, addressee, enqueues, dequeues, ackCalls, deadLetters,
                   copyOf, sentTo, sends, ackedBy, ackOk, finished, attached,
                   blackholed, threw>>

DlqDiscard(entry) ==
    /\ EventLoopFree
    /\ entry \in dlq
    /\ dlq' = dlq \ {entry}
    /\ finished' = finished \cup {entry}
    /\ UNCHANGED <<memory, queue, addressee, inflight, budget, stored, sentTo,
                   sends, ackedBy, ackOk, attached, blackholed, threw>>

-----------------------------------------------------------------------------
(* What the clients, the operator and the machine may do at any time.      *)
Environment ==
    \/ \E s \in Sockets : Connect(s) \/ Disconnect(s)
    \/ \E s \in Sockets, c \in Consumers : RegisterConsumer(s, c)
    \/ \E s \in Sockets, c \in Consumers, options \in Offered :
          Subscribe(s, c, options)
    \/ \E c \in Consumers, guaranteed \in BOOLEAN : ProduceStored(c, guaranteed)
    \/ \E c \in Consumers : ProducePlain(c) \/ ProduceThrows(c)
    \/ \E s \in Sockets, id \in Ids : Ack(s, id)
    \/ \E id \in Ids : DlqReplay(id) \/ DlqDiscard(id) \/ Expire(id)
    \/ Restart

(* Calls of the store that reject. *)
Failure ==
    \/ \E id \in Ids :
          \/ EnqueueFails(id)
          \/ StoreAckFails(id)
          \/ \E phase \in DeadLetterPhases : DeadLetterFails(id, phase)
          \/ DlqReplayFails(id)
    \/ \E k \in Calls : DequeueFails(k)

(* The store's effects, the continuations and the timers. *)
StepOfId(id) ==
    \/ CountQueued(id)
    \/ Enqueued(id)
    \/ EnqueueDropped(id)
    \/ DeliverStored(id)
    \/ StoreAck(id)
    \/ DeadLetterRead(id)
    \/ DeadLetterCopy(id)
    \/ DeadLetterRemove(id)
    \/ DlqReplayEnqueued(id)
    \/ DlqReplayDiscarded(id)
    \/ AttemptDlqLiveReplay(id)

StepOfCall(k) ==
    \/ DequeueIndex(k)
    \/ DequeueRead(k)
    \/ ReplayDurableMessages(k)

Timer(id) ==
    \/ AckTimeout(id)
    \/ \E attempt \in Attempts : RetryFire(id, attempt)

Next ==
    \/ Environment
    \/ Failure
    \/ \E id \in Ids : StepOfId(id) \/ Timer(id)
    \/ \E k \in Calls : StepOfCall(k)

Spec == Init /\ [][Next]_vars

(* What runs by itself.  The event loop serves every settled promise and   *)
(* every timer that is due, and a store that is up answers every call.     *)
(* Clients, operators and the failures of the store owe nothing.           *)
Fairness ==
    /\ \A id \in Ids :
          /\ WF_vars(StepOfId(id))
          /\ WF_vars(AckTimeout(id))
          /\ \A attempt \in Attempts : WF_vars(RetryFire(id, attempt))
    /\ \A k \in Calls : WF_vars(StepOfCall(k))

FairSpec == Spec /\ Fairness

-----------------------------------------------------------------------------
(* Properties.                                                             *)

(* No message is lost: what the store once held is still queued or dead-   *)
(* lettered, unless its delivery was confirmed (by an ACK, or by the       *)
(* replay to a client that never sends one), it expired, the operator      *)
(* discarded it, or a copy of it was stored by dlq_replay.                 *)
NoMessageLost ==
    \A id \in stored :
        \/ id \in queue \cup dlq \cup finished
        \/ \E copy \in stored : copyOf[copy] = id

(* A message is only acknowledged by a client it was sent to: an ACK that  *)
(* the ACK handler accepts comes from a socket that a delivery of that     *)
(* msgId went to, over reconnects, displacements and stray retry timers.   *)
AckedByRecipient == ackedBy \subseteq sentTo

(* A message is dead-lettered only after max_attempts deliveries, whatever *)
(* replays, reconnects and retries were interleaved (scheduleAckTimeout).  *)
DeadLetteredAfterAllAttempts ==
    \A id \in Ids :
        (\/ id \in dlq
         \/ \E phase \in DeadLetterPhases : <<id, phase>> \in deadLetters)
            => sends[id] = MaxAttempts

(* A message whose ACK the store confirmed (ACK_OK) is never queued again, *)
(* so no later replay can deliver it: no enqueue is applied after the ACK  *)
(* that it made possible.                                                  *)
AckedStaysOut == ackOk \cap queue = {}

(* Only a stored message awaits an ACK or a retry: delivery never runs     *)
(* ahead of the store, so a restart cannot lose a message a client holds   *)
(* a msgId of.                                                             *)
DeliveredWasStored ==
    \A id \in Ids :
        (\/ pendingAcks[id] # NoPending
         \/ \E s \in Sockets : <<id, s>> \in sentTo) => id \in stored

(* The quota bounds what producers can queue, though the count an enqueue  *)
(* goes by is taken before it: "a burst cannot race past the cap" (comment *)
(* in enqueueDurableMessage).  Only copies that dlq_replay makes come on   *)
(* top of max_queued_per_realm.                                            *)
QueueWithinQuota ==
    SyncStore /\ Capped =>
        Cardinality({id \in queue : copyOf[id] = NoId}) <= MaxQueued

(* "When the consumer is offline, messages for durable subscriptions are   *)
(* stored" (docs/PERSISTENCE.md:116): no durable message is written to the *)
(* closed socket of a consumer that left.                                  *)
OfflineMessagesAreStored == blackholed = {}

(* A handler never ends the broker: "When a subscription explicitly asks   *)
(* for ACK with `ack`, ... the server includes a `msgId`, waits for        *)
(* `ACK {msgId}`" (README.md:127).                                         *)
AckSubscriptionIsServed == ~threw

(* "When the same consumer reconnects and subscribes again, the server     *)
(* replays the queued messages" (docs/PERSISTENCE.md:117): a message       *)
(* queued for a consumer that has subscribed on its current socket leaves  *)
(* the queue (acknowledged or dead-lettered), or the consumer goes away.   *)
QueueDrains ==
    \A id \in Ids, c \in Consumers :
        (id \in queue /\ addressee[id] = c /\ c \in attached)
            ~> (id \notin queue \/ c \notin attached)

=============================================================================
