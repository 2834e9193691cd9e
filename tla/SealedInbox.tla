----------------------------- MODULE SealedInbox -----------------------------
(***************************************************************************)
(* The sealed-sender inbox of the tyo-mq broker (lib/server.js):           *)
(* SEALED_DELIVER to a recipient that is online (with or without an        *)
(* acknowledgement) or offline (counted, then queued), and the drain of    *)
(* the queue by SEALED_SUBSCRIBE, acknowledged entry by entry or, for old  *)
(* clients, acknowledged when it is emitted.                               *)
(*                                                                         *)
(* A blob stands for one SEALED_DELIVER call and for the queue entry it    *)
(* may become.  Calls that are rejected (configuration, rate, realm,       *)
(* access key) change nothing and are left out.  A call of the store is    *)
(* applied in one step, at any time after it is made, and may reject; the  *)
(* round trips within a call are the subject of DurableDelivery.  A queue  *)
(* is a set: a drain takes its entries in any order.  Timers are abstract: *)
(* one that is set may fire at any later moment.                           *)
(***************************************************************************)
EXTENDS Naturals, FiniteSets

CONSTANTS
    Identities,         \* names of recipients
    Sockets,            \* socket ids; socket.io never uses one twice
    Blobs,              \* SEALED_DELIVER calls
    NoSocket,           \* meta.socket === null
    NoMeta,             \* the registry has no entry for the name
    NoBlob,
    NoIdentity,
    CountsRealm,        \* whether countQueued(realm) is a number (not Redis)
    MaxQueuedRealm,     \* max_queued_per_realm
    MaxQueuedRecipient, \* max_queued_per_recipient
    Batch,              \* SEALED_REPLAY_BATCH
    MaxOldDrains,       \* bound: SEALED_SUBSCRIBE calls without ack
    MaxExpiries,        \* bound: blobs whose TTL runs out
    MaxFailures,        \* bound: store calls that reject
    MaxRestarts         \* bound: restarts of the broker

ASSUME NoSocketAssumption == NoSocket \notin Sockets
ASSUME NoMetaAssumption == NoMeta \notin Sockets \cup {NoSocket}
ASSUME NoBlobAssumption == NoBlob \notin Blobs
ASSUME NoIdentityAssumption == NoIdentity \notin Identities
ASSUME LimitsAssumption ==
    /\ CountsRealm \in BOOLEAN
    /\ MaxQueuedRealm \in Nat
    /\ MaxQueuedRecipient \in Nat
    /\ Batch \in Nat \ {0}
ASSUME SealedBoundsAssumption ==
    /\ MaxOldDrains \in Nat
    /\ MaxExpiries \in Nat
    /\ MaxFailures \in Nat
    /\ MaxRestarts \in Nat

VARIABLES
    (* The broker's memory. *)
    connected,      \* the sockets that are open
    seen,           \* the sockets that were ever open
    consumerSocket, \* by name: realm.consumers[name].socket
    producerSocket, \* by name: realm.producers[name].socket
    identities,     \* <<socket, name>>: socket._tyoIdentities
    ackCapable,     \* sockets with _sealedAckCapable
    delivers,       \* by blob: where its SEALED_DELIVER is
    frames,         \* by blob: the socket whose ACK the online branch awaits
    drains,         \* by <<socket, name>>: its drain (_sealedDraining)
    oldDrains,      \* <<socket, name>>: old drains that await store.dequeue
    ackCalls,       \* blobs of the store.ack calls of old drains
    (* The store. *)
    to,             \* by blob: its recipient
    queue,          \* the blobs queued
    dlq,            \* the blobs dead-lettered
    (* The network and the clients. *)
    wire,           \* <<blob, socket, kind>>: frames under way to a client
    replies,        \* <<blob, socket, kind, answer>>: ACKs under way back
    (* Bounds. *)
    budget,         \* what is left of the bounds
    (* History, read by properties only. *)
    processed,      \* blobs that a client took in
    refused,        \* blobs that a client could not take in
    toldQueued,     \* blobs whose sender was told `queued'
    awaited,        \* blobs emitted online with an ACK
    released,       \* blobs acked on emit for an old client, or expired
    abandoned       \* awaited blobs whose requeue failed or met a restart

registry == <<connected, seen, consumerSocket, producerSocket, identities,
              ackCapable>>
store == <<to, queue, dlq>>
network == <<wire, replies>>
history == <<processed, refused, toldQueued, awaited, released, abandoned>>
vars == <<registry, delivers, frames, drains, oldDrains, ackCalls, store,
          network, budget, history>>

Bounds == {"oldDrains", "expiries", "failures", "restarts"}
DeliverPhases == {"none", "countRealm", "countInbox", "enqueue", "live",
                  "requeue", "done"}
DrainPhases == {"idle", "dequeue", "next", "emit", "ack", "dead"}
Kinds == {"live", "drain", "bare"}
Answers == {"ok", "refused"}

Drains == Sockets \X Identities

(* An acknowledged drain: the entry in flight, the entries of the batch    *)
(* still to come and already done, the entries beyond the batch, and       *)
(* the entries done without an answer (the counter `pending').             *)
DrainRecords ==
    [phase : DrainPhases, current : Blobs \cup {NoBlob}, left : SUBSET Blobs,
     done : SUBSET Blobs, beyond : SUBSET Blobs, pending : SUBSET Blobs]

NoDrain == [phase |-> "idle", current |-> NoBlob, left |-> {}, done |-> {},
            beyond |-> {}, pending |-> {}]

RegistryTypeOK ==
    /\ connected \subseteq seen
    /\ seen \subseteq Sockets
    /\ consumerSocket \in [Identities -> Sockets \cup {NoSocket, NoMeta}]
    /\ producerSocket \in [Identities -> Sockets \cup {NoSocket, NoMeta}]
    /\ identities \subseteq connected \X Identities
    /\ ackCapable \subseteq connected

HandlersTypeOK ==
    /\ delivers \in [Blobs -> DeliverPhases]
    /\ frames \in [Blobs -> Sockets \cup {NoSocket}]
    /\ drains \in [Drains -> DrainRecords]
    /\ oldDrains \subseteq Drains
    /\ ackCalls \subseteq Blobs

StoreTypeOK ==
    /\ to \in [Blobs -> Identities \cup {NoIdentity}]
    /\ queue \subseteq Blobs
    /\ dlq \subseteq Blobs

NetworkTypeOK ==
    /\ wire \subseteq Blobs \X Sockets \X Kinds
    /\ replies \subseteq Blobs \X Sockets \X Kinds \X Answers

BudgetTypeOK == budget \in [Bounds -> Nat]

HistoryTypeOK ==
    /\ processed \subseteq Blobs
    /\ refused \subseteq Blobs
    /\ toldQueued \subseteq Blobs
    /\ awaited \subseteq Blobs
    /\ released \subseteq Blobs
    /\ abandoned \subseteq Blobs

TypeOK ==
    /\ RegistryTypeOK
    /\ HandlersTypeOK
    /\ StoreTypeOK
    /\ NetworkTypeOK
    /\ BudgetTypeOK
    /\ HistoryTypeOK

Init ==
    /\ connected = {}
    /\ seen = {}
    /\ consumerSocket = [i \in Identities |-> NoMeta]
    /\ producerSocket = [i \in Identities |-> NoMeta]
    /\ identities = {}
    /\ ackCapable = {}
    /\ delivers = [b \in Blobs |-> "none"]
    /\ frames = [b \in Blobs |-> NoSocket]
    /\ drains = [d \in Drains |-> NoDrain]
    /\ oldDrains = {}
    /\ ackCalls = {}
    /\ to = [b \in Blobs |-> NoIdentity]
    /\ queue = {}
    /\ dlq = {}
    /\ wire = {}
    /\ replies = {}
    /\ budget = [bound \in Bounds |->
                   IF bound = "oldDrains" THEN MaxOldDrains
                   ELSE IF bound = "expiries" THEN MaxExpiries
                   ELSE IF bound = "failures" THEN MaxFailures
                   ELSE MaxRestarts]
    /\ processed = {}
    /\ refused = {}
    /\ toldQueued = {}
    /\ awaited = {}
    /\ released = {}
    /\ abandoned = {}

Spend(bound) ==
    /\ budget[bound] > 0
    /\ budget' = [budget EXCEPT ![bound] = @ - 1]

-----------------------------------------------------------------------------
(* Registration, as far as findRecipientSocket and the drain see it.       *)

Connect(s) ==
    /\ s \in Sockets \ seen
    /\ connected' = connected \cup {s}
    /\ seen' = seen \cup {s}
    /\ UNCHANGED <<consumerSocket, producerSocket, identities, ackCapable,
                   delivers, frames, drains, oldDrains, ackCalls, store,
                   network, budget, history>>

(* The names that the disconnect handler frees in a registry: its loop     *)
(* stops at the first name of the socket.                                  *)
Freed(table, s) ==
    LET names == {i \in Identities : table[i] = s}
    IN  IF names = {} THEN {{}} ELSE {{i} : i \in names}

(* Mutant: what the socket declared outlives it. *)
CloseKeepsCapability(s) ==
    /\ connected' = connected \ {s}
    /\ UNCHANGED ackCapable
    /\ wire' = {f \in wire : f[2] # s}
    /\ replies' = {r \in replies : r[2] # s}
    /\ \E names \in Freed(producerSocket, s) :
          producerSocket' = [i \in Identities |->
                IF i \in names THEN NoSocket ELSE producerSocket[i]]

(* The socket closes: what is on the wire, either way, is lost.  The       *)
(* timers of the ACKs that it owed still run.                              *)
Close(s) ==
    /\ connected' = connected \ {s}
    /\ ackCapable' = ackCapable \ {s}
    /\ wire' = {f \in wire : f[2] # s}
    /\ replies' = {r \in replies : r[2] # s}
    /\ \E names \in Freed(producerSocket, s) :
          producerSocket' = [i \in Identities |->
                IF i \in names THEN NoSocket ELSE producerSocket[i]]

Disconnect(s) ==
    /\ s \in connected
    /\ Close(s)
    /\ identities' = {r \in identities : r[1] # s}
    /\ \E names \in Freed(consumerSocket, s) :
          consumerSocket' = [i \in Identities |->
                IF i \in names THEN NoSocket ELSE consumerSocket[i]]
    /\ UNCHANGED <<seen, delivers, frames, drains, oldDrains, ackCalls,
                   store, budget, history>>

(* CONSUMER: closes a live socket that holds the name, whose disconnect    *)
(* handler runs first, and binds the name to this one.                     *)
RegisterConsumer(s, i) ==
    LET holder == consumerSocket[i]
    IN  /\ s \in connected
        /\ IF holder \in connected \ {s}
           THEN /\ Close(holder)
                /\ identities' = {r \in identities : r[1] # holder}
                                    \cup {<<s, i>>}
                /\ \E names \in Freed(consumerSocket, holder) :
                      consumerSocket' = [j \in Identities |->
                            IF j = i THEN s
                            ELSE IF j \in names THEN NoSocket
                            ELSE consumerSocket[j]]
           ELSE /\ identities' = identities \cup {<<s, i>>}
                /\ consumerSocket' = [consumerSocket EXCEPT ![i] = s]
                /\ UNCHANGED <<connected, ackCapable, producerSocket, network>>
        /\ UNCHANGED <<seen, delivers, frames, drains, oldDrains, ackCalls,
                       store, budget, history>>

(* PRODUCER: the last one to register has the name; nothing is closed.     *)
RegisterProducer(s, i) ==
    /\ s \in connected
    /\ identities' = identities \cup {<<s, i>>}
    /\ producerSocket' = [producerSocket EXCEPT ![i] = s]
    /\ UNCHANGED <<connected, seen, consumerSocket, ackCapable, delivers,
                   frames, drains, oldDrains, ackCalls, store, network,
                   budget, history>>

(* SUBSCRIBE to some event under a consumer name that has no socket: binds *)
(* the name, without a claim on the identity.                              *)
SetupConsumer(s, i) ==
    /\ s \in connected
    /\ consumerSocket[i] \in {NoSocket, NoMeta}
    /\ consumerSocket' = [consumerSocket EXCEPT ![i] = s]
    /\ UNCHANGED <<connected, seen, producerSocket, identities, ackCapable,
                   delivers, frames, drains, oldDrains, ackCalls, store,
                   network, budget, history>>

(* sweepIdleRegistrations removes a name that is offline for long. *)
SweepIdle(i) ==
    /\ \/ /\ consumerSocket[i] = NoSocket
          /\ consumerSocket' = [consumerSocket EXCEPT ![i] = NoMeta]
          /\ UNCHANGED producerSocket
       \/ /\ producerSocket[i] = NoSocket
          /\ producerSocket' = [producerSocket EXCEPT ![i] = NoMeta]
          /\ UNCHANGED consumerSocket
    /\ UNCHANGED <<connected, seen, identities, ackCapable, delivers, frames,
                   drains, oldDrains, ackCalls, store, network, budget,
                   history>>

-----------------------------------------------------------------------------
(* SEALED_DELIVER.                                                         *)

(* findRecipientSocket: an entry among the consumers hides the producer's. *)
FindRecipientSocket(i) ==
    IF consumerSocket[i] # NoMeta THEN consumerSocket[i] ELSE producerSocket[i]

(* The online branch: the sender is told `online' at once.  A recipient    *)
(* that ACKs sealed frames is watched, another one is not.                 *)
DeliverOnline(b, i) ==
    LET s == FindRecipientSocket(i)
        watched == s \in ackCapable
    IN  /\ delivers[b] = "none"
        /\ s \in connected
        /\ to' = [to EXCEPT ![b] = i]
        /\ delivers' = [delivers EXCEPT ![b] = IF watched THEN "live"
                                               ELSE "done"]
        /\ frames' = [frames EXCEPT ![b] = IF watched THEN s ELSE NoSocket]
        /\ wire' = wire \cup {<<b, s, IF watched THEN "live" ELSE "bare">>}
        /\ awaited' = IF watched THEN awaited \cup {b} ELSE awaited
        /\ UNCHANGED <<registry, drains, oldDrains, ackCalls, queue, dlq,
                       replies, budget, processed, refused, toldQueued,
                       released, abandoned>>

(* The offline branch, also for a name bound to a socket that is closed:   *)
(* the realm's queue is counted, then the recipient's, then the blob is    *)
(* stored.  Nothing keeps other calls from coming between.                 *)
DeliverOffline(b, i) ==
    /\ delivers[b] = "none"
    /\ FindRecipientSocket(i) \notin connected
    /\ to' = [to EXCEPT ![b] = i]
    /\ delivers' = [delivers EXCEPT ![b] = "countRealm"]
    /\ UNCHANGED <<registry, frames, drains, oldDrains, ackCalls, queue, dlq,
                   network, budget, history>>

Inbox(i) == {b \in queue : to[b] = i}

(* 507 `recipient queue full'; a store that cannot tell skips the check. *)
CountRealm(b) ==
    /\ delivers[b] = "countRealm"
    /\ delivers' = [delivers EXCEPT
                      ![b] = IF /\ CountsRealm
                                /\ Cardinality(queue) >= MaxQueuedRealm
                             THEN "done" ELSE "countInbox"]
    /\ UNCHANGED <<registry, frames, drains, oldDrains, ackCalls, store,
                   network, budget, history>>

(* 507 `recipient inbox full'. *)
CountInbox(b) ==
    /\ delivers[b] = "countInbox"
    /\ delivers' = [delivers EXCEPT
                      ![b] = IF Cardinality(Inbox(to[b])) >= MaxQueuedRecipient
                             THEN "done" ELSE "enqueue"]
    /\ UNCHANGED <<registry, frames, drains, oldDrains, ackCalls, store,
                   network, budget, history>>

(* A count rejects: 500. *)
CountFails(b) ==
    /\ delivers[b] \in {"countRealm", "countInbox"}
    /\ Spend("failures")
    /\ delivers' = [delivers EXCEPT ![b] = "done"]
    /\ UNCHANGED <<registry, frames, drains, oldDrains, ackCalls, store,
                   network, history>>

(* enqueueSealedForRecipient settles, for the offline branch (which then   *)
(* tells the sender `queued') or for a requeue (which tells nobody).       *)
Enqueued(b) ==
    /\ delivers[b] \in {"enqueue", "requeue"}
    /\ delivers' = [delivers EXCEPT ![b] = "done"]
    /\ queue' = queue \cup {b}
    /\ toldQueued' = IF delivers[b] = "enqueue" THEN toldQueued \cup {b}
                     ELSE toldQueued
    /\ UNCHANGED <<registry, frames, drains, oldDrains, ackCalls, to, dlq,
                   network, budget, processed, refused, awaited, released,
                   abandoned>>

(* It rejects: 500 to the sender, or, for a requeue, an error in the log.  *)
(* The blob may have been stored all the same.                             *)
EnqueueFails(b) ==
    /\ delivers[b] \in {"enqueue", "requeue"}
    /\ Spend("failures")
    /\ delivers' = [delivers EXCEPT ![b] = "done"]
    /\ \E applied \in BOOLEAN :
          queue' = IF applied THEN queue \cup {b} ELSE queue
    /\ abandoned' = IF delivers[b] = "requeue" THEN abandoned \cup {b}
                    ELSE abandoned
    /\ UNCHANGED <<registry, frames, drains, oldDrains, ackCalls, to, dlq,
                   network, processed, refused, toldQueued, awaited, released>>

(* The ACK of an online frame arrives in time: nothing is left to do, also *)
(* when the client refused the blob.                                       *)
OnlineAnswered(b, answer) ==
    /\ delivers[b] = "live"
    /\ <<b, frames[b], "live", answer>> \in replies
    /\ replies' = replies \ {<<b, frames[b], "live", answer>>}
    /\ delivers' = [delivers EXCEPT ![b] = "done"]
    /\ frames' = [frames EXCEPT ![b] = NoSocket]
    /\ UNCHANGED <<registry, drains, oldDrains, ackCalls, store, wire,
                   budget, history>>

(* After its timeout an ACK is ignored; the frame may still get there.     *)
Unwatch(b, s, kind) ==
    /\ wire' = IF <<b, s, kind>> \in wire
               THEN (wire \ {<<b, s, kind>>}) \cup {<<b, s, "bare">>}
               ELSE wire
    /\ replies' = {r \in replies : ~(r[1] = b /\ r[2] = s /\ r[3] = kind)}

(* Mutant: only the timeout of a frame to a socket still open requeues. *)
OnlineTimeoutWhileOpen(b) ==
    /\ delivers[b] = "live"
    /\ Unwatch(b, frames[b], "live")
    /\ delivers' = [delivers EXCEPT ![b] = IF frames[b] \in connected
                                           THEN "requeue" ELSE "done"]
    /\ frames' = [frames EXCEPT ![b] = NoSocket]
    /\ UNCHANGED <<registry, drains, oldDrains, ackCalls, store, budget,
                   history>>

(* No ACK in time: the blob is queued, without a look at the quotas.       *)
OnlineTimeout(b) ==
    /\ delivers[b] = "live"
    /\ Unwatch(b, frames[b], "live")
    /\ delivers' = [delivers EXCEPT ![b] = "requeue"]
    /\ frames' = [frames EXCEPT ![b] = NoSocket]
    /\ UNCHANGED <<registry, drains, oldDrains, ackCalls, store, budget,
                   history>>

-----------------------------------------------------------------------------
(* The recipient's client takes a blob in, or refuses it (it cannot be     *)
(* decrypted, or it is a duplicate), and ACKs what asks for an ACK.        *)
ClientTakes(b, s, kind, answer) ==
    /\ <<b, s, kind>> \in wire
    /\ wire' = wire \ {<<b, s, kind>>}
    /\ replies' = IF kind = "bare" THEN replies
                  ELSE replies \cup {<<b, s, kind, answer>>}
    /\ processed' = IF answer = "ok" THEN processed \cup {b} ELSE processed
    /\ refused' = IF answer = "refused" THEN refused \cup {b} ELSE refused
    /\ UNCHANGED <<registry, delivers, frames, drains, oldDrains, ackCalls,
                   store, budget, toldQueued, awaited, released, abandoned>>

-----------------------------------------------------------------------------
(* SEALED_SUBSCRIBE {ack: true}.                                           *)

(* The socket is known to ACK from now on.  A second call during a drain   *)
(* is refused with 409.                                                    *)
SealedSubscribe(s, i) ==
    /\ <<s, i>> \in identities
    /\ drains[<<s, i>>].phase = "idle"
    /\ ackCapable' = ackCapable \cup {s}
    /\ drains' = [drains EXCEPT ![<<s, i>>].phase = "dequeue"]
    /\ UNCHANGED <<connected, seen, consumerSocket, producerSocket,
                   identities, delivers, frames, oldDrains, ackCalls, store,
                   network, budget, history>>

(* entries.slice(0, SEALED_REPLAY_BATCH). *)
Batches(entries) ==
    IF Cardinality(entries) <= Batch THEN {entries}
    ELSE {batch \in SUBSET entries : Cardinality(batch) = Batch}

Dequeued(d) ==
    /\ drains[d].phase = "dequeue"
    /\ \E batch \in Batches(Inbox(d[2])) :
          drains' = [drains EXCEPT ![d].phase = "next",
                                   ![d].left = batch,
                                   ![d].beyond = Inbox(d[2]) \ batch]
    /\ UNCHANGED <<registry, delivers, frames, oldDrains, ackCalls, store,
                   network, budget, history>>

(* 500, and the drain is over. *)
DequeueFails(d) ==
    /\ drains[d].phase = "dequeue"
    /\ Spend("failures")
    /\ drains' = [drains EXCEPT ![d] = NoDrain]
    /\ UNCHANGED <<registry, delivers, frames, oldDrains, ackCalls, store,
                   network, history>>

(* The next entry of the batch; on a closed socket it stays queued. *)
DrainNext(d, b) ==
    /\ drains[d].phase = "next"
    /\ b \in drains[d].left
    /\ IF d[1] \in connected
       THEN /\ drains' = [drains EXCEPT ![d].phase = "emit",
                                        ![d].current = b,
                                        ![d].left = @ \ {b}]
            /\ wire' = wire \cup {<<b, d[1], "drain">>}
       ELSE /\ drains' = [drains EXCEPT ![d].left = @ \ {b},
                                        ![d].done = @ \cup {b},
                                        ![d].pending = @ \cup {b}]
            /\ UNCHANGED wire
    /\ UNCHANGED <<registry, delivers, frames, oldDrains, ackCalls, store,
                   replies, budget, history>>

(* The current entry is dealt with. *)
Settled(d, pending) ==
    drains' = [drains EXCEPT ![d].phase = "next",
                             ![d].current = NoBlob,
                             ![d].done = @ \cup {drains[d].current},
                             ![d].pending = @ \cup pending]

(* {ok: true}: store.ack.  Anything else: deadLetterMessage. *)
DrainAnswered(d, answer) ==
    LET reply == <<drains[d].current, d[1], "drain", answer>>
    IN  /\ drains[d].phase = "emit"
        /\ reply \in replies
        /\ replies' = replies \ {reply}
        /\ drains' = [drains EXCEPT ![d].phase = IF answer = "ok" THEN "ack"
                                                 ELSE "dead"]
        /\ UNCHANGED <<registry, delivers, frames, oldDrains, ackCalls,
                       store, wire, budget, history>>

(* Mutant: an entry without an ACK is not counted as pending. *)
DrainTimeoutUncounted(d) ==
    /\ drains[d].phase = "emit"
    /\ Unwatch(drains[d].current, d[1], "drain")
    /\ Settled(d, {})
    /\ UNCHANGED <<registry, delivers, frames, oldDrains, ackCalls, store,
                   budget, history>>

(* Mutant: an entry without an ACK is removed like one with an ACK. *)
DrainTimeoutAcks(d) ==
    /\ drains[d].phase = "emit"
    /\ Unwatch(drains[d].current, d[1], "drain")
    /\ drains' = [drains EXCEPT ![d].phase = "ack"]
    /\ UNCHANGED <<registry, delivers, frames, oldDrains, ackCalls, store,
                   budget, history>>

(* Mutant: an entry without an ACK is dead-lettered. *)
DrainTimeoutDeadLetters(d) ==
    /\ drains[d].phase = "emit"
    /\ Unwatch(drains[d].current, d[1], "drain")
    /\ drains' = [drains EXCEPT ![d].phase = "dead"]
    /\ UNCHANGED <<registry, delivers, frames, oldDrains, ackCalls, store,
                   budget, history>>

(* Mutant: nothing settles the entry of a socket that has closed. *)
DrainTimeoutWhileOpen(d) ==
    /\ drains[d].phase = "emit"
    /\ d[1] \in connected
    /\ Unwatch(drains[d].current, d[1], "drain")
    /\ Settled(d, {drains[d].current})
    /\ UNCHANGED <<registry, delivers, frames, oldDrains, ackCalls, store,
                   budget, history>>

(* No ACK in time, or the socket closed: the entry stays queued. *)
DrainTimeout(d) ==
    /\ drains[d].phase = "emit"
    /\ Unwatch(drains[d].current, d[1], "drain")
    /\ Settled(d, {drains[d].current})
    /\ UNCHANGED <<registry, delivers, frames, oldDrains, ackCalls, store,
                   budget, history>>

DrainAcked(d) ==
    /\ drains[d].phase = "ack"
    /\ queue' = queue \ {drains[d].current}
    /\ Settled(d, {})
    /\ UNCHANGED <<registry, delivers, frames, oldDrains, ackCalls, to, dlq,
                   network, budget, history>>

(* store.ack rejects: logged, and the entry counts as replayed. *)
DrainAckFails(d) ==
    /\ drains[d].phase = "ack"
    /\ Spend("failures")
    /\ \E applied \in BOOLEAN :
          queue' = IF applied THEN queue \ {drains[d].current} ELSE queue
    /\ Settled(d, {})
    /\ UNCHANGED <<registry, delivers, frames, oldDrains, ackCalls, to, dlq,
                   network, history>>

(* store.deadLetter moves what is still queued. *)
DrainDeadLettered(d) ==
    /\ drains[d].phase = "dead"
    /\ dlq' = dlq \cup ({drains[d].current} \cap queue)
    /\ queue' = queue \ {drains[d].current}
    /\ Settled(d, {})
    /\ UNCHANGED <<registry, delivers, frames, oldDrains, ackCalls, to,
                   network, budget, history>>

(* It rejects: before the copy, after it, or after the removal. *)
DrainDeadLetterFails(d) ==
    LET b == drains[d].current
    IN  /\ drains[d].phase = "dead"
        /\ Spend("failures")
        /\ \/ UNCHANGED <<queue, dlq>>
           \/ /\ dlq' = dlq \cup ({b} \cap queue)
              /\ \/ UNCHANGED queue
                 \/ queue' = queue \ {b}
        /\ Settled(d, {})
        /\ UNCHANGED <<registry, delivers, frames, oldDrains, ackCalls, to,
                       network, history>>

(* What the answer of a drain says in `more'. *)
More(d) == drains[d].beyond # {} \/ drains[d].pending # {}

(* The batch is through: the lock is released and the client told `more'.  *)
BatchIsDone(d) == drains[d].phase = "next" /\ drains[d].left = {}

DrainEnds(d) ==
    /\ BatchIsDone(d)
    /\ drains' = [drains EXCEPT ![d] = NoDrain]
    /\ UNCHANGED <<registry, delivers, frames, oldDrains, ackCalls, store,
                   network, budget, history>>

-----------------------------------------------------------------------------
(* SEALED_SUBSCRIBE of an old client: emitted and acked at once.           *)

OldSubscribe(s, i) ==
    /\ <<s, i>> \in identities
    /\ <<s, i>> \notin oldDrains
    /\ Spend("oldDrains")
    /\ oldDrains' = oldDrains \cup {<<s, i>>}
    /\ UNCHANGED <<registry, delivers, frames, drains, ackCalls, store,
                   network, history>>

OldDequeued(d) ==
    /\ d \in oldDrains
    /\ oldDrains' = oldDrains \ {d}
    /\ \E batch \in Batches(Inbox(d[2])) :
          /\ wire' = IF d[1] \in connected
                     THEN wire \cup (batch \X {d[1]} \X {"bare"}) ELSE wire
          /\ ackCalls' = ackCalls \cup batch
          /\ released' = released \cup batch
    /\ UNCHANGED <<registry, delivers, frames, drains, store, replies,
                   budget, processed, refused, toldQueued, awaited, abandoned>>

OldDequeueFails(d) ==
    /\ d \in oldDrains
    /\ Spend("failures")
    /\ oldDrains' = oldDrains \ {d}
    /\ UNCHANGED <<registry, delivers, frames, drains, ackCalls, store,
                   network, history>>

StoreAck(b) ==
    /\ b \in ackCalls
    /\ ackCalls' = ackCalls \ {b}
    /\ queue' = queue \ {b}
    /\ UNCHANGED <<registry, delivers, frames, drains, oldDrains, to, dlq,
                   network, budget, history>>

StoreAckFails(b) ==
    /\ b \in ackCalls
    /\ Spend("failures")
    /\ ackCalls' = ackCalls \ {b}
    /\ \E applied \in BOOLEAN :
          queue' = IF applied THEN queue \ {b} ELSE queue
    /\ UNCHANGED <<registry, delivers, frames, drains, oldDrains, to, dlq,
                   network, history>>

-----------------------------------------------------------------------------
(* The TTL of a queued blob (SEALED_INBOX_TTL) runs out. *)
Expire(b) ==
    /\ b \in queue
    /\ Spend("expiries")
    /\ queue' = queue \ {b}
    /\ released' = released \cup {b}
    /\ UNCHANGED <<registry, delivers, frames, drains, oldDrains, ackCalls,
                   to, dlq, network, processed, refused, toldQueued, awaited,
                   abandoned>>

(* The store survives, the broker's memory and its sockets do not. *)
Restart ==
    /\ Spend("restarts")
    /\ connected' = {}
    /\ consumerSocket' = [i \in Identities |-> NoMeta]
    /\ producerSocket' = [i \in Identities |-> NoMeta]
    /\ identities' = {}
    /\ ackCapable' = {}
    /\ delivers' = [b \in Blobs |-> IF delivers[b] = "none" THEN "none"
                                    ELSE "done"]
    /\ frames' = [b \in Blobs |-> NoSocket]
    /\ drains' = [d \in Drains |-> NoDrain]
    /\ oldDrains' = {}
    /\ ackCalls' = {}
    /\ wire' = {}
    /\ replies' = {}
    /\ abandoned' = abandoned
          \cup {b \in Blobs : delivers[b] \in {"live", "requeue"}}
    /\ UNCHANGED <<seen, store, processed, refused, toldQueued, awaited,
                   released>>

-----------------------------------------------------------------------------
Environment ==
    \/ \E s \in Sockets : Connect(s) \/ Disconnect(s)
    \/ \E s \in Sockets, i \in Identities :
          \/ RegisterConsumer(s, i)
          \/ RegisterProducer(s, i)
          \/ SetupConsumer(s, i)
          \/ SealedSubscribe(s, i)
          \/ OldSubscribe(s, i)
    \/ \E b \in Blobs, i \in Identities :
          DeliverOnline(b, i) \/ DeliverOffline(b, i)
    \/ \E b \in Blobs, s \in Sockets, kind \in Kinds, answer \in Answers :
          ClientTakes(b, s, kind, answer)
    \/ \E b \in Blobs : Expire(b)
    \/ \E i \in Identities : SweepIdle(i)
    \/ Restart

Failure ==
    \/ \E b \in Blobs : CountFails(b) \/ EnqueueFails(b) \/ StoreAckFails(b)
    \/ \E d \in Drains : \/ DequeueFails(d)
                         \/ DrainAckFails(d)
                         \/ DrainDeadLetterFails(d)
                         \/ OldDequeueFails(d)

DeliverStep(b) ==
    \/ CountRealm(b)
    \/ CountInbox(b)
    \/ Enqueued(b)
    \/ \E answer \in Answers : OnlineAnswered(b, answer)
    \/ OnlineTimeout(b)

DrainStep(d) ==
    \/ Dequeued(d)
    \/ \E b \in Blobs : DrainNext(d, b)
    \/ \E answer \in Answers : DrainAnswered(d, answer)
    \/ DrainTimeout(d)
    \/ DrainAcked(d)
    \/ DrainDeadLettered(d)
    \/ DrainEnds(d)

Next ==
    \/ Environment
    \/ Failure
    \/ \E b \in Blobs : DeliverStep(b) \/ StoreAck(b)
    \/ \E d \in Drains : DrainStep(d) \/ OldDequeued(d)

Spec == Init /\ [][Next]_vars

(* The store answers, settled promises continue and due timers fire; the   *)
(* clients, the senders and the failures owe nothing.                      *)
Fairness ==
    /\ \A b \in Blobs : WF_vars(DeliverStep(b)) /\ WF_vars(StoreAck(b))
    /\ \A d \in Drains : WF_vars(DrainStep(d)) /\ WF_vars(OldDequeued(d))

FairSpec == Spec /\ Fairness

-----------------------------------------------------------------------------
(* Properties.                                                             *)

(* A blob whose sender was told `queued' is kept until a client took it in *)
(* or refused it, whatever drains overlap, fail, time out or lose their    *)
(* socket or their broker; only the drain of an old client and the TTL     *)
(* give it up (SEALED_DELIVER, SEALED_SUBSCRIBE).                          *)
QueuedIsKept ==
    toldQueued \subseteq
        queue \cup dlq \cup processed \cup refused \cup released

(* "on timeout or disconnect before the ack, durably requeue"              *)
(* (lib/server.js:7822): a blob emitted to a client that ACKs is awaited,  *)
(* on its way to the queue, kept there like any other, or was taken in or  *)
(* refused; only a failing store or a restart gives it up.                 *)
AwaitedIsKept ==
    \A b \in awaited :
        \/ delivers[b] \in {"live", "requeue"}
        \/ b \in queue \cup dlq \cup processed \cup refused \cup released
        \/ b \in abandoned

(* Only what a client refused is dead-lettered: a timeout, a disconnect or *)
(* an ACK that another drain of the entry got does not poison it           *)
(* (SEALED_SUBSCRIBE: "dead-lettered on a client-reported {ok:false}").    *)
DeadLetteredWasRefused == dlq \subseteq refused

(* A drain that answers without `more' has had every entry it read taken   *)
(* in or refused, so the client's loop may stop (SEALED_SUBSCRIBE).        *)
NoMoreMeansDone ==
    \A d \in Drains :
        BatchIsDone(d) /\ ~More(d)
            => drains[d].done \subseteq processed \cup refused

(* The inbox of a recipient is bounded: "max_queued_per_recipient ...      *)
(* sealed inbox depth per identity" (lib/limits.js:24).                    *)
InboxWithinCap ==
    \A i \in Identities : Cardinality(Inbox(i)) <= MaxQueuedRecipient

(* Every drain ends and releases its lock (socket._sealedDraining), so     *)
(* that the next SEALED_SUBSCRIBE is not refused with 409, whether the     *)
(* client answers, stays silent or goes away in the middle of a batch.     *)
DrainsEnd ==
    \A d \in Drains : drains[d].phase # "idle" ~> drains[d].phase = "idle"

=============================================================================
