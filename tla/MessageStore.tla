---------------------------- MODULE MessageStore ----------------------------
(***************************************************************************)
(* What a message store promises the broker for the queue and the dead     *)
(* letters of one realm, whichever backend is configured                   *)
(* (lib/storage/memory.js, the reference implementation of the Store       *)
(* interface).  A call is open from its request to its answer; whatever it *)
(* does to the queue happens in between, once, and calls may overlap.      *)
(***************************************************************************)
CONSTANTS Messages,   \* ids, each made unique by the broker
          Lapsing     \* those with a TTL that can end here

VARIABLES
  queued,      \* messages that dequeue answers with
  buried,      \* messages in the dead-letter queue
  letters,     \* messages that have ever been there
  used,        \* ids that enqueue was called with
  enqueuing, acking, burying, discarding,  \* messages with an open call
  purging,     \* an open purgeRealm and what was queued at its request
  reading,     \* an open dequeue: what was queued throughout, and ever, since
  answer       \* what the last dequeue answered with

store == <<queued, buried, letters, used, enqueuing, acking, burying, discarding,
           purging, reading, answer>>

Idle == [open |-> FALSE, throughout |-> {}, ever |-> {}]
NoPurge == [open |-> FALSE, before |-> {}]

StoreInit ==
  /\ queued = {} /\ buried = {} /\ letters = {} /\ used = {}
  /\ enqueuing = {} /\ acking = {} /\ burying = {} /\ discarding = {}
  /\ purging = NoPurge /\ reading = Idle /\ answer = {}

(* The queue changes to q; an open dequeue and a purge take note.          *)
Becomes(q) ==
  /\ queued' = q
  /\ reading' = IF reading.open
                THEN [reading EXCEPT !.throughout = @ \cap q, !.ever = @ \cup q]
                ELSE reading

(* enqueue: the message is queued when it answers, and not before, unless  *)
(* its time is up by then.                                                 *)
Enqueue(m) ==
  /\ m \notin used
  /\ used' = used \cup {m} /\ enqueuing' = enqueuing \cup {m}
  /\ UNCHANGED <<queued, buried, acking, burying, discarding, purging,
                 reading, answer, letters>>

Enqueued(m) ==
  /\ m \in enqueuing
  /\ enqueuing' = enqueuing \ {m}
  /\ Becomes(queued \cup {m}) \/ (m \in Lapsing /\ Becomes(queued))
  /\ UNCHANGED <<buried, used, acking, burying, discarding, purging, answer,
                 letters>>

(* A message leaves the queue because it is acknowledged, because its time *)
(* is up, because the realm is purged, or because it is now a dead letter. *)
Leave(m) ==
  /\ m \in queued
  /\ \/ m \in acking
     \/ m \in Lapsing
     \/ purging.open
     \/ m \in burying /\ m \in letters
  /\ Becomes(queued \ {m})
  /\ UNCHANGED <<buried, used, enqueuing, acking, burying, discarding,
                 purging, answer, letters>>

(* purgeRealm drops the whole queue, and then the dead letters.            *)
Purge ==
  /\ ~purging.open
  /\ purging' = [open |-> TRUE, before |-> queued]
  /\ UNCHANGED <<queued, buried, used, enqueuing, acking, burying, discarding,
                 reading, answer, letters>>
PurgeQueue ==
  /\ purging.open
  /\ Becomes({})
  /\ UNCHANGED <<buried, used, enqueuing, acking, burying, discarding,
                 purging, answer, letters>>
PurgeBuried(d) ==
  /\ purging.open
  /\ d \subseteq buried /\ buried' = d
  /\ UNCHANGED <<queued, used, enqueuing, acking, burying, discarding,
                 purging, reading, answer, letters>>
Purged(d) ==
  /\ purging.open /\ purging.before \cap queued = {}
  /\ d \subseteq buried /\ buried' = d
  /\ purging' = NoPurge
  /\ UNCHANGED <<queued, used, enqueuing, acking, burying, discarding, reading,
                 answer, letters>>

(* ack: when it answers the message is out of the queue.                   *)
Ack(m) ==
  /\ m \in used \ enqueuing
  /\ m \notin acking /\ acking' = acking \cup {m}
  /\ UNCHANGED <<queued, buried, used, enqueuing, burying, discarding,
                 purging, reading, answer, letters>>
Acked(m) ==
  /\ m \in acking /\ m \notin queued
  /\ acking' = acking \ {m}
  /\ UNCHANGED <<queued, buried, used, enqueuing, burying, discarding,
                 purging, reading, answer, letters>>

(* deadLetter: buried first, then taken out of the queue.                  *)
DeadLetter(m) ==
  /\ m \in used \ enqueuing
  /\ m \notin burying /\ burying' = burying \cup {m}
  /\ UNCHANGED <<queued, buried, used, enqueuing, acking, discarding, purging,
                 reading, answer, letters>>
Bury(m) ==
  /\ m \in burying
  /\ buried' = buried \cup {m} /\ letters' = letters \cup {m}
  /\ UNCHANGED <<queued, used, enqueuing, acking, burying, discarding,
                 purging, reading, answer>>
DeadLettered(m) ==
  /\ m \in burying /\ m \notin queued
  /\ burying' = burying \ {m}
  /\ UNCHANGED <<queued, buried, used, enqueuing, acking, discarding, purging,
                 reading, answer, letters>>

(* discardDlq.                                                             *)
DiscardDlq(m) ==
  /\ m \in buried /\ m \notin discarding
  /\ discarding' = discarding \cup {m}
  /\ UNCHANGED <<queued, buried, used, enqueuing, acking, burying, purging,
                 reading, answer, letters>>
Discard(m) ==
  /\ m \in discarding
  /\ buried' = buried \ {m}
  /\ UNCHANGED <<queued, used, enqueuing, acking, burying, discarding,
                 purging, reading, answer, letters>>
Discarded(m) ==
  /\ m \in discarding
  /\ discarding' = discarding \ {m}
  /\ buried' \in {buried, buried \ {m}}
  /\ UNCHANGED <<queued, used, enqueuing, acking, burying, purging, reading,
                 answer, letters>>

(* dequeue answers with what was queued all the time since its request,    *)
(* and with nothing that was never queued since.                           *)
Dequeue ==
  /\ ~reading.open
  /\ reading' = [open |-> TRUE, throughout |-> queued, ever |-> queued]
  /\ UNCHANGED <<queued, buried, used, enqueuing, acking, burying, discarding,
                 purging, answer, letters>>
Dequeued(found) ==
  /\ reading.open
  /\ reading.throughout \subseteq found /\ found \subseteq reading.ever
  /\ reading' = Idle /\ answer' = found
  /\ UNCHANGED <<queued, buried, used, enqueuing, acking, burying, discarding,
                 purging, letters>>

(* The broker stops in the middle of its calls.                            *)
StoreCrash ==
  /\ enqueuing' = {} /\ acking' = {} /\ burying' = {} /\ discarding' = {}
  /\ purging' = NoPurge /\ reading' = Idle
  /\ UNCHANGED <<queued, buried, used, answer, letters>>

(* What the store does; the first conjunct leaves stuttering to Spec.      *)
StoreNext ==
  /\ store' # store
  /\ \/ \E m \in Messages :
          \/ Enqueue(m) \/ Enqueued(m) \/ Leave(m)
          \/ Ack(m) \/ Acked(m)
          \/ DeadLetter(m) \/ Bury(m) \/ DeadLettered(m)
          \/ DiscardDlq(m) \/ Discard(m) \/ Discarded(m)
     \/ Purge \/ PurgeQueue
     \/ \E d \in SUBSET Messages : PurgeBuried(d) \/ Purged(d)
     \/ Dequeue \/ \E found \in SUBSET Messages : Dequeued(found)
     \/ StoreCrash

Spec == StoreInit /\ [][StoreNext]_store
=============================================================================
