----------------------------- MODULE RedisStore -----------------------------
(***************************************************************************)
(* The Redis store (lib/storage/redis.js), one command at a time.          *)
(*                                                                         *)
(* A queued message is a key with its payload and an entry in the sorted   *)
(* set of its queue; a dead letter likewise.  Each method is a chain of    *)
(* commands with a promise between them, so the commands of concurrent     *)
(* calls interleave, and keys expire on their own.  The order of a queue   *)
(* is not modelled here.  MessageStore says what all this must amount to.  *)
(***************************************************************************)
EXTENDS Naturals, FiniteSets

CONSTANTS StoredIds,   \* ids of messages
          LapsingIds,  \* those whose TTL can end
          MaxStoreOps, MaxStoreCrashes   \* bounds

ASSUME StoreAssumption == LapsingIds \subseteq StoredIds

VARIABLES
  mkeys,     \* messages whose key exists
  volatile,  \* those of them with an expiry set by PEXPIREAT
  zindex,    \* members of the sorted set of the queue
  dkeys,     \* dead letters whose key exists
  dindex,    \* members of the sorted set of dead letters
  rcalls,    \* open calls: operation, message, the command it is to send
  ids,       \* what an open dequeue has still to go through
  doomed,    \* what an open purge has still to delete
  found,     \* what an open dequeue has found
  usedIds, storeOps, storeCrashes,
  since, answered, before, \* history: what open calls are judged by
  lettered   \* history: what was ever a dead letter

redisVars == <<mkeys, volatile, zindex, dkeys, dindex, rcalls, ids, doomed,
               found, usedIds, storeOps, storeCrashes, since, answered, before,
               lettered>>
redis == <<mkeys, volatile, zindex, dkeys, dindex>>

(* A message is queued while dequeue would find both its parts.            *)
QueuedIds == mkeys \cap zindex
BuriedIds == dkeys \cap dindex
Open(op) == {c.m : c \in {d \in rcalls : d.op = op}}
All == "all"

Promised == INSTANCE MessageStore WITH
  Messages <- StoredIds, Lapsing <- LapsingIds,
  queued <- QueuedIds, buried <- BuriedIds, letters <- lettered, used <- usedIds,
  enqueuing <- Open("enqueue"), acking <- Open("ack"),
  burying <- Open("deadLetter"), discarding <- Open("discardDlq"),
  purging <- [open |-> Open("purge") # {}, before |-> before],
  reading <- since, answer <- answered

RedisInit ==
  /\ mkeys = {} /\ volatile = {} /\ zindex = {} /\ dkeys = {} /\ dindex = {}
  /\ rcalls = {} /\ ids = {} /\ doomed = {} /\ found = {}
  /\ usedIds = {} /\ storeOps = 0 /\ storeCrashes = 0
  /\ since = Promised!Idle /\ answered = {} /\ before = {} /\ lettered = {}

(* What the open dequeue is judged by follows the queue.                   *)
Noted ==
  /\ since' = IF since.open
              THEN [since EXCEPT !.throughout = @ \cap QueuedIds',
                                 !.ever = @ \cup QueuedIds']
              ELSE since
  /\ lettered' = lettered \cup BuriedIds'

(* A call starts: it sends its first command.                              *)
Call(op, m, at) ==
  /\ storeOps < MaxStoreOps /\ storeOps' = storeOps + 1
  /\ m \notin Open(op)
  /\ rcalls' = rcalls \cup {[op |-> op, m |-> m, at |-> at]}
  /\ UNCHANGED <<redis, storeCrashes, answered, lettered>>

(* A command of call c has run and the call goes on to `at', or is over.   *)
Then(c, at) == rcalls' = (rcalls \ {c}) \cup {[c EXCEPT !.at = at]}
Over(c) == rcalls' = rcalls \ {c}
Sent(c, command) == c \in rcalls /\ c.at = command
Others == UNCHANGED <<ids, doomed, found, usedIds, storeOps, storeCrashes,
                      answered, before>>

-----------------------------------------------------------------------------
(* enqueue: SET, PEXPIREAT, ZADD.                                          *)
EnqueueCall(m) ==
  /\ m \notin usedIds /\ usedIds' = usedIds \cup {m}
  /\ Call("enqueue", m, "SET")
  /\ UNCHANGED <<ids, doomed, found, since, before>>

EnqueueSet(c) ==
  /\ Sent(c, "SET") /\ Then(c, "PEXPIREAT")
  /\ mkeys' = mkeys \cup {c.m} /\ UNCHANGED <<volatile, zindex, dkeys, dindex>>
  /\ Noted /\ Others

(* Mutant: enqueue answers without waiting for its ZADD. *)
EnqueueUnindexed(c) ==
  /\ Sent(c, "PEXPIREAT") /\ Over(c)
  /\ volatile' = volatile \cup ({c.m} \cap LapsingIds)
  /\ UNCHANGED <<mkeys, zindex, dkeys, dindex>>
  /\ Noted /\ Others

EnqueueExpireAt(c) ==
  /\ Sent(c, "PEXPIREAT") /\ Then(c, "ZADD")
  /\ volatile' = volatile \cup ({c.m} \cap LapsingIds)
  /\ UNCHANGED <<mkeys, zindex, dkeys, dindex>>
  /\ Noted /\ Others

EnqueueZAdd(c) ==
  /\ Sent(c, "ZADD") /\ Over(c)
  /\ zindex' = zindex \cup {c.m} /\ UNCHANGED <<mkeys, volatile, dkeys, dindex>>
  /\ Noted /\ Others

(* Redis drops a key whose time is up.                                     *)
KeyExpires(m) ==
  /\ m \in volatile \cap mkeys
  /\ mkeys' = mkeys \ {m} /\ volatile' = volatile \ {m}
  /\ UNCHANGED <<zindex, dkeys, dindex, rcalls>>
  /\ Noted /\ Others

-----------------------------------------------------------------------------
(* ack: GET, ZREM if there was a key, DEL.  It is the whole of `ack', the  *)
(* end of deadLetter, and what dequeue does to an entry that is past its   *)
(* time.                                                                   *)
AckCall(m) ==
  /\ m \in usedIds \ Open("enqueue")
  /\ Call("ack", m, "GET")
  /\ UNCHANGED <<ids, doomed, found, usedIds, since, before>>

AckGet(c) ==
  /\ Sent(c, "GET")
  /\ Then(c, IF c.m \in mkeys THEN "ZREM" ELSE "DEL")
  /\ UNCHANGED redis /\ Noted /\ Others

AckZRem(c) ==
  /\ Sent(c, "ZREM") /\ Then(c, "DEL")
  /\ zindex' = zindex \ {c.m} /\ UNCHANGED <<mkeys, volatile, dkeys, dindex>>
  /\ Noted /\ Others

AckDel(c) ==
  /\ Sent(c, "DEL") /\ Over(c)
  /\ mkeys' = mkeys \ {c.m} /\ volatile' = volatile \ {c.m}
  /\ UNCHANGED <<zindex, dkeys, dindex>>
  /\ Noted /\ Others

(* deadLetter: GET, and if there was a key SET and ZADD of the dead        *)
(* letter, then ack.                                                       *)
DeadLetterCall(m) ==
  /\ m \in usedIds \ Open("enqueue")
  /\ Call("deadLetter", m, "GET message")
  /\ UNCHANGED <<ids, doomed, found, usedIds, since, before>>

DeadLetterGet(c) ==
  /\ Sent(c, "GET message")
  /\ IF c.m \in mkeys THEN Then(c, "SET dead") ELSE Over(c)
  /\ UNCHANGED redis /\ Noted /\ Others

DeadLetterSet(c) ==
  /\ Sent(c, "SET dead") /\ Then(c, "ZADD dead")
  /\ dkeys' = dkeys \cup {c.m} /\ UNCHANGED <<mkeys, volatile, zindex, dindex>>
  /\ Noted /\ Others

DeadLetterZAdd(c) ==
  /\ Sent(c, "ZADD dead") /\ Then(c, "GET")
  /\ dindex' = dindex \cup {c.m} /\ UNCHANGED <<mkeys, volatile, zindex, dkeys>>
  /\ Noted /\ Others

(* discardDlq: GET for the realm, which the caller has named as well, DEL, *)
(* ZREM.                                                                   *)
DiscardCall(m) ==
  /\ m \in BuriedIds
  /\ Call("discardDlq", m, "GET dead")
  /\ UNCHANGED <<ids, doomed, found, usedIds, since, before>>

DiscardGet(c) ==
  /\ Sent(c, "GET dead") /\ Then(c, "DEL dead")
  /\ UNCHANGED redis /\ Noted /\ Others

DiscardDel(c) ==
  /\ Sent(c, "DEL dead") /\ Then(c, "ZREM dead")
  /\ dkeys' = dkeys \ {c.m} /\ UNCHANGED <<mkeys, volatile, zindex, dindex>>
  /\ Noted /\ Others

DiscardZRem(c) ==
  /\ Sent(c, "ZREM dead") /\ Over(c)
  /\ dindex' = dindex \ {c.m} /\ UNCHANGED <<mkeys, volatile, zindex, dkeys>>
  /\ Noted /\ Others

-----------------------------------------------------------------------------
(* dequeue: ZRANGE, then for each id GET, and where there is no key ZREM;  *)
(* an entry past its time by the broker's clock is acknowledged.           *)
DequeueCall ==
  /\ Open("dequeue") = {}
  /\ Call("dequeue", All, "ZRANGE")
  /\ since' = [open |-> TRUE, throughout |-> QueuedIds, ever |-> QueuedIds]
  /\ UNCHANGED <<ids, doomed, found, usedIds, before>>

DequeueZRange(c) ==
  /\ Sent(c, "ZRANGE") /\ Then(c, "GET each")
  /\ ids' = zindex /\ found' = {}
  /\ UNCHANGED <<redis, doomed, usedIds, storeOps, storeCrashes, answered, before>>
  /\ Noted

Stale(m) == m \notin mkeys
DequeueGet(c, m) ==
  /\ Sent(c, "GET each") /\ m \in ids /\ ids' = ids \ {m}
  /\ \/ /\ Stale(m)
        /\ rcalls' = rcalls \cup {[op |-> "prune", m |-> m, at |-> "PRUNE"]}
        /\ UNCHANGED found
     \/ /\ m \in mkeys \cap volatile
        /\ rcalls' = rcalls \cup {[op |-> "prune", m |-> m, at |-> "GET"]}
        /\ UNCHANGED found
     \/ /\ ~Stale(m)
        /\ found' = found \cup {m} /\ UNCHANGED rcalls
  /\ UNCHANGED <<redis, doomed, usedIds, storeOps, storeCrashes, answered, before>>
  /\ Noted

DequeuePrune(c) ==
  /\ Sent(c, "PRUNE") /\ Over(c)
  /\ zindex' = zindex \ {c.m} /\ UNCHANGED <<mkeys, volatile, dkeys, dindex>>
  /\ Noted /\ Others

DequeueReturn(c) ==
  /\ Sent(c, "GET each") /\ ids = {} /\ Open("prune") = {}
  /\ Over(c)
  /\ answered' = found /\ found' = {} /\ since' = Promised!Idle
  /\ UNCHANGED <<redis, ids, doomed, usedIds, storeOps, storeCrashes, before,
                 lettered>>

-----------------------------------------------------------------------------
(* purgeRealm: ZRANGE of the queue, DEL of each message, DEL of the sorted *)
(* set; then the same for the dead letters.                                *)
PurgeCall ==
  /\ Open("purge") = {}
  /\ Call("purge", All, "ZRANGE queue")
  /\ before' = QueuedIds
  /\ UNCHANGED <<ids, doomed, found, usedIds, since>>

PurgeZRange(c) ==
  /\ \/ Sent(c, "ZRANGE queue") /\ doomed' = zindex /\ Then(c, "DEL queue")
     \/ Sent(c, "ZRANGE letters") /\ doomed' = dindex /\ Then(c, "DEL letters")
  /\ UNCHANGED <<redis, ids, found, usedIds, storeOps, storeCrashes, answered,
                 before>>
  /\ Noted

PurgeDel(c, m) ==
  /\ m \in doomed /\ doomed' = doomed \ {m}
  /\ \/ /\ Sent(c, "DEL queue")
        /\ mkeys' = mkeys \ {m} /\ volatile' = volatile \ {m}
        /\ UNCHANGED dkeys
     \/ /\ Sent(c, "DEL letters")
        /\ dkeys' = dkeys \ {m} /\ UNCHANGED <<mkeys, volatile>>
  /\ UNCHANGED <<zindex, dindex, rcalls, ids, found, usedIds, storeOps,
                 storeCrashes, answered, before>>
  /\ Noted

PurgeDelIndex(c) ==
  /\ doomed = {}
  /\ \/ /\ Sent(c, "DEL queue") /\ Then(c, "ZRANGE letters")
        /\ zindex' = {} /\ UNCHANGED <<dindex, before>>
     \/ /\ Sent(c, "DEL letters") /\ Over(c)
        /\ dindex' = {} /\ before' = {} /\ UNCHANGED zindex
  /\ UNCHANGED <<mkeys, volatile, dkeys, ids, doomed, found, usedIds, storeOps,
                 storeCrashes, answered>>
  /\ Noted

(* The broker stops: the rest of its calls is never sent.                  *)
StoreBrokerCrash ==
  /\ storeCrashes < MaxStoreCrashes /\ storeCrashes' = storeCrashes + 1
  /\ rcalls' = {} /\ ids' = {} /\ doomed' = {} /\ found' = {} /\ before' = {}
  /\ since' = Promised!Idle
  /\ UNCHANGED <<redis, usedIds, storeOps, answered, lettered>>

RedisNext ==
  \/ \E m \in StoredIds :
       \/ EnqueueCall(m) \/ AckCall(m) \/ DeadLetterCall(m) \/ DiscardCall(m)
       \/ KeyExpires(m)
  \/ DequeueCall \/ PurgeCall
  \/ \E c \in rcalls :
       \/ EnqueueSet(c) \/ EnqueueExpireAt(c) \/ EnqueueZAdd(c)
       \/ AckGet(c) \/ AckZRem(c) \/ AckDel(c)
       \/ DeadLetterGet(c) \/ DeadLetterSet(c) \/ DeadLetterZAdd(c)
       \/ DiscardGet(c) \/ DiscardDel(c) \/ DiscardZRem(c)
       \/ DequeueZRange(c) \/ DequeuePrune(c) \/ DequeueReturn(c)
       \/ PurgeZRange(c) \/ PurgeDelIndex(c)
       \/ \E m \in ids : DequeueGet(c, m)
       \/ \E m \in doomed : PurgeDel(c, m)
  \/ StoreBrokerCrash

RedisSpec == RedisInit /\ [][RedisNext]_redisVars

-----------------------------------------------------------------------------
(* However the commands of concurrent calls interleave, and wherever the   *)
(* broker stops, the Redis store keeps the promise of a message store: a   *)
(* message leaves the queue only when it is acknowledged, lapsed, purged   *)
(* or already a dead letter, it never comes back, and a dequeue returns    *)
(* all that was queued while it ran.                                       *)
KeepsThePromise == Promised!Spec
=============================================================================
