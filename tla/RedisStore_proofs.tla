------------------------- MODULE RedisStore_proofs -------------------------
(***************************************************************************)
(* The proof that the Redis store implements MessageStore, for any set of  *)
(* messages, any number of overlapping calls and any number of stops of    *)
(* the broker.                                                             *)
(***************************************************************************)
EXTENDS RedisStore, TLAPS

USE StoreAssumption

(* The calls there can be, with the commands each of them sends. *)
CallRecords ==
  [op : {"enqueue"}, m : StoredIds, at : {"SET", "PEXPIREAT", "ZADD"}]
  \cup [op : {"ack"}, m : StoredIds, at : {"GET", "ZREM", "DEL"}]
  \cup [op : {"deadLetter"}, m : StoredIds,
        at : {"GET message", "SET dead", "ZADD dead", "GET", "ZREM", "DEL"}]
  \cup [op : {"discardDlq"}, m : StoredIds, at : {"GET dead", "DEL dead", "ZREM dead"}]
  \cup [op : {"prune"}, m : StoredIds, at : {"PRUNE", "GET", "ZREM", "DEL"}]
  \cup [op : {"dequeue"}, m : {All}, at : {"ZRANGE", "GET each"}]
  \cup [op : {"purge"}, m : {All},
        at : {"ZRANGE queue", "DEL queue", "ZRANGE letters", "DEL letters"}]

RedisTypeOK ==
  /\ mkeys \subseteq StoredIds /\ volatile \subseteq LapsingIds
  /\ zindex \subseteq StoredIds /\ dkeys \subseteq StoredIds
  /\ dindex \subseteq StoredIds /\ ids \subseteq StoredIds
  /\ doomed \subseteq StoredIds
  /\ found \subseteq StoredIds /\ usedIds \subseteq StoredIds
  /\ rcalls \subseteq CallRecords
  /\ since \in [open : BOOLEAN, throughout : SUBSET StoredIds,
                ever : SUBSET StoredIds]

(* Messages whose enqueue was called and has answered, or never will. *)
Settled == usedIds \ Open("enqueue")

(* Calls of the broker's own do not repeat while they are open.            *)
CallsInv ==
  \A c, d \in rcalls : c.op = d.op /\ c.m = d.m /\ c.op # "prune" => c = d

(* Nothing of a message that is being enqueued is in a sorted set yet, and *)
(* what is indexed as a dead letter was one with both its parts.           *)
SettledInv ==
  /\ Open("enqueue") \subseteq usedIds
  /\ zindex \subseteq Settled /\ dindex \subseteq Settled
  /\ ids \subseteq Settled /\ doomed \subseteq Settled /\ before \subseteq Settled
  /\ dindex \subseteq lettered

(* An open dequeue knows what was queued throughout and ever. *)
ReadInv ==
  /\ since.open <=> Open("dequeue") # {}
  /\ since.open => since.throughout \subseteq QueuedIds /\ QueuedIds \subseteq since.ever

(* What a call relies on until its next command: calls about a message     *)
(* come after its enqueue; the key of an enqueue is there unless its time  *)
(* is up; what an ack or a prune has found out about its message stays so; *)
(* a deadLetter acknowledges what was a dead letter; what was queued       *)
(* throughout a dequeue is found, still to be looked at, or being          *)
(* acknowledged because its time is up; and nothing comes back into a      *)
(* queue that was purged.                                                  *)
CallOK(c) ==
  /\ c.op \in {"ack", "deadLetter", "prune"} => c.m \in Settled
  /\ c.at \in {"PEXPIREAT", "ZADD"} => c.m \in mkeys \cup LapsingIds
  /\ c.at = "DEL" => c.m \notin QueuedIds
  /\ c.at = "PRUNE" => c.m \notin mkeys
  /\ c.op = "prune" /\ c.at # "PRUNE" => c.m \in LapsingIds
  /\ c.op = "discardDlq" => c.m \in lettered
  /\ c.at = "ZADD dead" => c.m \in dkeys \cup lettered
  /\ c.op = "deadLetter" /\ c.at \in {"GET", "ZREM", "DEL"} => c.m \in lettered
  /\ c.at = "DEL letters" => doomed \subseteq lettered
  /\ c.at = "GET each" =>
       /\ since.throughout \subseteq found \cup ids \cup Open("prune")
       /\ found \subseteq since.ever
       /\ ids \cap mkeys \subseteq since.ever
  /\ c.at \in {"ZRANGE letters", "DEL letters"} => before \cap QueuedIds = {}

RedisInv ==
  /\ RedisTypeOK /\ CallsInv /\ SettledInv /\ ReadInv
  /\ \A c \in rcalls : CallOK(c)

(* The initial states satisfy the invariant. *)
LEMMA RedisInvInit == ASSUME RedisInit PROVE RedisInv
  BY DEF RedisInit, RedisInv, RedisTypeOK, CallsInv, SettledInv, ReadInv,
         Settled, Open, QueuedIds, Promised!Idle

-----------------------------------------------------------------------------
(* The open calls of each operation, after a call was made, went on to its *)
(* next command, or was over.                                              *)
LEMMA OpenAfterCall ==
  ASSUME NEW op, NEW m, NEW at, Call(op, m, at)
  PROVE  /\ Open(op)' = Open(op) \cup {m} /\ m \notin Open(op)
         /\ \A o : o # op => Open(o)' = Open(o)
  <1> DEFINE new == [op |-> op, m |-> m, at |-> at]
  <1>1. rcalls' = rcalls \cup {new} /\ new.op = op /\ new.m = m
    BY DEF Call
  <1> HIDE DEF new
  <1>2. m \notin Open(op)
    BY DEF Call
  <1> QED BY <1>1, <1>2 DEF Open

(* The call goes on. *)
LEMMA OpenAfterThen ==
  ASSUME RedisTypeOK, NEW c \in rcalls, NEW at, Then(c, at)
  PROVE  \A o : Open(o)' = Open(o)
  <1>1. /\ [c EXCEPT !.at = at].op = c.op /\ [c EXCEPT !.at = at].m = c.m
    BY DEF RedisTypeOK, CallRecords
  <1> QED BY <1>1 DEF Then, Open

(* The call is over. *)
LEMMA OpenAfterOver ==
  ASSUME CallsInv, NEW c \in rcalls, Over(c)
  PROVE  /\ \A o : o # c.op => Open(o)' = Open(o)
         /\ c.op # "prune" => Open(c.op)' = Open(c.op) \ {c.m}
         /\ Open(c.op)' \subseteq Open(c.op)
         /\ Open(c.op) \subseteq Open(c.op)' \cup {c.m}
  BY DEF Over, Open, CallsInv

(* An open dequeue follows the queue, and dead letters are remembered. *)
LEMMA AfterNoted ==
  ASSUME RedisTypeOK, Noted, QueuedIds' \subseteq StoredIds
  PROVE  /\ since' \in [open : BOOLEAN, throughout : SUBSET StoredIds,
                        ever : SUBSET StoredIds]
         /\ since'.open = since.open
         /\ since.open => /\ since'.throughout = since.throughout \cap QueuedIds'
                          /\ since'.ever = since.ever \cup QueuedIds'
         /\ lettered' = lettered \cup BuriedIds'
  BY DEF RedisTypeOK, Noted

(* enqueue, its call and its commands. *)
LEMMA EnqueueCallInv ==
  ASSUME RedisInv, NEW m \in StoredIds, EnqueueCall(m)
  PROVE  RedisInv'
  <1> DEFINE new == [op |-> "enqueue", m |-> m, at |-> "SET"]
  <1> USE DEF RedisInv
  <1>1. /\ m \notin usedIds /\ usedIds' = usedIds \cup {m}
        /\ rcalls' = rcalls \cup {new} /\ m \notin Open("enqueue")
        /\ UNCHANGED <<mkeys, volatile, zindex, dkeys, dindex, ids, doomed, found,
                       since, before, lettered>>
    BY DEF EnqueueCall, Call, redis
  <1>2. /\ Open("enqueue")' = Open("enqueue") \cup {m}
        /\ \A o : o # "enqueue" => Open(o)' = Open(o)
    BY OpenAfterCall DEF EnqueueCall
  <1>3. /\ new.op = "enqueue" /\ new.m = m /\ new.at = "SET"
        /\ new \in CallRecords
    BY DEF CallRecords
  <1> HIDE DEF new
  <1>4. Settled' = Settled
    BY <1>1, <1>2 DEF Settled
  <1>5. RedisTypeOK'
    BY <1>1, <1>3 DEF RedisTypeOK
  <1>6. CallsInv'
    BY <1>1, <1>2, <1>3 DEF CallsInv, Open
  <1>7. SettledInv'
    BY <1>1, <1>2, <1>3, <1>4 DEF SettledInv
  <1>8. \A c \in rcalls' : CallOK(c)'
    BY <1>1, <1>2, <1>3, <1>4 DEF CallOK, QueuedIds
  <1>9. ReadInv'
    BY <1>1, <1>2, <1>3 DEF ReadInv, QueuedIds
  <1> QED BY <1>5, <1>6, <1>7, <1>8, <1>9

(* A call that goes on to another of its commands replaces itself. *)
LEMMA ThenCalls ==
  ASSUME RedisTypeOK, CallsInv, NEW c \in rcalls, NEW at, Then(c, at),
         [c EXCEPT !.at = at] \in CallRecords
  PROVE  /\ rcalls' \subseteq CallRecords /\ CallsInv'
         /\ \A d \in rcalls' :
               d \in rcalls \/ (d.op = c.op /\ d.m = c.m /\ d.at = at)
         /\ \A o : Open(o)' = Open(o)
  <1> DEFINE new == [c EXCEPT !.at = at]
  <1>1. rcalls' = (rcalls \ {c}) \cup {new}
    BY DEF Then
  <1>2. new.op = c.op /\ new.m = c.m /\ new.at = at
    BY DEF RedisTypeOK, CallRecords
  <1> HIDE DEF new
  <1>3. \A o : Open(o)' = Open(o)
    BY OpenAfterThen
  <1>4. CallsInv'
    <2>1. ASSUME NEW d \in rcalls', NEW e \in rcalls',
                 d.op = e.op, d.m = e.m, d.op # "prune"
          PROVE  d = e
      BY <1>1, <1>2, <2>1 DEF CallsInv
    <2> QED BY <1>3, <2>1 DEF CallsInv
  <1>5. new \in CallRecords
    BY DEF new
  <1> QED BY <1>1, <1>2, <1>3, <1>4, <1>5 DEF RedisTypeOK

(* A call that is over leaves the others as they are. *)
LEMMA OverCalls ==
  ASSUME RedisTypeOK, CallsInv, NEW c \in rcalls, Over(c)
  PROVE  /\ rcalls' \subseteq rcalls /\ rcalls' \subseteq CallRecords /\ CallsInv'
         /\ \A o : o # c.op => Open(o)' = Open(o)
         /\ c.op # "prune" => Open(c.op)' = Open(c.op) \ {c.m}
         /\ Open(c.op)' \subseteq Open(c.op)
         /\ Open(c.op) \subseteq Open(c.op)' \cup {c.m}
  <1>1. rcalls' \subseteq rcalls
    BY DEF Over
  <1>2. \A o : Open(o)' \subseteq Open(o)
    BY <1>1 DEF Open
  <1> QED BY <1>1, <1>2, OpenAfterOver DEF CallsInv, RedisTypeOK

(* Which operation a command belongs to, and that its message has the call *)
(* open.                                                                   *)
LEMMA CommandOf ==
  ASSUME RedisTypeOK, NEW c \in rcalls
  PROVE  /\ c.m \in Open(c.op)
         /\ c.at \in {"SET", "PEXPIREAT", "ZADD"} => c.op = "enqueue"
         /\ c.at \in {"GET", "ZREM", "DEL"} => c.op \in {"ack", "deadLetter", "prune"}
         /\ c.at \in {"GET message", "SET dead", "ZADD dead"} => c.op = "deadLetter"
         /\ c.at \in {"GET dead", "DEL dead", "ZREM dead"} => c.op = "discardDlq"
         /\ c.at = "PRUNE" => c.op = "prune"
         /\ c.at \in {"ZRANGE", "GET each"} => c.op = "dequeue" /\ c.m = All
         /\ c.at \in {"ZRANGE queue", "DEL queue", "ZRANGE letters", "DEL letters"}
              => c.op = "purge" /\ c.m = All
         /\ c.op \in {"enqueue", "ack", "deadLetter", "discardDlq", "prune"}
              => c.m \in StoredIds
  <1>1. c \in CallRecords
    BY DEF RedisTypeOK
  <1> QED BY <1>1 DEF CallRecords, Open

(* The rely condition of the calls: as long as nothing settled comes back, *)
(* no key of an enqueue disappears before its time, and dead letters are   *)
(* only deleted as such, a command keeps what every other call relies on.  *)
Undisturbed ==
  /\ mkeys' \cap Settled \subseteq mkeys /\ zindex' \cap Settled \subseteq zindex
  /\ mkeys \cap Open("enqueue") \subseteq mkeys' \cup LapsingIds
  /\ dkeys \subseteq dkeys' \cup lettered
  /\ Open("enqueue")' \subseteq Open("enqueue")
  /\ Open("dequeue")' = Open("dequeue")
  /\ Open("prune") \subseteq Open("prune")' \cup (StoredIds \ QueuedIds')

(* What the command itself has to see to. *)
Proper ==
  /\ mkeys' \subseteq StoredIds /\ volatile' \subseteq LapsingIds
  /\ dkeys' \subseteq StoredIds /\ found' \subseteq StoredIds
  /\ rcalls' \subseteq CallRecords /\ CallsInv'
  /\ zindex' \subseteq Settled' /\ dindex' \subseteq Settled' \cap lettered'
  /\ ids' \subseteq Settled' /\ doomed' \subseteq Settled'

(* A command that disturbs nobody and leaves its own call in order keeps   *)
(* the invariant.                                                          *)
LEMMA CommandKeeps ==
  ASSUME RedisInv, Undisturbed, Proper, Noted, UNCHANGED <<usedIds, before>>,
         ASSUME NEW d \in rcalls',
                \/ d \notin rcalls
                \/ d.at = "GET each" /\ ~UNCHANGED <<ids, found>>
                \/ d.at = "DEL letters" /\ ~UNCHANGED doomed
         PROVE  CallOK(d)'
  PROVE  RedisInv'
  <1> USE DEF RedisInv
  <1>1. Settled \subseteq Settled' /\ Settled' \subseteq usedIds
    BY DEF Settled, Undisturbed
  <1>2. usedIds \subseteq Settled \cup Open("enqueue")
    BY DEF Settled
  <1>3. QueuedIds' \cap Settled \subseteq QueuedIds /\ QueuedIds' \subseteq StoredIds
    BY DEF QueuedIds, Undisturbed, Proper
  <1>4. /\ since' \in [open : BOOLEAN, throughout : SUBSET StoredIds,
                       ever : SUBSET StoredIds]
        /\ since'.open = since.open
        /\ since.open => /\ since'.throughout = since.throughout \cap QueuedIds'
                         /\ since'.ever = since.ever \cup QueuedIds'
        /\ lettered' = lettered \cup BuriedIds'
    BY <1>3, AfterNoted
  <1>5. RedisTypeOK'
    <2>1. /\ zindex' \subseteq StoredIds /\ dindex' \subseteq StoredIds
          /\ ids' \subseteq StoredIds /\ doomed' \subseteq StoredIds
      BY <1>1 DEF RedisTypeOK, Proper
    <2> QED BY <1>4, <2>1 DEF RedisTypeOK, Proper
  <1>6. SettledInv'
    BY <1>1 DEF SettledInv, Undisturbed, Proper
  <1>7. ReadInv'
    BY <1>4 DEF ReadInv, Undisturbed
  <1>8. ASSUME NEW d \in rcalls, CallOK(d), d.at \notin {"DEL letters", "GET each"}
        PROVE  CallOK(d)'
    <2>1. d.m \in Open(d.op)
      BY CommandOf
    <2>2. /\ d.op \in {"ack", "deadLetter", "prune"} => d.m \in Settled'
          /\ d.at = "DEL" => d.m \notin QueuedIds'
          /\ d.at = "PRUNE" => d.m \notin mkeys'
      BY <1>1, <1>3, <1>8, CommandOf DEF CallOK, Undisturbed
    <2>3. d.at \in {"PEXPIREAT", "ZADD"} => d.m \in mkeys' \cup LapsingIds
      BY <1>8, <2>1, CommandOf DEF CallOK, Undisturbed
    <2>4. /\ d.op = "discardDlq" => d.m \in lettered'
          /\ d.at = "ZADD dead" => d.m \in dkeys' \cup lettered'
          /\ d.op = "deadLetter" /\ d.at \in {"GET", "ZREM", "DEL"} => d.m \in lettered'
      BY <1>4, <1>8 DEF CallOK, Undisturbed
    <2>5. d.at = "ZRANGE letters" => before' \cap QueuedIds' = {}
      BY <1>3, <1>8 DEF CallOK, SettledInv
    <2> QED BY <1>8, <2>2, <2>3, <2>4, <2>5 DEF CallOK
  <1>9. ASSUME NEW d \in rcalls, CallOK(d), d.at = "GET each", UNCHANGED <<ids, found>>
        PROVE  CallOK(d)'
    <2>1. since.open /\ d.op = "dequeue"
      BY <1>9, CommandOf DEF ReadInv
    <2>2. ids' \cap mkeys' \subseteq ids \cap mkeys
      BY <1>9 DEF SettledInv, Undisturbed
    <2>3. Open("prune") \cap QueuedIds' \subseteq Open("prune")'
      BY DEF Undisturbed
    <2>4. /\ since'.throughout \subseteq found' \cup ids' \cup Open("prune")'
          /\ found' \subseteq since'.ever
          /\ ids' \cap mkeys' \subseteq since'.ever
      BY <1>4, <1>9, <2>1, <2>2, <2>3 DEF CallOK
    <2> QED BY <1>9, <2>1, <2>4 DEF CallOK
  <1>10. ASSUME NEW d \in rcalls, CallOK(d), d.at = "DEL letters", UNCHANGED doomed
         PROVE  CallOK(d)'
    <2>1. doomed' \subseteq lettered' /\ before' \cap QueuedIds' = {}
      BY <1>3, <1>4, <1>10 DEF CallOK, SettledInv
    <2>2. d.op = "purge"
      BY <1>10, CommandOf
    <2> QED BY <1>10, <2>1, <2>2 DEF CallOK
  <1>11. \A d \in rcalls' : CallOK(d)'
    BY <1>8, <1>9, <1>10
  <1> QED BY <1>5, <1>6, <1>7, <1>11 DEF Proper

(* The commands of enqueue. *)
LEMMA EnqueueInv ==
  ASSUME RedisInv, NEW c \in rcalls,
         EnqueueSet(c) \/ EnqueueExpireAt(c) \/ EnqueueZAdd(c)
  PROVE  RedisInv'
  <1> USE DEF RedisInv
  <1>0. /\ c.op = "enqueue" /\ c.m \in StoredIds /\ c.m \in Open("enqueue")
        /\ c \in CallRecords
    BY CommandOf DEF EnqueueSet, EnqueueExpireAt, EnqueueZAdd, Sent, RedisTypeOK
  <1>1. CASE EnqueueSet(c)
    <2>1. /\ Then(c, "PEXPIREAT") /\ mkeys' = mkeys \cup {c.m} /\ Noted
          /\ UNCHANGED <<volatile, zindex, dkeys, dindex, ids, doomed, found, usedIds,
                         before>>
      BY <1>1 DEF EnqueueSet, Others
    <2>2. [c EXCEPT !.at = "PEXPIREAT"] \in CallRecords
      BY <1>0 DEF CallRecords
    <2>3. /\ rcalls' \subseteq CallRecords /\ CallsInv' /\ \A o : Open(o)' = Open(o)
          /\ \A d \in rcalls' :
                d \in rcalls \/ (d.op = c.op /\ d.m = c.m /\ d.at = "PEXPIREAT")
      BY <2>1, <2>2, ThenCalls
    <2>4. Settled' = Settled
      BY <2>1, <2>3 DEF Settled
    <2>5. Undisturbed
      BY <1>0, <2>1, <2>3 DEF Undisturbed, Settled
    <2>6. Proper
      BY <1>0, <2>1, <2>3, <2>4 DEF Proper, RedisTypeOK, SettledInv, Noted
    <2>7. \A d \in rcalls' : d \notin rcalls => CallOK(d)'
      BY <1>0, <2>1, <2>3 DEF CallOK
    <2> QED BY <2>1, <2>5, <2>6, <2>7, CommandKeeps
  <1>2. CASE EnqueueExpireAt(c)
    <2>1. /\ c.at = "PEXPIREAT" /\ Then(c, "ZADD") /\ Noted
          /\ volatile' = volatile \cup ({c.m} \cap LapsingIds)
          /\ UNCHANGED <<mkeys, zindex, dkeys, dindex, ids, doomed, found, usedIds,
                         before>>
      BY <1>2 DEF EnqueueExpireAt, Others, Sent
    <2>2. [c EXCEPT !.at = "ZADD"] \in CallRecords
      BY <1>0 DEF CallRecords
    <2>3. /\ rcalls' \subseteq CallRecords /\ CallsInv' /\ \A o : Open(o)' = Open(o)
          /\ \A d \in rcalls' :
                d \in rcalls \/ (d.op = c.op /\ d.m = c.m /\ d.at = "ZADD")
      BY <2>1, <2>2, ThenCalls
    <2>4. Settled' = Settled
      BY <2>1, <2>3 DEF Settled
    <2>5. Undisturbed
      BY <2>1, <2>3 DEF Undisturbed
    <2>6. Proper
      BY <2>1, <2>3, <2>4 DEF Proper, RedisTypeOK, SettledInv, Noted
    <2>7. \A d \in rcalls' : d \notin rcalls => CallOK(d)'
      BY <1>0, <2>1, <2>3 DEF CallOK
    <2> QED BY <2>1, <2>5, <2>6, <2>7, CommandKeeps
  <1>3. CASE EnqueueZAdd(c)
    <2>1. /\ Over(c) /\ zindex' = zindex \cup {c.m} /\ Noted
          /\ UNCHANGED <<mkeys, volatile, dkeys, dindex, ids, doomed, found, usedIds,
                         before>>
      BY <1>3 DEF EnqueueZAdd, Others
    <2>2. /\ rcalls' \subseteq rcalls /\ rcalls' \subseteq CallRecords /\ CallsInv'
          /\ Open("enqueue")' = Open("enqueue") \ {c.m}
          /\ \A o : o # "enqueue" => Open(o)' = Open(o)
      BY <1>0, <2>1, OverCalls
    <2>3. Settled' = Settled \cup {c.m}
      BY <1>0, <2>1, <2>2 DEF Settled, SettledInv
    <2>4. Undisturbed
      BY <1>0, <2>1, <2>2 DEF Undisturbed, Settled
    <2>5. Proper
      BY <1>0, <2>1, <2>2, <2>3 DEF Proper, RedisTypeOK, SettledInv, Noted
    <2> QED BY <2>1, <2>2, <2>4, <2>5, CommandKeeps
  <1> QED BY <1>1, <1>2, <1>3

(* A key expires. *)
LEMMA KeyExpiresInv ==
  ASSUME RedisInv, NEW m \in StoredIds, KeyExpires(m)
  PROVE  RedisInv'
  <1> USE DEF RedisInv
  <1>1. /\ m \in volatile /\ mkeys' = mkeys \ {m} /\ volatile' = volatile \ {m}
        /\ UNCHANGED <<zindex, dkeys, dindex, rcalls, ids, doomed, found, usedIds,
                       before>>
        /\ Noted
    BY DEF KeyExpires, Others
  <1>2. \A o : Open(o)' = Open(o)
    BY <1>1 DEF Open
  <1>3. Settled' = Settled
    BY <1>1, <1>2 DEF Settled
  <1>4. Undisturbed
    BY <1>1, <1>2 DEF Undisturbed, RedisTypeOK
  <1>5. CallsInv'
    BY <1>1, <1>2 DEF CallsInv
  <1>6. Proper
    BY <1>1, <1>3, <1>5 DEF Proper, RedisTypeOK, SettledInv, Noted
  <1> QED BY <1>1, <1>4, <1>6, CommandKeeps

(* The commands of ack, as the end of deadLetter and of a prune too. *)
LEMMA AckInv ==
  ASSUME RedisInv, NEW c \in rcalls, AckGet(c) \/ AckZRem(c) \/ AckDel(c)
  PROVE  RedisInv'
  <1> USE DEF RedisInv
  <1>0. /\ c.op \in {"ack", "deadLetter", "prune"} /\ c.m \in StoredIds
        /\ c.at \in {"GET", "ZREM", "DEL"}
        /\ c \in CallRecords /\ c.m \in Settled
    BY CommandOf DEF AckGet, AckZRem, AckDel, Sent, RedisTypeOK, CallOK
  <1>1. ASSUME NEW at \in {"ZREM", "DEL"}, Then(c, at)
        PROVE  /\ rcalls' \subseteq CallRecords /\ CallsInv' /\ \A o : Open(o)' = Open(o)
               /\ \A d \in rcalls' :
                     d \in rcalls \/ (d.op = c.op /\ d.m = c.m /\ d.at = at)
    <2>1. [c EXCEPT !.at = at] \in CallRecords
      BY <1>0 DEF CallRecords
    <2> QED BY <1>1, <2>1, ThenCalls
  <1>2. CASE AckGet(c)
    <2> DEFINE at == IF c.m \in mkeys THEN "ZREM" ELSE "DEL"
    <2>1. /\ c.at = "GET" /\ Then(c, at) /\ Noted
          /\ UNCHANGED <<mkeys, volatile, zindex, dkeys, dindex, ids, doomed, found,
                         usedIds, before>>
      BY <1>2 DEF AckGet, Others, Sent, redis
    <2>a. at \in {"ZREM", "DEL"} /\ (at = "DEL" => c.m \notin mkeys)
      OBVIOUS
    <2> HIDE DEF at
    <2>2. /\ rcalls' \subseteq CallRecords /\ CallsInv' /\ \A o : Open(o)' = Open(o)
          /\ \A d \in rcalls' :
                d \in rcalls \/ (d.op = c.op /\ d.m = c.m /\ d.at = at)
      BY <1>1, <2>1, <2>a
    <2>3. Settled' = Settled
      BY <2>1, <2>2 DEF Settled
    <2>4. Undisturbed
      BY <2>1, <2>2 DEF Undisturbed
    <2>5. Proper
      BY <2>1, <2>2, <2>3 DEF Proper, RedisTypeOK, SettledInv, Noted
    <2>6. \A d \in rcalls' : d \notin rcalls => CallOK(d)'
      BY <1>0, <2>1, <2>2, <2>3, <2>a DEF CallOK, QueuedIds, Noted
    <2> QED BY <2>1, <2>4, <2>5, <2>6, CommandKeeps
  <1>3. CASE AckZRem(c)
    <2>1. /\ c.at = "ZREM" /\ Then(c, "DEL") /\ zindex' = zindex \ {c.m} /\ Noted
          /\ UNCHANGED <<mkeys, volatile, dkeys, dindex, ids, doomed, found, usedIds,
                         before>>
      BY <1>3 DEF AckZRem, Others, Sent
    <2>2. /\ rcalls' \subseteq CallRecords /\ CallsInv' /\ \A o : Open(o)' = Open(o)
          /\ \A d \in rcalls' :
                d \in rcalls \/ (d.op = c.op /\ d.m = c.m /\ d.at = "DEL")
      BY <1>1, <2>1
    <2>3. Settled' = Settled
      BY <2>1, <2>2 DEF Settled
    <2>4. Undisturbed
      BY <2>1, <2>2 DEF Undisturbed
    <2>5. Proper
      BY <2>1, <2>2, <2>3 DEF Proper, RedisTypeOK, SettledInv, Noted
    <2>6. \A d \in rcalls' : d \notin rcalls => CallOK(d)'
      BY <1>0, <2>1, <2>2, <2>3 DEF CallOK, QueuedIds, Noted
    <2> QED BY <2>1, <2>4, <2>5, <2>6, CommandKeeps
  <1>4. CASE AckDel(c)
    <2>1. /\ c.at = "DEL" /\ Over(c) /\ Noted
          /\ mkeys' = mkeys \ {c.m} /\ volatile' = volatile \ {c.m}
          /\ UNCHANGED <<zindex, dkeys, dindex, ids, doomed, found, usedIds, before>>
      BY <1>4 DEF AckDel, Others, Sent
    <2>2. /\ rcalls' \subseteq rcalls /\ rcalls' \subseteq CallRecords /\ CallsInv'
          /\ \A o : o # c.op => Open(o)' = Open(o)
          /\ Open(c.op) \subseteq Open(c.op)' \cup {c.m}
      BY <2>1, OverCalls
    <2>3. Settled' = Settled
      BY <1>0, <2>1, <2>2 DEF Settled
    <2>4. Undisturbed
      <3>1. c.m \notin QueuedIds' /\ c.m \notin Open("enqueue")
        BY <1>0, <2>1 DEF QueuedIds, Settled
      <3>2. Open("prune") \subseteq Open("prune")' \cup (StoredIds \ QueuedIds')
        BY <1>0, <2>2, <3>1
      <3> QED BY <1>0, <2>1, <2>2, <3>1, <3>2 DEF Undisturbed
    <2>5. Proper
      BY <2>1, <2>2, <2>3 DEF Proper, RedisTypeOK, SettledInv, Noted
    <2> QED BY <2>1, <2>2, <2>4, <2>5, CommandKeeps
  <1> QED BY <1>2, <1>3, <1>4

(* The commands of deadLetter before its ack. *)
LEMMA DeadLetterInv ==
  ASSUME RedisInv, NEW c \in rcalls,
         DeadLetterGet(c) \/ DeadLetterSet(c) \/ DeadLetterZAdd(c)
  PROVE  RedisInv'
  <1> USE DEF RedisInv
  <1>0. /\ c.op = "deadLetter" /\ c.m \in StoredIds
        /\ c \in CallRecords /\ c.m \in Settled
    BY CommandOf DEF DeadLetterGet, DeadLetterSet, DeadLetterZAdd, Sent,
                     RedisTypeOK, CallOK
  <1>1. ASSUME NEW at \in {"SET dead", "ZADD dead", "GET"}, Then(c, at)
        PROVE  /\ rcalls' \subseteq CallRecords /\ CallsInv' /\ \A o : Open(o)' = Open(o)
               /\ \A d \in rcalls' :
                     d \in rcalls \/ (d.op = c.op /\ d.m = c.m /\ d.at = at)
    <2>1. [c EXCEPT !.at = at] \in CallRecords
      BY <1>0 DEF CallRecords
    <2> QED BY <1>1, <2>1, ThenCalls
  <1>2. CASE DeadLetterGet(c)
    <2>1. /\ IF c.m \in mkeys THEN Then(c, "SET dead") ELSE Over(c)
          /\ UNCHANGED <<mkeys, volatile, zindex, dkeys, dindex, ids, doomed, found,
                         usedIds, before>>
          /\ Noted
      BY <1>2 DEF DeadLetterGet, Others, redis
    <2>2. /\ rcalls' \subseteq CallRecords /\ CallsInv'
          /\ \A o : o # "deadLetter" => Open(o)' = Open(o)
          /\ \A d \in rcalls' :
                d \in rcalls \/ (d.op = c.op /\ d.m = c.m /\ d.at = "SET dead")
      BY <1>0, <1>1, <2>1, OverCalls
    <2>3. Settled' = Settled
      BY <2>1, <2>2 DEF Settled
    <2>4. Undisturbed
      BY <2>1, <2>2 DEF Undisturbed
    <2>5. Proper
      BY <2>1, <2>2, <2>3 DEF Proper, RedisTypeOK, SettledInv, Noted
    <2>6. \A d \in rcalls' : d \notin rcalls => CallOK(d)'
      BY <1>0, <2>1, <2>2, <2>3 DEF CallOK
    <2> QED BY <2>1, <2>4, <2>5, <2>6, CommandKeeps
  <1>3. CASE DeadLetterSet(c)
    <2>1. /\ Then(c, "ZADD dead") /\ dkeys' = dkeys \cup {c.m} /\ Noted
          /\ UNCHANGED <<mkeys, volatile, zindex, dindex, ids, doomed, found, usedIds,
                         before>>
      BY <1>3 DEF DeadLetterSet, Others
    <2>2. /\ rcalls' \subseteq CallRecords /\ CallsInv' /\ \A o : Open(o)' = Open(o)
          /\ \A d \in rcalls' :
                d \in rcalls \/ (d.op = c.op /\ d.m = c.m /\ d.at = "ZADD dead")
      BY <1>1, <2>1
    <2>3. Settled' = Settled
      BY <2>1, <2>2 DEF Settled
    <2>4. Undisturbed
      BY <2>1, <2>2 DEF Undisturbed
    <2>5. Proper
      BY <1>0, <2>1, <2>2, <2>3 DEF Proper, RedisTypeOK, SettledInv, Noted
    <2>6. \A d \in rcalls' : d \notin rcalls => CallOK(d)'
      BY <1>0, <2>1, <2>2, <2>3 DEF CallOK
    <2> QED BY <2>1, <2>4, <2>5, <2>6, CommandKeeps
  <1>4. CASE DeadLetterZAdd(c)
    <2>1. /\ c.at = "ZADD dead" /\ Then(c, "GET") /\ dindex' = dindex \cup {c.m}
          /\ UNCHANGED <<mkeys, volatile, zindex, dkeys, ids, doomed, found, usedIds,
                         before>>
          /\ Noted
      BY <1>4 DEF DeadLetterZAdd, Others, Sent
    <2>2. /\ rcalls' \subseteq CallRecords /\ CallsInv' /\ \A o : Open(o)' = Open(o)
          /\ \A d \in rcalls' :
                d \in rcalls \/ (d.op = c.op /\ d.m = c.m /\ d.at = "GET")
      BY <1>1, <2>1
    <2>3. Settled' = Settled
      BY <2>1, <2>2 DEF Settled
    <2>a. c.m \in lettered'
      BY <2>1 DEF CallOK, Noted, BuriedIds
    <2>4. Undisturbed
      BY <2>1, <2>2 DEF Undisturbed
    <2>5. Proper
      BY <1>0, <2>1, <2>2, <2>3, <2>a DEF Proper, RedisTypeOK, SettledInv, Noted
    <2>6. \A d \in rcalls' : d \notin rcalls => CallOK(d)'
      BY <1>0, <2>2, <2>3, <2>a DEF CallOK
    <2> QED BY <2>1, <2>4, <2>5, <2>6, CommandKeeps
  <1> QED BY <1>2, <1>3, <1>4

(* The commands of discardDlq. *)
LEMMA DiscardInv ==
  ASSUME RedisInv, NEW c \in rcalls, DiscardGet(c) \/ DiscardDel(c) \/ DiscardZRem(c)
  PROVE  RedisInv'
  <1> USE DEF RedisInv
  <1>0. /\ c.op = "discardDlq" /\ c.m \in StoredIds /\ c \in CallRecords
        /\ c.m \in lettered
    BY CommandOf DEF DiscardGet, DiscardDel, DiscardZRem, Sent, RedisTypeOK, CallOK
  <1>3. CASE DiscardGet(c)
    <2>1. /\ Then(c, "DEL dead") /\ Noted
          /\ UNCHANGED <<mkeys, volatile, zindex, dkeys, dindex, ids, doomed, found,
                         usedIds, before>>
      BY <1>3 DEF DiscardGet, Others, redis
    <2>2. [c EXCEPT !.at = "DEL dead"] \in CallRecords
      BY <1>0 DEF CallRecords
    <2>3. /\ rcalls' \subseteq CallRecords /\ CallsInv' /\ \A o : Open(o)' = Open(o)
          /\ \A d \in rcalls' :
                d \in rcalls \/ (d.op = c.op /\ d.m = c.m /\ d.at = "DEL dead")
      BY <2>1, <2>2, ThenCalls
    <2>4. Settled' = Settled
      BY <2>1, <2>3 DEF Settled
    <2>5. Undisturbed
      BY <2>1, <2>3 DEF Undisturbed
    <2>6. Proper
      BY <2>1, <2>3, <2>4 DEF Proper, RedisTypeOK, SettledInv, Noted
    <2>7. \A d \in rcalls' : d \notin rcalls => CallOK(d)'
      BY <1>0, <2>1, <2>3 DEF CallOK, Noted
    <2> QED BY <2>1, <2>5, <2>6, <2>7, CommandKeeps
  <1>1. CASE DiscardDel(c)
    <2>1. /\ Then(c, "ZREM dead") /\ dkeys' = dkeys \ {c.m} /\ Noted
          /\ UNCHANGED <<mkeys, volatile, zindex, dindex, ids, doomed, found, usedIds,
                         before>>
      BY <1>1 DEF DiscardDel, Others
    <2>a. [c EXCEPT !.at = "ZREM dead"] \in CallRecords
      BY <1>0 DEF CallRecords
    <2>2. /\ rcalls' \subseteq CallRecords /\ CallsInv' /\ \A o : Open(o)' = Open(o)
          /\ \A d \in rcalls' :
                d \in rcalls \/ (d.op = c.op /\ d.m = c.m /\ d.at = "ZREM dead")
      BY <2>1, <2>a, ThenCalls
    <2>3. Settled' = Settled
      BY <2>1, <2>2 DEF Settled
    <2>4. Undisturbed
      BY <1>0, <2>1, <2>2 DEF Undisturbed
    <2>5. Proper
      BY <2>1, <2>2, <2>3 DEF Proper, RedisTypeOK, SettledInv, Noted
    <2>6. \A d \in rcalls' : d \notin rcalls => CallOK(d)'
      BY <1>0, <2>1, <2>2 DEF CallOK, Noted
    <2> QED BY <2>1, <2>4, <2>5, <2>6, CommandKeeps
  <1>2. CASE DiscardZRem(c)
    <2>1. /\ Over(c) /\ dindex' = dindex \ {c.m} /\ Noted
          /\ UNCHANGED <<mkeys, volatile, zindex, dkeys, ids, doomed, found, usedIds,
                         before>>
      BY <1>2 DEF DiscardZRem, Others
    <2>2. /\ rcalls' \subseteq rcalls /\ rcalls' \subseteq CallRecords /\ CallsInv'
          /\ \A o : o # "discardDlq" => Open(o)' = Open(o)
      BY <1>0, <2>1, OverCalls
    <2>3. Settled' = Settled
      BY <2>1, <2>2 DEF Settled
    <2>4. Undisturbed
      BY <2>1, <2>2 DEF Undisturbed
    <2>5. Proper
      BY <2>1, <2>2, <2>3 DEF Proper, RedisTypeOK, SettledInv, Noted
    <2> QED BY <2>1, <2>2, <2>4, <2>5, CommandKeeps
  <1> QED BY <1>1, <1>2, <1>3

(* The commands of dequeue that go through the queue, and of its prunes. *)
LEMMA DequeueInv ==
  ASSUME RedisInv, NEW c \in rcalls,
         DequeueZRange(c) \/ DequeuePrune(c) \/ \E m \in ids : DequeueGet(c, m)
  PROVE  RedisInv'
  <1> USE DEF RedisInv
  <1>1. CASE DequeueZRange(c)
    <2>1. /\ c.at = "ZRANGE" /\ Then(c, "GET each") /\ Noted
          /\ ids' = zindex /\ found' = {}
          /\ UNCHANGED <<mkeys, volatile, zindex, dkeys, dindex, doomed, usedIds,
                         before>>
      BY <1>1 DEF DequeueZRange, Sent, redis
    <2>2. c.op = "dequeue" /\ c.m = All /\ c \in CallRecords /\ All \in Open("dequeue")
      BY <2>1, CommandOf DEF RedisTypeOK
    <2>3. [c EXCEPT !.at = "GET each"] \in CallRecords
      BY <2>2 DEF CallRecords
    <2>4. /\ rcalls' \subseteq CallRecords /\ CallsInv' /\ \A o : Open(o)' = Open(o)
          /\ \A d \in rcalls' :
                d \in rcalls \/ (d.op = c.op /\ d.m = c.m /\ d.at = "GET each")
      BY <2>1, <2>3, ThenCalls
    <2>5. Settled' = Settled
      BY <2>1, <2>4 DEF Settled
    <2>6. Undisturbed
      BY <2>1, <2>4 DEF Undisturbed
    <2>7. Proper
      BY <2>1, <2>4, <2>5 DEF Proper, RedisTypeOK, SettledInv, Noted
    <2>8. /\ since'.throughout \subseteq zindex
          /\ zindex \cap mkeys \subseteq since'.ever
      BY <2>1, <2>2 DEF ReadInv, RedisTypeOK, Noted, QueuedIds
    <2>9. ASSUME NEW d \in rcalls',
                 d \notin rcalls \/ d.at = "GET each"
          PROVE  CallOK(d)'
      <3>1. d.at = "GET each" /\ d.op = "dequeue"
        BY <2>2, <2>4, <2>9, CommandOf
      <3> QED BY <2>1, <2>8, <3>1 DEF CallOK
    <2> QED BY <2>1, <2>6, <2>7, <2>9, CommandKeeps
  <1>2. CASE DequeuePrune(c)
    <2>1. /\ c.at = "PRUNE" /\ Over(c) /\ zindex' = zindex \ {c.m} /\ Noted
          /\ UNCHANGED <<mkeys, volatile, dkeys, dindex, ids, doomed, found, usedIds,
                         before>>
      BY <1>2 DEF DequeuePrune, Others, Sent
    <2>2. c.op = "prune" /\ c.m \in StoredIds /\ c.m \notin mkeys
      BY <2>1, CommandOf DEF CallOK
    <2>3. /\ rcalls' \subseteq rcalls /\ rcalls' \subseteq CallRecords /\ CallsInv'
          /\ \A o : o # "prune" => Open(o)' = Open(o)
          /\ Open("prune") \subseteq Open("prune")' \cup {c.m}
      BY <2>1, <2>2, OverCalls
    <2>4. Settled' = Settled
      BY <2>1, <2>3 DEF Settled
    <2>5. Undisturbed
      BY <2>1, <2>2, <2>3 DEF Undisturbed, QueuedIds
    <2>6. Proper
      BY <2>1, <2>3, <2>4 DEF Proper, RedisTypeOK, SettledInv, Noted
    <2> QED BY <2>1, <2>3, <2>5, <2>6, CommandKeeps
  <1>3. ASSUME NEW m \in ids, DequeueGet(c, m) PROVE RedisInv'
    <2>1. /\ c.at = "GET each" /\ ids' = ids \ {m} /\ Noted
          /\ UNCHANGED <<mkeys, volatile, zindex, dkeys, dindex, doomed, usedIds,
                         before>>
      BY <1>3 DEF DequeueGet, Sent, redis
    <2>2. c.op = "dequeue" /\ c.m = All /\ All \in Open("dequeue") /\ since.open
      BY <2>1, CommandOf DEF ReadInv
    <2>3. m \in StoredIds /\ m \in Settled
      BY DEF RedisTypeOK, SettledInv
    <2>4. PICK at \in {"PRUNE", "GET", "none"} :
            /\ at = "none" => /\ found' = found \cup {m} /\ UNCHANGED rcalls
                              /\ m \in mkeys
            /\ at # "none" => /\ rcalls' = rcalls \cup
                                   {[op |-> "prune", m |-> m, at |-> at]}
                              /\ UNCHANGED found
            /\ at = "PRUNE" => m \notin mkeys
            /\ at = "GET" => m \in LapsingIds
      BY <1>3 DEF DequeueGet, Stale, RedisTypeOK
    <2> DEFINE new == [op |-> "prune", m |-> m, at |-> at]
    <2>5. /\ new.op = "prune" /\ new.m = m /\ new.at = at
          /\ at # "none" => new \in CallRecords
      BY <2>3 DEF CallRecords
    <2> HIDE DEF new
    <2>6. rcalls' = IF at = "none" THEN rcalls ELSE rcalls \cup {new}
      BY <2>4 DEF new
    <2>7. /\ \A o : o # "prune" => Open(o)' = Open(o)
          /\ Open("prune")' = IF at = "none" THEN Open("prune")
                              ELSE Open("prune") \cup {m}
      BY <2>5, <2>6 DEF Open
    <2>8. rcalls' \subseteq CallRecords /\ CallsInv'
      BY <2>5, <2>6, <2>7 DEF RedisTypeOK, CallsInv
    <2>9. Settled' = Settled /\ QueuedIds' = QueuedIds
      BY <2>1, <2>7 DEF Settled, QueuedIds
    <2>10. Undisturbed
      BY <2>1, <2>7 DEF Undisturbed
    <2>11. Proper
      BY <2>1, <2>3, <2>4, <2>8, <2>9 DEF Proper, RedisTypeOK, SettledInv, Noted
    <2>12. since'.throughout = since.throughout \cap QueuedIds
           /\ since'.ever = since.ever \cup QueuedIds
      BY <2>1, <2>2, <2>9, AfterNoted DEF RedisTypeOK, QueuedIds
    <2>13. /\ since.throughout \subseteq found \cup ids \cup Open("prune")
           /\ found \subseteq since.ever /\ ids \cap mkeys \subseteq since.ever
      BY <2>1 DEF CallOK
    <2>14. /\ since'.throughout \subseteq found' \cup ids' \cup Open("prune")'
           /\ found' \subseteq since'.ever /\ ids' \cap mkeys' \subseteq since'.ever
      BY <2>1, <2>4, <2>7, <2>12, <2>13
    <2>15. ASSUME NEW d \in rcalls',
                  d \notin rcalls \/ d.at = "GET each"
           PROVE  CallOK(d)'
      <3>2. CASE d \in rcalls
        <4>1. d.at = "GET each" /\ d.op = "dequeue"
          BY <2>15, <3>2, CommandOf
        <4> QED BY <2>14, <4>1 DEF CallOK
      <3>3. CASE d \notin rcalls
        <4>1. d = new /\ at # "none"
          BY <2>6, <3>3
        <4> QED BY <2>1, <2>3, <2>4, <2>5, <2>9, <4>1 DEF CallOK
      <3> QED BY <3>2, <3>3
    <2> QED BY <2>1, <2>10, <2>11, <2>15, CommandKeeps
  <1> QED BY <1>1, <1>2, <1>3

(* An open dequeue that sees the same queue is the same. *)
LEMMA SameReading ==
  ASSUME RedisInv, Noted, QueuedIds' = QueuedIds
  PROVE  since' = since
  <1>1. CASE since.open
    <2>1. since.throughout \cap QueuedIds = since.throughout
          /\ since.ever \cup QueuedIds = since.ever
      BY <1>1 DEF RedisInv, ReadInv
    <2>2. since \in [open : BOOLEAN, throughout : SUBSET StoredIds,
                     ever : SUBSET StoredIds]
      BY DEF RedisInv, RedisTypeOK
    <2>3. since' = [since EXCEPT !.throughout = since.throughout,
                                 !.ever = since.ever]
      BY <1>1, <2>1 DEF Noted
    <2> QED BY <2>2, <2>3
  <1>2. CASE ~since.open
    BY <1>2 DEF Noted
  <1> QED BY <1>1, <1>2

(* The commands of purgeRealm. *)
LEMMA PurgeInv ==
  ASSUME RedisInv, NEW c \in rcalls,
         PurgeZRange(c) \/ PurgeDelIndex(c) \/ \E m \in doomed : PurgeDel(c, m)
  PROVE  RedisInv'
  <1> USE DEF RedisInv
  <1>0. /\ c.op = "purge" /\ c.m = All /\ c \in CallRecords /\ All \in Open("purge")
    BY CommandOf DEF PurgeZRange, PurgeDelIndex, PurgeDel, Sent, RedisTypeOK
  <1>1. \A d \in rcalls : d.op = "purge" => d = c
    BY <1>0, CommandOf DEF CallsInv, RedisTypeOK, CallRecords
  <1>2. ASSUME NEW at \in {"DEL queue", "ZRANGE letters", "DEL letters"}, Then(c, at)
        PROVE  /\ rcalls' \subseteq CallRecords /\ CallsInv' /\ \A o : Open(o)' = Open(o)
               /\ \A d \in rcalls' :
                     d \in rcalls \/ (d.op = "purge" /\ d.m = c.m /\ d.at = at)
    <2>1. [c EXCEPT !.at = at] \in CallRecords
      BY <1>0 DEF CallRecords
    <2> QED BY <1>0, <1>2, <2>1, ThenCalls
  <1>3. CASE PurgeZRange(c)
    <2>1. PICK at \in {"DEL queue", "DEL letters"} :
            /\ Then(c, at)
            /\ at = "DEL queue" => doomed' = zindex
            /\ at = "DEL letters" => doomed' = dindex /\ c.at = "ZRANGE letters"
      BY <1>3 DEF PurgeZRange, Sent
    <2>2. UNCHANGED <<mkeys, volatile, zindex, dkeys, dindex, ids, found, usedIds,
                      before>> /\ Noted
      BY <1>3 DEF PurgeZRange, redis
    <2>3. /\ rcalls' \subseteq CallRecords /\ CallsInv' /\ \A o : Open(o)' = Open(o)
          /\ \A d \in rcalls' :
                d \in rcalls \/ (d.op = "purge" /\ d.m = c.m /\ d.at = at)
      BY <1>2, <2>1
    <2>4. Settled' = Settled /\ QueuedIds' = QueuedIds
      BY <2>2, <2>3 DEF Settled, QueuedIds
    <2>5. Undisturbed
      BY <2>2, <2>3 DEF Undisturbed
    <2>6. Proper
      BY <2>1, <2>2, <2>3, <2>4 DEF Proper, RedisTypeOK, SettledInv, Noted
    <2>7. c \notin rcalls' \/ c.at = at
      BY <2>1, <1>0 DEF Then, CallRecords
    <2>8. ASSUME NEW d \in rcalls',
                 d \notin rcalls \/ d.at = "DEL letters"
          PROVE  CallOK(d)'
      <3>1. d.op = "purge" /\ d.at = at
        BY <1>1, <2>3, <2>7, <2>8, CommandOf
      <3>2. at = "DEL letters" => /\ doomed' \subseteq lettered'
                                  /\ before' \cap QueuedIds' = {}
        BY <2>1, <2>2, <2>4 DEF CallOK, SettledInv, Noted
      <3> QED BY <3>1, <3>2 DEF CallOK
    <2> QED BY <2>2, <2>5, <2>6, <2>8, CommandKeeps
  <1>4. ASSUME NEW m \in doomed, PurgeDel(c, m) PROVE RedisInv'
    <2>1. /\ doomed' = doomed \ {m} /\ Noted
          /\ UNCHANGED <<zindex, dindex, rcalls, ids, found, usedIds, before>>
          /\ \/ /\ c.at = "DEL queue" /\ mkeys' = mkeys \ {m}
                /\ volatile' = volatile \ {m} /\ UNCHANGED dkeys
             \/ /\ c.at = "DEL letters" /\ dkeys' = dkeys \ {m}
                /\ UNCHANGED <<mkeys, volatile>>
      BY <1>4 DEF PurgeDel, Sent
    <2>2. \A o : Open(o)' = Open(o)
      BY <2>1 DEF Open
    <2>3. Settled' = Settled
      BY <2>1, <2>2 DEF Settled
    <2>4. Undisturbed
      BY <2>1, <2>2 DEF Undisturbed, SettledInv, Settled, CallOK
    <2>5. CallsInv'
      BY <2>1, <2>2 DEF CallsInv
    <2>6. Proper
      BY <2>1, <2>3, <2>5 DEF Proper, RedisTypeOK, SettledInv, Noted
    <2>7. ASSUME NEW d \in rcalls', d.at = "DEL letters"
          PROVE  CallOK(d)'
      <3>1. d = c /\ d.at = "DEL letters"
        BY <1>1, <2>1, <2>7, CommandOf
      <3>2. UNCHANGED mkeys /\ c.at = "DEL letters"
        BY <2>1, <3>1
      <3>3. doomed' \subseteq lettered' /\ before' \cap QueuedIds' = {}
        BY <2>1, <3>2 DEF CallOK, Noted, QueuedIds
      <3> QED BY <1>0, <3>1, <3>3 DEF CallOK
    <2> QED BY <2>1, <2>4, <2>6, <2>7, CommandKeeps
  <1>5. CASE PurgeDelIndex(c) /\ c.at = "DEL queue"
    <2>1. /\ Then(c, "ZRANGE letters") /\ zindex' = {} /\ Noted
          /\ UNCHANGED <<dindex, before, mkeys, volatile, dkeys, ids, doomed, found,
                         usedIds>>
      BY <1>5 DEF PurgeDelIndex, Sent
    <2>2. /\ rcalls' \subseteq CallRecords /\ CallsInv' /\ \A o : Open(o)' = Open(o)
          /\ \A d \in rcalls' :
                d \in rcalls \/ (d.op = "purge" /\ d.m = c.m /\ d.at = "ZRANGE letters")
      BY <1>2, <2>1
    <2>3. Settled' = Settled /\ QueuedIds' = {}
      BY <2>1, <2>2 DEF Settled, QueuedIds
    <2>4. Undisturbed
      BY <2>1, <2>2 DEF Undisturbed
    <2>5. Proper
      BY <2>1, <2>2, <2>3 DEF Proper, RedisTypeOK, SettledInv, Noted
    <2>6. \A d \in rcalls' : d \notin rcalls => CallOK(d)'
      BY <2>2, <2>3 DEF CallOK
    <2> QED BY <2>1, <2>4, <2>5, <2>6, CommandKeeps
  <1>6. CASE PurgeDelIndex(c) /\ c.at # "DEL queue"
    <2>1. /\ Over(c) /\ dindex' = {} /\ before' = {} /\ Noted
          /\ UNCHANGED <<zindex, mkeys, volatile, dkeys, ids, doomed, found, usedIds>>
      BY <1>6 DEF PurgeDelIndex, Sent
    <2>2. /\ rcalls' = rcalls \ {c} /\ rcalls' \subseteq CallRecords /\ CallsInv'
          /\ \A o : o # "purge" => Open(o)' = Open(o)
      BY <1>0, <2>1, OverCalls DEF Over
    <2>3. Settled' = Settled /\ QueuedIds' = QueuedIds
      BY <2>1, <2>2 DEF Settled, QueuedIds
    <2>4. since' = since /\ lettered \subseteq lettered'
      BY <2>1, <2>3, SameReading DEF Noted
    <2>5. RedisTypeOK' /\ SettledInv' /\ ReadInv'
      BY <2>1, <2>2, <2>3, <2>4 DEF RedisTypeOK, SettledInv, ReadInv
    <2>6. ASSUME NEW d \in rcalls' PROVE CallOK(d)'
      <3>1. CallOK(d) /\ d \in rcalls /\ d.op # "purge"
        BY <1>1, <2>2
      <3>2. d.at \notin {"DEL letters", "ZRANGE letters"}
        BY <3>1, CommandOf
      <3> QED BY <2>1, <2>2, <2>3, <2>4, <3>1, <3>2 DEF CallOK
    <2> QED BY <2>2, <2>5, <2>6
  <1> QED BY <1>3, <1>4, <1>5, <1>6

(* The answer of dequeue. *)
LEMMA DequeueReturnInv ==
  ASSUME RedisInv, NEW c \in rcalls, DequeueReturn(c)
  PROVE  RedisInv'
  <1> USE DEF RedisInv
  <1>1. /\ c.at = "GET each" /\ ids = {} /\ Over(c) /\ found' = {}
        /\ since' = [open |-> FALSE, throughout |-> {}, ever |-> {}]
        /\ UNCHANGED <<mkeys, volatile, zindex, dkeys, dindex, ids, doomed, usedIds,
                       before, lettered>>
    BY DEF DequeueReturn, Sent, redis, Promised!Idle
  <1>2. c.op = "dequeue" /\ c.m = All
    BY <1>1, CommandOf
  <1>3. /\ rcalls' = rcalls \ {c} /\ rcalls' \subseteq CallRecords /\ CallsInv'
        /\ \A o : o # "dequeue" => Open(o)' = Open(o)
        /\ Open("dequeue")' = Open("dequeue") \ {All}
    BY <1>1, <1>2, OverCalls DEF Over
  <1>4. \A d \in rcalls : d.op = "dequeue" => d = c
    BY <1>2, CommandOf DEF CallsInv, RedisTypeOK, CallRecords
  <1>5. Open("dequeue")' = {}
    BY <1>3, <1>4 DEF Open
  <1>6. Settled' = Settled /\ QueuedIds' = QueuedIds
    BY <1>1, <1>3 DEF Settled, QueuedIds
  <1>7. RedisTypeOK' /\ SettledInv' /\ ReadInv'
    BY <1>1, <1>3, <1>5, <1>6 DEF RedisTypeOK, SettledInv, ReadInv
  <1>8. ASSUME NEW d \in rcalls' PROVE CallOK(d)'
    <2>1. CallOK(d) /\ d.at # "GET each"
      BY <1>3, <1>4, CommandOf
    <2> QED BY <1>1, <1>3, <1>6, <2>1 DEF CallOK
  <1> QED BY <1>3, <1>7, <1>8

(* A call of the broker about messages that are settled, or one at a time  *)
(* about the whole queue.                                                  *)
LEMMA CallInv ==
  ASSUME RedisInv,
         NEW op \in {"ack", "deadLetter", "discardDlq", "dequeue", "purge"},
         NEW m, NEW at \in {"GET", "GET message", "GET dead", "ZRANGE", "ZRANGE queue"},
         Call(op, m, at), [op |-> op, m |-> m, at |-> at] \in CallRecords,
         op \in {"ack", "deadLetter"} => m \in Settled,
         op = "discardDlq" => m \in lettered,
         at = "GET" => op = "ack",
         IF op = "dequeue"
         THEN since' = [open |-> TRUE, throughout |-> QueuedIds, ever |-> QueuedIds]
         ELSE since' = since,
         before' = IF op = "purge" THEN QueuedIds ELSE before,
         UNCHANGED <<ids, doomed, found, usedIds>>
  PROVE  RedisInv'
  <1> USE DEF RedisInv
  <1> DEFINE new == [op |-> op, m |-> m, at |-> at]
  <1>1. /\ rcalls' = rcalls \cup {new}
        /\ UNCHANGED <<mkeys, volatile, zindex, dkeys, dindex, lettered>>
    BY DEF Call, redis
  <1>2. new.op = op /\ new.m = m /\ new.at = at /\ new \in CallRecords
    OBVIOUS
  <1> HIDE DEF new
  <1>3. /\ Open(op)' = Open(op) \cup {m} /\ m \notin Open(op)
        /\ \A o : o # op => Open(o)' = Open(o)
    BY OpenAfterCall
  <1>4. Settled' = Settled /\ QueuedIds' = QueuedIds
    BY <1>1, <1>3 DEF Settled, QueuedIds
  <1>5. CallsInv'
    <2>1. \A d \in rcalls : ~(d.op = op /\ d.m = m)
      BY <1>3 DEF Open
    <2> QED BY <1>1, <1>2, <2>1 DEF CallsInv
  <1>6. RedisTypeOK'
    <2>1. QueuedIds \subseteq StoredIds
      BY DEF QueuedIds, RedisTypeOK
    <2>2. since' \in [open : BOOLEAN, throughout : SUBSET StoredIds,
                      ever : SUBSET StoredIds]
      <3>1. CASE op = "dequeue"
        <4>1. since' = [open |-> TRUE, throughout |-> QueuedIds, ever |-> QueuedIds]
          BY <3>1
        <4> QED BY <2>1, <4>1
      <3>2. CASE op # "dequeue"
        BY <3>2 DEF RedisTypeOK
      <3> QED BY <3>1, <3>2
    <2> QED BY <1>1, <1>2, <2>2 DEF RedisTypeOK
  <1>7. SettledInv'
    BY <1>1, <1>3, <1>4 DEF SettledInv, QueuedIds
  <1>8. ReadInv'
    <2>1. CASE op = "dequeue"
      <3>1. since' = [open |-> TRUE, throughout |-> QueuedIds, ever |-> QueuedIds]
        BY <2>1
      <3>2. /\ since'.open
            /\ since'.throughout = QueuedIds /\ since'.ever = QueuedIds
        BY <3>1
      <3>3. Open("dequeue")' # {}
        BY <1>3, <2>1
      <3> QED BY <1>4, <3>2, <3>3 DEF ReadInv
    <2>2. CASE op # "dequeue"
      <3>1. Open("dequeue")' = Open("dequeue") /\ since' = since
        BY <1>3, <2>2
      <3> QED BY <1>4, <3>1 DEF ReadInv
    <2> QED BY <2>1, <2>2
  <1>9. CallOK(new)'
    BY <1>1, <1>2, <1>4 DEF CallOK
  <1>10. ASSUME NEW d \in rcalls PROVE CallOK(d)'
    <2>0. op \in {"dequeue", "purge"} => m = All
      BY DEF CallRecords
    <2>1. d.at = "GET each" => since' = since
      BY <1>3, <2>0, CommandOf
    <2>2. d.at \in {"ZRANGE letters", "DEL letters"} => before' = before
      BY <1>3, <2>0, CommandOf
    <2>3. Open("prune")' = Open("prune")
      BY <1>3
    <2> QED BY <1>1, <1>4, <2>1, <2>2, <2>3 DEF CallOK
  <1> QED BY <1>1, <1>5, <1>6, <1>7, <1>8, <1>9, <1>10

(* The calls of ack, deadLetter, discardDlq, dequeue and purgeRealm. *)
LEMMA OtherCallInv ==
  ASSUME RedisInv,
         \/ \E m \in StoredIds : AckCall(m) \/ DeadLetterCall(m) \/ DiscardCall(m)
         \/ DequeueCall \/ PurgeCall
  PROVE  RedisInv'
  <1>2. ASSUME NEW m \in StoredIds, AckCall(m) PROVE RedisInv'
    <2>1. [op |-> "ack", m |-> m, at |-> "GET"] \in CallRecords
      BY DEF CallRecords
    <2>2. /\ Call("ack", m, "GET") /\ m \in Settled
          /\ UNCHANGED <<ids, doomed, found, usedIds, since, before>>
      BY <1>2 DEF AckCall, Settled
    <2> QED BY <2>1, <2>2, CallInv
  <1>3. ASSUME NEW m \in StoredIds, DeadLetterCall(m) PROVE RedisInv'
    <2>1. [op |-> "deadLetter", m |-> m, at |-> "GET message"] \in CallRecords
      BY DEF CallRecords
    <2>2. /\ Call("deadLetter", m, "GET message") /\ m \in Settled
          /\ UNCHANGED <<ids, doomed, found, usedIds, since, before>>
      BY <1>3 DEF DeadLetterCall, Settled
    <2> QED BY <2>1, <2>2, CallInv
  <1>4. ASSUME NEW m \in StoredIds, DiscardCall(m) PROVE RedisInv'
    <2>1. [op |-> "discardDlq", m |-> m, at |-> "GET dead"] \in CallRecords
      BY DEF CallRecords
    <2>2. /\ Call("discardDlq", m, "GET dead") /\ m \in lettered
          /\ UNCHANGED <<ids, doomed, found, usedIds, since, before>>
      BY <1>4 DEF DiscardCall, BuriedIds, RedisInv, SettledInv
    <2> QED BY <2>1, <2>2, CallInv
  <1>5. ASSUME DequeueCall PROVE RedisInv'
    <2>1. [op |-> "dequeue", m |-> All, at |-> "ZRANGE"] \in CallRecords
      BY DEF CallRecords
    <2>2. /\ Call("dequeue", All, "ZRANGE")
          /\ since' = [open |-> TRUE, throughout |-> QueuedIds, ever |-> QueuedIds]
          /\ UNCHANGED <<ids, doomed, found, usedIds, before>>
      BY <1>5 DEF DequeueCall
    <2> QED BY <2>1, <2>2, CallInv
  <1>6. ASSUME PurgeCall PROVE RedisInv'
    <2>1. [op |-> "purge", m |-> All, at |-> "ZRANGE queue"] \in CallRecords
      BY DEF CallRecords
    <2>2. /\ Call("purge", All, "ZRANGE queue")
          /\ before' = QueuedIds
          /\ UNCHANGED <<ids, doomed, found, usedIds, since>>
      BY <1>6 DEF PurgeCall
    <2> QED BY <2>1, <2>2, CallInv
  <1> QED BY <1>2, <1>3, <1>4, <1>5, <1>6

(* Every step of the Redis store keeps the invariant. *)
LEMMA RedisInvStep == ASSUME RedisInv, [RedisNext]_redisVars PROVE RedisInv'
  <1>1. ASSUME StoreBrokerCrash PROVE RedisInv'
    <2>1. /\ rcalls' = {} /\ ids' = {} /\ doomed' = {} /\ found' = {} /\ before' = {}
          /\ since' = [open |-> FALSE, throughout |-> {}, ever |-> {}]
          /\ UNCHANGED <<mkeys, volatile, zindex, dkeys, dindex, usedIds, lettered>>
      BY <1>1 DEF StoreBrokerCrash, redis, Promised!Idle
    <2>2. (\A o : Open(o)' = {}) /\ Settled \subseteq Settled'
      BY <2>1 DEF Open, Settled
    <2> QED
      BY <2>1, <2>2 DEF RedisInv, RedisTypeOK, CallsInv, SettledInv, ReadInv
  <1>2. ASSUME UNCHANGED redisVars PROVE RedisInv'
    <2>1. /\ UNCHANGED <<mkeys, volatile, zindex, dkeys, dindex, rcalls, ids, doomed,
                         found, usedIds, since, before, lettered>>
      BY <1>2 DEF redisVars
    <2>2. (\A o : Open(o)' = Open(o)) /\ Settled' = Settled /\ QueuedIds' = QueuedIds
      BY <2>1 DEF Open, Settled, QueuedIds
    <2>3. RedisTypeOK' /\ CallsInv' /\ SettledInv' /\ ReadInv'
      BY <2>1, <2>2 DEF RedisInv, RedisTypeOK, CallsInv, SettledInv, ReadInv
    <2>4. \A c \in rcalls' : CallOK(c)'
      BY <2>1, <2>2 DEF RedisInv, CallOK
    <2> QED BY <2>3, <2>4 DEF RedisInv
  <1> QED
    BY <1>1, <1>2, EnqueueCallInv, EnqueueInv, KeyExpiresInv, AckInv,
       DeadLetterInv, DiscardInv, DequeueInv, PurgeInv, DequeueReturnInv,
       OtherCallInv DEF RedisNext

(* The invariant holds in every reachable state of the Redis store. *)
THEOREM RedisInvariance == RedisSpec => []RedisInv
  <1>1. RedisInit => RedisInv
    BY RedisInvInit
  <1>2. RedisInv /\ [RedisNext]_redisVars => RedisInv'
    BY RedisInvStep
  <1> QED BY <1>1, <1>2, PTL DEF RedisSpec

-----------------------------------------------------------------------------
(* The refinement.  A command changes the abstract queue in one of a few   *)
(* ways; first the ones that change nothing the abstract store sees.       *)

(* The calls the abstract store knows of are as open as they were. *)
SameCalls ==
  /\ Open("enqueue")' = Open("enqueue") /\ Open("ack")' = Open("ack")
  /\ Open("deadLetter")' = Open("deadLetter")
  /\ Open("discardDlq")' = Open("discardDlq")
  /\ (Open("purge")' # {}) = (Open("purge") # {})

(* Dead letters that are the same are remembered already. *)
LEMMA SameLetters ==
  ASSUME RedisInv, Noted, BuriedIds' \subseteq BuriedIds
  PROVE  lettered' = lettered
  BY DEF RedisInv, SettledInv, Noted, BuriedIds

(* A command that the abstract store does not see. *)
LEMMA Unseen ==
  ASSUME RedisInv, Noted, QueuedIds' = QueuedIds, BuriedIds' = BuriedIds,
         SameCalls, UNCHANGED <<usedIds, before, answered>>
  PROVE  UNCHANGED Promised!store
  <1>1. since' = since /\ lettered' = lettered
    BY SameReading, SameLetters
  <1> QED BY <1>1 DEF Promised!store, SameCalls

(* A command after which the queue is q. *)
LEMMA QueueBecomes ==
  ASSUME Noted, NEW q, QueuedIds' = q
  PROVE  Promised!Becomes(q)
  BY DEF Noted, Promised!Becomes

(* A message that leaves the queue for a reason, or was not in it. *)
LEMMA LeavesQueue ==
  ASSUME RedisInv, Noted, NEW m \in StoredIds, QueuedIds' = QueuedIds \ {m},
         BuriedIds' = BuriedIds, SameCalls, UNCHANGED <<usedIds, before, answered>>,
         \/ m \in Open("ack") \/ m \in LapsingIds \/ Open("purge") # {}
         \/ m \in Open("deadLetter") /\ m \in lettered
  PROVE  Promised!Leave(m) \/ UNCHANGED Promised!store
  <1>1. CASE m \in QueuedIds
    <2>1. Promised!Becomes(QueuedIds \ {m})
      BY QueueBecomes
    <2>2. lettered' = lettered
      BY SameLetters
    <2> QED BY <1>1, <2>1, <2>2 DEF Promised!Leave, SameCalls
  <1>2. CASE m \notin QueuedIds
    BY <1>2, Unseen
  <1> QED BY <1>1, <1>2

(* What the abstract store may do about one message, or at all. *)
StoreStep ==
  \/ UNCHANGED Promised!store
  \/ \E m \in StoredIds :
       \/ Promised!Enqueue(m) \/ Promised!Enqueued(m) \/ Promised!Leave(m)
       \/ Promised!Ack(m) \/ Promised!Acked(m)
       \/ Promised!DeadLetter(m) \/ Promised!Bury(m) \/ Promised!DeadLettered(m)
       \/ Promised!DiscardDlq(m) \/ Promised!Discard(m) \/ Promised!Discarded(m)
  \/ Promised!Purge \/ Promised!PurgeQueue
  \/ \E d \in SUBSET StoredIds : Promised!PurgeBuried(d) \/ Promised!Purged(d)
  \/ Promised!Dequeue \/ \E f \in SUBSET StoredIds : Promised!Dequeued(f)
  \/ Promised!StoreCrash

(* The calls of the broker are the abstract calls. *)
LEMMA CallsRefine ==
  ASSUME RedisInv,
         \/ \E m \in StoredIds : \/ EnqueueCall(m) \/ AckCall(m)
                                 \/ DeadLetterCall(m) \/ DiscardCall(m)
         \/ DequeueCall \/ PurgeCall
  PROVE  StoreStep
  <1>1. ASSUME NEW m \in StoredIds, EnqueueCall(m) PROVE Promised!Enqueue(m)
    <2>1. /\ Open("enqueue")' = Open("enqueue") \cup {m}
          /\ \A o : o # "enqueue" => Open(o)' = Open(o)
      BY <1>1, OpenAfterCall DEF EnqueueCall
    <2>2. /\ m \notin usedIds /\ usedIds' = usedIds \cup {m}
          /\ UNCHANGED <<mkeys, volatile, zindex, dkeys, dindex, since, before,
                         answered, lettered>>
      BY <1>1 DEF EnqueueCall, Call, redis
    <2> QED BY <2>1, <2>2 DEF Promised!Enqueue, QueuedIds, BuriedIds
  <1>2. ASSUME NEW m \in StoredIds, AckCall(m) PROVE Promised!Ack(m)
    <2>1. /\ Open("ack")' = Open("ack") \cup {m} /\ m \notin Open("ack")
          /\ \A o : o # "ack" => Open(o)' = Open(o)
      BY <1>2, OpenAfterCall DEF AckCall
    <2>2. /\ m \in usedIds \ Open("enqueue")
          /\ UNCHANGED <<mkeys, volatile, zindex, dkeys, dindex, since, before,
                         answered, lettered, usedIds>>
      BY <1>2 DEF AckCall, Call, redis
    <2> QED BY <2>1, <2>2 DEF Promised!Ack, QueuedIds, BuriedIds
  <1>3. ASSUME NEW m \in StoredIds, DeadLetterCall(m) PROVE Promised!DeadLetter(m)
    <2>1. /\ Open("deadLetter")' = Open("deadLetter") \cup {m}
          /\ m \notin Open("deadLetter")
          /\ \A o : o # "deadLetter" => Open(o)' = Open(o)
      BY <1>3, OpenAfterCall DEF DeadLetterCall
    <2>2. /\ m \in usedIds \ Open("enqueue")
          /\ UNCHANGED <<mkeys, volatile, zindex, dkeys, dindex, since, before,
                         answered, lettered, usedIds>>
      BY <1>3 DEF DeadLetterCall, Call, redis
    <2> QED BY <2>1, <2>2 DEF Promised!DeadLetter, QueuedIds, BuriedIds
  <1>4. ASSUME NEW m \in StoredIds, DiscardCall(m) PROVE Promised!DiscardDlq(m)
    <2>1. /\ Open("discardDlq")' = Open("discardDlq") \cup {m}
          /\ m \notin Open("discardDlq")
          /\ \A o : o # "discardDlq" => Open(o)' = Open(o)
      BY <1>4, OpenAfterCall DEF DiscardCall
    <2>2. /\ m \in BuriedIds
          /\ UNCHANGED <<mkeys, volatile, zindex, dkeys, dindex, since, before,
                         answered, lettered, usedIds>>
      BY <1>4 DEF DiscardCall, Call, redis
    <2> QED BY <2>1, <2>2 DEF Promised!DiscardDlq, QueuedIds, BuriedIds
  <1>5. ASSUME DequeueCall PROVE Promised!Dequeue
    <2>1. \A o : o # "dequeue" => Open(o)' = Open(o)
      BY <1>5, OpenAfterCall DEF DequeueCall
    <2>2. /\ since' = [open |-> TRUE, throughout |-> QueuedIds, ever |-> QueuedIds]
          /\ UNCHANGED <<mkeys, volatile, zindex, dkeys, dindex, before,
                         answered, lettered, usedIds>>
      BY <1>5 DEF DequeueCall, Call, redis
    <2>3. ~since.open
      BY <1>5 DEF DequeueCall, RedisInv, ReadInv
    <2> QED BY <2>1, <2>2, <2>3 DEF Promised!Dequeue, QueuedIds, BuriedIds
  <1>6. ASSUME PurgeCall PROVE Promised!Purge
    <2>1. /\ Open("purge")' # {} /\ Open("purge") = {}
          /\ \A o : o # "purge" => Open(o)' = Open(o)
      BY <1>6, OpenAfterCall DEF PurgeCall
    <2>2. /\ before' = QueuedIds
          /\ UNCHANGED <<mkeys, volatile, zindex, dkeys, dindex, since,
                         answered, lettered, usedIds>>
      BY <1>6 DEF PurgeCall, Call, redis
    <2> QED BY <2>1, <2>2 DEF Promised!Purge, QueuedIds, BuriedIds
  <1> QED BY <1>1, <1>2, <1>3, <1>4, <1>5, <1>6 DEF StoreStep

(* enqueue: SET and PEXPIREAT are not seen, ZADD puts the message into the *)
(* queue unless its key is gone, and then its time was up.                 *)
LEMMA EnqueueRefines ==
  ASSUME RedisInv, NEW c \in rcalls,
         EnqueueSet(c) \/ EnqueueExpireAt(c) \/ EnqueueZAdd(c)
  PROVE  StoreStep
  <1> USE DEF RedisInv
  <1>0. c.op = "enqueue" /\ c.m \in StoredIds /\ c.m \in Open("enqueue")
    BY CommandOf DEF EnqueueSet, EnqueueExpireAt, EnqueueZAdd, Sent
  <1>1. CASE EnqueueSet(c)
    <2>1. /\ \A o : Open(o)' = Open(o)
          /\ mkeys' = mkeys \cup {c.m} /\ Noted
          /\ UNCHANGED <<zindex, dkeys, dindex, usedIds, before, answered>>
      BY <1>1, OpenAfterThen DEF EnqueueSet, Others
    <2>2. c.m \notin zindex
      BY <1>0 DEF SettledInv, Settled
    <2>3. QueuedIds' = QueuedIds /\ BuriedIds' = BuriedIds
      BY <2>1, <2>2 DEF QueuedIds, BuriedIds
    <2> QED BY <2>1, <2>3, Unseen DEF SameCalls, StoreStep
  <1>2. CASE EnqueueExpireAt(c)
    <2>1. /\ \A o : Open(o)' = Open(o)
          /\ UNCHANGED <<mkeys, zindex, dkeys, dindex, usedIds, before, answered>>
          /\ Noted
      BY <1>2, OpenAfterThen DEF EnqueueExpireAt, Others
    <2>2. QueuedIds' = QueuedIds /\ BuriedIds' = BuriedIds
      BY <2>1 DEF QueuedIds, BuriedIds
    <2> QED BY <2>1, <2>2, Unseen DEF SameCalls, StoreStep
  <1>3. CASE EnqueueZAdd(c)
    <2>1. /\ Open("enqueue")' = Open("enqueue") \ {c.m}
          /\ \A o : o # "enqueue" => Open(o)' = Open(o)
          /\ zindex' = zindex \cup {c.m} /\ Noted /\ c.at = "ZADD"
          /\ UNCHANGED <<mkeys, dkeys, dindex, usedIds, before, answered>>
      BY <1>0, <1>3, OpenAfterOver DEF EnqueueZAdd, Others, Sent
    <2>2. c.m \in mkeys \/ c.m \in LapsingIds
      BY <2>1 DEF CallOK
    <2>3. BuriedIds' = BuriedIds
      BY <2>1 DEF BuriedIds
    <2>4. lettered' = lettered
      BY <2>1, <2>3, SameLetters
    <2>5. \/ Promised!Becomes(QueuedIds \cup {c.m})
          \/ c.m \in LapsingIds /\ Promised!Becomes(QueuedIds)
      <3>1. CASE c.m \in mkeys
        <4>1. QueuedIds' = QueuedIds \cup {c.m}
          BY <2>1, <3>1 DEF QueuedIds
        <4> QED BY <2>1, <4>1, QueueBecomes
      <3>2. CASE c.m \notin mkeys
        <4>1. QueuedIds' = QueuedIds
          BY <2>1, <3>2 DEF QueuedIds
        <4> QED BY <2>1, <2>2, <3>2, <4>1, QueueBecomes
      <3> QED BY <3>1, <3>2
    <2>6. Promised!Enqueued(c.m)
      BY <1>0, <2>1, <2>3, <2>4, <2>5 DEF Promised!Enqueued
    <2> QED BY <1>0, <2>6 DEF StoreStep
  <1> QED BY <1>1, <1>2, <1>3

(* The expiry of a key takes its message out of the queue. *)
LEMMA KeyExpiresRefines ==
  ASSUME RedisInv, NEW m \in StoredIds, KeyExpires(m)
  PROVE  StoreStep
  <1>1. /\ m \in LapsingIds /\ mkeys' = mkeys \ {m} /\ Noted
        /\ UNCHANGED <<zindex, dkeys, dindex, rcalls, usedIds, before, answered>>
    BY DEF KeyExpires, Others, RedisInv, RedisTypeOK
  <1>2. SameCalls /\ QueuedIds' = QueuedIds \ {m} /\ BuriedIds' = BuriedIds
    BY <1>1 DEF SameCalls, Open, QueuedIds, BuriedIds
  <1> QED BY <1>1, <1>2, LeavesQueue DEF StoreStep

(* ack: ZREM takes the message out of the queue, and when DEL ends the     *)
(* call it is out.                                                         *)
LEMMA AckRefines ==
  ASSUME RedisInv, NEW c \in rcalls, AckGet(c) \/ AckZRem(c) \/ AckDel(c)
  PROVE  StoreStep
  <1> USE DEF RedisInv
  <1>0. /\ c.op \in {"ack", "deadLetter", "prune"} /\ c.m \in StoredIds
        /\ c.m \in Open(c.op) /\ c.at \in {"GET", "ZREM", "DEL"}
    BY CommandOf DEF AckGet, AckZRem, AckDel, Sent
  <1>1. CASE AckGet(c)
    <2>1. /\ \A o : Open(o)' = Open(o)
          /\ UNCHANGED <<mkeys, zindex, dkeys, dindex, usedIds, before, answered>>
          /\ Noted
      BY <1>1, OpenAfterThen DEF AckGet, Others, redis
    <2>2. QueuedIds' = QueuedIds /\ BuriedIds' = BuriedIds
      BY <2>1 DEF QueuedIds, BuriedIds
    <2> QED BY <2>1, <2>2, Unseen DEF SameCalls, StoreStep
  <1>2. CASE AckZRem(c)
    <2>1. /\ \A o : Open(o)' = Open(o)
          /\ zindex' = zindex \ {c.m} /\ Noted /\ c.at = "ZREM"
          /\ UNCHANGED <<mkeys, dkeys, dindex, usedIds, before, answered>>
      BY <1>2, OpenAfterThen DEF AckZRem, Others, Sent
    <2>2. QueuedIds' = QueuedIds \ {c.m} /\ BuriedIds' = BuriedIds /\ SameCalls
      BY <2>1 DEF QueuedIds, BuriedIds, SameCalls
    <2>3. \/ c.m \in Open("ack") \/ c.m \in LapsingIds
          \/ c.m \in Open("deadLetter") /\ c.m \in lettered
      BY <1>0, <2>1 DEF CallOK
    <2> QED BY <1>0, <2>1, <2>2, <2>3, LeavesQueue DEF StoreStep
  <1>3. CASE AckDel(c)
    <2>1. /\ Over(c) /\ mkeys' = mkeys \ {c.m} /\ Noted /\ c.at = "DEL"
          /\ UNCHANGED <<zindex, dkeys, dindex, usedIds, before, answered>>
      BY <1>3 DEF AckDel, Others, Sent
    <2>2. /\ \A o : o # c.op => Open(o)' = Open(o)
          /\ c.op # "prune" => Open(c.op)' = Open(c.op) \ {c.m}
      BY <2>1, OpenAfterOver
    <2>3. c.m \notin QueuedIds
      BY <2>1 DEF CallOK
    <2>4. QueuedIds' = QueuedIds /\ BuriedIds' = BuriedIds
      BY <2>1, <2>3 DEF QueuedIds, BuriedIds
    <2>5. since' = since /\ lettered' = lettered
      BY <2>1, <2>4, SameReading, SameLetters
    <2>6. CASE c.op = "ack"
      <3>1. Promised!Acked(c.m)
        BY <1>0, <2>1, <2>2, <2>3, <2>4, <2>5, <2>6 DEF Promised!Acked
      <3> QED BY <1>0, <3>1 DEF StoreStep
    <2>7. CASE c.op = "deadLetter"
      <3>1. Promised!DeadLettered(c.m)
        BY <1>0, <2>1, <2>2, <2>3, <2>4, <2>5, <2>7 DEF Promised!DeadLettered
      <3> QED BY <1>0, <3>1 DEF StoreStep
    <2>8. CASE c.op = "prune"
      BY <2>1, <2>2, <2>4, <2>8, Unseen DEF SameCalls, StoreStep
    <2> QED BY <1>0, <2>6, <2>7, <2>8
  <1> QED BY <1>1, <1>2, <1>3

(* deadLetter: nothing to bury ends the call, and the command that makes   *)
(* both parts of the letter there buries it.                               *)
LEMMA DeadLetterRefines ==
  ASSUME RedisInv, NEW c \in rcalls,
         DeadLetterGet(c) \/ DeadLetterSet(c) \/ DeadLetterZAdd(c)
  PROVE  StoreStep
  <1> USE DEF RedisInv
  <1>0. c.op = "deadLetter" /\ c.m \in StoredIds /\ c.m \in Open("deadLetter")
    BY CommandOf DEF DeadLetterGet, DeadLetterSet, DeadLetterZAdd, Sent
  <1>1. CASE DeadLetterGet(c)
    <2>1. /\ UNCHANGED <<mkeys, zindex, dkeys, dindex, usedIds, before, answered>>
          /\ IF c.m \in mkeys THEN Then(c, "SET dead") ELSE Over(c)
          /\ Noted
      BY <1>1 DEF DeadLetterGet, Others, redis
    <2>2. QueuedIds' = QueuedIds /\ BuriedIds' = BuriedIds
      BY <2>1 DEF QueuedIds, BuriedIds
    <2>3. CASE c.m \in mkeys
      <3>1. \A o : Open(o)' = Open(o)
        BY <2>1, <2>3, OpenAfterThen
      <3> QED BY <2>1, <2>2, <3>1, Unseen DEF SameCalls, StoreStep
    <2>4. CASE c.m \notin mkeys
      <3>1. /\ Open("deadLetter")' = Open("deadLetter") \ {c.m}
            /\ \A o : o # "deadLetter" => Open(o)' = Open(o)
        BY <1>0, <2>1, <2>4, OpenAfterOver
      <3>2. since' = since /\ lettered' = lettered /\ c.m \notin QueuedIds
        BY <2>1, <2>2, <2>4, SameReading, SameLetters DEF QueuedIds
      <3>3. Promised!DeadLettered(c.m)
        BY <1>0, <2>1, <2>2, <3>1, <3>2 DEF Promised!DeadLettered
      <3> QED BY <1>0, <3>3 DEF StoreStep
    <2> QED BY <2>3, <2>4
  <1>2. CASE DeadLetterSet(c) \/ DeadLetterZAdd(c)
    <2>1. /\ \A o : Open(o)' = Open(o)
          /\ UNCHANGED <<mkeys, zindex, usedIds, before, answered>> /\ Noted
          /\ BuriedIds' = BuriedIds \/ BuriedIds' = BuriedIds \cup {c.m}
      BY <1>2, OpenAfterThen DEF DeadLetterSet, DeadLetterZAdd, Others, BuriedIds
    <2>2. QueuedIds' = QueuedIds
      BY <2>1 DEF QueuedIds
    <2>3. CASE BuriedIds' = BuriedIds
      BY <2>1, <2>2, <2>3, Unseen DEF SameCalls, StoreStep
    <2>4. CASE BuriedIds' = BuriedIds \cup {c.m}
      <3>1. lettered' = lettered \cup {c.m}
        BY <2>1, <2>4 DEF Noted, SettledInv, BuriedIds
      <3>2. since' = since
        BY <2>1, <2>2, SameReading
      <3>3. Promised!Bury(c.m)
        BY <1>0, <2>1, <2>2, <2>4, <3>1, <3>2 DEF Promised!Bury
      <3> QED BY <1>0, <3>3 DEF StoreStep
    <2> QED BY <2>1, <2>3, <2>4
  <1> QED BY <1>1, <1>2

(* discardDlq: DEL discards the letter, ZREM ends the call. *)
LEMMA DiscardRefines ==
  ASSUME RedisInv, NEW c \in rcalls, DiscardGet(c) \/ DiscardDel(c) \/ DiscardZRem(c)
  PROVE  StoreStep
  <1> USE DEF RedisInv
  <1>0. c.op = "discardDlq" /\ c.m \in StoredIds /\ c.m \in Open("discardDlq")
    BY CommandOf DEF DiscardGet, DiscardDel, DiscardZRem, Sent
  <1>3. CASE DiscardGet(c)
    <2>1. /\ \A o : Open(o)' = Open(o)
          /\ UNCHANGED <<mkeys, zindex, dkeys, dindex, usedIds, before, answered>>
          /\ Noted
      BY <1>3, OpenAfterThen DEF DiscardGet, Others, redis
    <2>2. QueuedIds' = QueuedIds /\ BuriedIds' = BuriedIds
      BY <2>1 DEF QueuedIds, BuriedIds
    <2> QED BY <2>1, <2>2, Unseen DEF SameCalls, StoreStep
  <1>1. CASE DiscardDel(c)
    <2>1. /\ \A o : Open(o)' = Open(o)
          /\ UNCHANGED <<mkeys, zindex, usedIds, before, answered>> /\ Noted
          /\ dkeys' = dkeys \ {c.m} /\ UNCHANGED dindex
      BY <1>1, OpenAfterThen DEF DiscardDel, Others
    <2>2. QueuedIds' = QueuedIds /\ BuriedIds' = BuriedIds \ {c.m}
      BY <2>1 DEF QueuedIds, BuriedIds
    <2>3. since' = since /\ lettered' = lettered
      BY <2>1, <2>2, SameReading, SameLetters
    <2>4. Promised!Discard(c.m)
      BY <1>0, <2>1, <2>2, <2>3 DEF Promised!Discard
    <2> QED BY <1>0, <2>4 DEF StoreStep
  <1>2. CASE DiscardZRem(c)
    <2>1. /\ Over(c) /\ dindex' = dindex \ {c.m} /\ UNCHANGED dkeys /\ Noted
          /\ UNCHANGED <<mkeys, zindex, usedIds, before, answered>>
      BY <1>2 DEF DiscardZRem, Others
    <2>2. /\ Open("discardDlq")' = Open("discardDlq") \ {c.m}
          /\ \A o : o # "discardDlq" => Open(o)' = Open(o)
      BY <1>0, <2>1, OpenAfterOver
    <2>3. QueuedIds' = QueuedIds /\ BuriedIds' = BuriedIds \ {c.m}
      BY <2>1 DEF QueuedIds, BuriedIds
    <2>4. since' = since /\ lettered' = lettered
      BY <2>1, <2>3, SameReading, SameLetters
    <2>5. Promised!Discarded(c.m)
      BY <1>0, <2>1, <2>2, <2>3, <2>4 DEF Promised!Discarded
    <2> QED BY <1>0, <2>5 DEF StoreStep
  <1> QED BY <1>1, <1>2, <1>3

(* dequeue: its commands and prunes are not seen, and it answers with all  *)
(* that was queued throughout and nothing that never was.                  *)
LEMMA DequeueRefines ==
  ASSUME RedisInv, NEW c \in rcalls,
         \/ DequeueZRange(c) \/ DequeuePrune(c) \/ DequeueReturn(c)
         \/ \E m \in ids : DequeueGet(c, m)
  PROVE  StoreStep
  <1> USE DEF RedisInv
  <1>1. CASE DequeueZRange(c)
    <2>1. /\ \A o : Open(o)' = Open(o)
          /\ UNCHANGED <<mkeys, zindex, dkeys, dindex, usedIds, before, answered>>
          /\ Noted
      BY <1>1, OpenAfterThen DEF DequeueZRange, redis
    <2>2. QueuedIds' = QueuedIds /\ BuriedIds' = BuriedIds
      BY <2>1 DEF QueuedIds, BuriedIds
    <2> QED BY <2>1, <2>2, Unseen DEF SameCalls, StoreStep
  <1>2. CASE DequeuePrune(c)
    <2>1. /\ Over(c) /\ zindex' = zindex \ {c.m} /\ Noted /\ c.at = "PRUNE"
          /\ UNCHANGED <<mkeys, dkeys, dindex, usedIds, before, answered>>
      BY <1>2 DEF DequeuePrune, Others, Sent
    <2>2. c.op = "prune" /\ c.m \notin mkeys
      BY <2>1, CommandOf DEF CallOK
    <2>3. \A o : o # "prune" => Open(o)' = Open(o)
      BY <2>1, <2>2, OpenAfterOver
    <2>4. QueuedIds' = QueuedIds /\ BuriedIds' = BuriedIds
      BY <2>1, <2>2 DEF QueuedIds, BuriedIds
    <2> QED BY <2>1, <2>3, <2>4, Unseen DEF SameCalls, StoreStep
  <1>3. ASSUME NEW m \in ids, DequeueGet(c, m) PROVE StoreStep
    <2>1. /\ \/ UNCHANGED rcalls
             \/ \E at : rcalls' = rcalls \cup {[op |-> "prune", m |-> m, at |-> at]}
          /\ UNCHANGED <<mkeys, zindex, dkeys, dindex, usedIds, before, answered>>
          /\ Noted
      BY <1>3 DEF DequeueGet, redis
    <2>2. \A o : o # "prune" => Open(o)' = Open(o)
      BY <2>1 DEF Open
    <2>3. QueuedIds' = QueuedIds /\ BuriedIds' = BuriedIds
      BY <2>1 DEF QueuedIds, BuriedIds
    <2> QED BY <2>1, <2>2, <2>3, Unseen DEF SameCalls, StoreStep
  <1>4. CASE DequeueReturn(c)
    <2>1. /\ c.at = "GET each" /\ ids = {} /\ Open("prune") = {} /\ Over(c)
          /\ answered' = found /\ since' = Promised!Idle
          /\ UNCHANGED <<mkeys, zindex, dkeys, dindex, usedIds, before, lettered>>
      BY <1>4 DEF DequeueReturn, Sent, redis
    <2>2. c.op = "dequeue" /\ c.m \in Open("dequeue")
      BY <2>1, CommandOf
    <2>3. \A o : o # "dequeue" => Open(o)' = Open(o)
      BY <2>1, <2>2, OpenAfterOver
    <2>4. /\ since.open
          /\ since.throughout \subseteq found /\ found \subseteq since.ever
      BY <2>1, <2>2 DEF ReadInv, CallOK
    <2>5. QueuedIds' = QueuedIds /\ BuriedIds' = BuriedIds
      BY <2>1 DEF QueuedIds, BuriedIds
    <2>6. Promised!Dequeued(found)
      BY <2>1, <2>3, <2>4, <2>5 DEF Promised!Dequeued
    <2>7. found \in SUBSET StoredIds
      BY DEF RedisTypeOK
    <2> QED BY <2>6, <2>7 DEF StoreStep
  <1> QED BY <1>1, <1>2, <1>3, <1>4

(* purgeRealm: each DEL takes a message or a letter out, the DEL of the    *)
(* sorted set empties the queue, and at the end nothing that was queued at *)
(* the request is left.                                                    *)
LEMMA PurgeRefines ==
  ASSUME RedisInv, NEW c \in rcalls,
         PurgeZRange(c) \/ PurgeDelIndex(c) \/ \E m \in doomed : PurgeDel(c, m)
  PROVE  StoreStep
  <1> USE DEF RedisInv
  <1>0. c.op = "purge" /\ c.m = All /\ All \in Open("purge")
    BY CommandOf DEF PurgeZRange, PurgeDelIndex, PurgeDel, Sent
  <1>1. CASE PurgeZRange(c)
    <2>1. /\ \A o : Open(o)' = Open(o)
          /\ UNCHANGED <<mkeys, zindex, dkeys, dindex, usedIds, before, answered>>
          /\ Noted
      BY <1>1, OpenAfterThen DEF PurgeZRange, redis
    <2>2. QueuedIds' = QueuedIds /\ BuriedIds' = BuriedIds
      BY <2>1 DEF QueuedIds, BuriedIds
    <2> QED BY <2>1, <2>2, Unseen DEF SameCalls, StoreStep
  <1>2. ASSUME NEW m \in doomed, PurgeDel(c, m) PROVE StoreStep
    <2>1. /\ Noted /\ m \in StoredIds
          /\ UNCHANGED <<zindex, dindex, rcalls, usedIds, before, answered>>
          /\ \/ mkeys' = mkeys \ {m} /\ UNCHANGED dkeys
             \/ dkeys' = dkeys \ {m} /\ UNCHANGED mkeys
      BY <1>2 DEF PurgeDel, RedisTypeOK
    <2>2. SameCalls
      BY <2>1 DEF SameCalls, Open
    <2>3. CASE mkeys' = mkeys \ {m} /\ UNCHANGED dkeys
      <3>1. QueuedIds' = QueuedIds \ {m} /\ BuriedIds' = BuriedIds
        BY <2>1, <2>3 DEF QueuedIds, BuriedIds
      <3> QED BY <1>0, <2>1, <2>2, <3>1, LeavesQueue DEF StoreStep
    <2>4. CASE dkeys' = dkeys \ {m} /\ UNCHANGED mkeys
      <3>1. QueuedIds' = QueuedIds /\ BuriedIds' = BuriedIds \ {m}
        BY <2>1, <2>4 DEF QueuedIds, BuriedIds
      <3>2. since' = since /\ lettered' = lettered
        BY <2>1, <3>1, SameReading, SameLetters
      <3>3. Promised!PurgeBuried(BuriedIds \ {m})
        BY <1>0, <2>1, <2>2, <3>1, <3>2 DEF Promised!PurgeBuried, SameCalls
      <3>4. BuriedIds \ {m} \in SUBSET StoredIds
        BY DEF RedisTypeOK, BuriedIds
      <3> QED BY <3>3, <3>4 DEF StoreStep
    <2> QED BY <2>1, <2>3, <2>4
  <1>3. CASE PurgeDelIndex(c) /\ c.at = "DEL queue"
    <2>1. /\ \A o : Open(o)' = Open(o)
          /\ UNCHANGED <<mkeys, dkeys, dindex, usedIds, before, answered>>
          /\ zindex' = {} /\ Noted
      BY <1>3, OpenAfterThen DEF PurgeDelIndex, Sent
    <2>2. QueuedIds' = {} /\ BuriedIds' = BuriedIds
      BY <2>1 DEF QueuedIds, BuriedIds
    <2>3. lettered' = lettered /\ Promised!Becomes({})
      BY <2>1, <2>2, SameLetters, QueueBecomes
    <2>4. Promised!PurgeQueue
      BY <1>0, <2>1, <2>2, <2>3 DEF Promised!PurgeQueue
    <2> QED BY <2>4 DEF StoreStep
  <1>4. CASE PurgeDelIndex(c) /\ c.at = "DEL letters"
    <2>1. /\ Over(c) /\ UNCHANGED <<mkeys, zindex, dkeys, usedIds, answered>>
          /\ dindex' = {} /\ before' = {} /\ Noted
      BY <1>4 DEF PurgeDelIndex, Sent
    <2>2. /\ \A o : o # "purge" => Open(o)' = Open(o)
          /\ Open("purge")' = Open("purge") \ {All}
      BY <1>0, <2>1, OpenAfterOver
    <2>3. Open("purge") = {All}
      <3>1. \A d \in rcalls : d.op = "purge" => d.m = All
        BY DEF RedisTypeOK, CallRecords
      <3> QED BY <1>0, <3>1 DEF Open
    <2>4. QueuedIds' = QueuedIds /\ BuriedIds' = {}
      BY <2>1 DEF QueuedIds, BuriedIds
    <2>5. since' = since /\ lettered' = lettered
      BY <2>1, <2>4, SameReading, SameLetters
    <2>6. before \cap QueuedIds = {}
      BY <1>4 DEF CallOK
    <2>7. Promised!Purged({})
      BY <2>1, <2>2, <2>3, <2>4, <2>5, <2>6 DEF Promised!Purged, Promised!NoPurge
    <2> QED BY <2>7 DEF StoreStep
  <1>5. PurgeDelIndex(c) => c.at \in {"DEL queue", "DEL letters"}
    BY DEF PurgeDelIndex, Sent
  <1> QED BY <1>1, <1>2, <1>3, <1>4, <1>5

(* A step of the Redis store is a step of the abstract one or is not seen. *)
LEMMA RedisStepRefines ==
  ASSUME RedisInv, [RedisNext]_redisVars
  PROVE  [Promised!StoreNext]_(Promised!store)
  <1>1. ASSUME StoreBrokerCrash PROVE StoreStep
    <2>1. /\ rcalls' = {} /\ before' = {} /\ since' = Promised!Idle
          /\ UNCHANGED <<mkeys, zindex, dkeys, dindex, usedIds, answered, lettered>>
      BY <1>1 DEF StoreBrokerCrash, redis
    <2>2. (\A o : Open(o)' = {}) /\ QueuedIds' = QueuedIds /\ BuriedIds' = BuriedIds
      BY <2>1 DEF Open, QueuedIds, BuriedIds
    <2>3. Promised!StoreCrash
      BY <2>1, <2>2 DEF Promised!StoreCrash, Promised!NoPurge
    <2> QED BY <2>3 DEF StoreStep
  <1>2. ASSUME UNCHANGED redisVars PROVE StoreStep
    <2>1. UNCHANGED <<mkeys, zindex, dkeys, dindex, rcalls, usedIds, before, since,
                      answered, lettered>>
      BY <1>2 DEF redisVars
    <2>2. (\A o : Open(o)' = Open(o)) /\ QueuedIds' = QueuedIds /\ BuriedIds' = BuriedIds
      BY <2>1 DEF Open, QueuedIds, BuriedIds
    <2>3. UNCHANGED Promised!store
      BY <2>1, <2>2 DEF Promised!store
    <2> QED BY <2>3 DEF StoreStep
  <1>3. StoreStep
    BY <1>1, <1>2, CallsRefine, EnqueueRefines, KeyExpiresRefines, AckRefines,
       DeadLetterRefines, DiscardRefines, DequeueRefines, PurgeRefines
       DEF RedisNext
  <1> QED BY <1>3 DEF StoreStep, Promised!StoreNext

(* Initially the abstract store is empty and no call is open. *)
LEMMA RedisInitRefines == ASSUME RedisInit PROVE Promised!StoreInit
  <1>1. (\A o : Open(o) = {}) /\ QueuedIds = {} /\ BuriedIds = {}
    BY DEF RedisInit, Open, QueuedIds, BuriedIds
  <1> QED BY <1>1 DEF RedisInit, Promised!StoreInit, Promised!NoPurge

(* The Redis store implements MessageStore (lib/storage/redis.js against   *)
(* the Store interface): however the commands of its overlapping calls     *)
(* interleave, whatever keys expire in between and wherever the broker     *)
(* stops, a message leaves the queue only for a reason and a dequeue       *)
(* answers with all that was queued while it ran.                          *)
THEOREM RedisKeepsThePromise == RedisSpec => KeepsThePromise
  <1>1. RedisInit => Promised!StoreInit
    BY RedisInitRefines
  <1>2. RedisInv /\ [RedisNext]_redisVars => [Promised!StoreNext]_(Promised!store)
    BY RedisStepRefines
  <1> QED
    BY <1>1, <1>2, RedisInvariance, PTL DEF RedisSpec, KeepsThePromise, Promised!Spec

=============================================================================
