----------------------- MODULE DurableDelivery_proofs -----------------------
(***************************************************************************)
(* Proofs about DurableDelivery, for every number of consumers, sockets    *)
(* and messages, every max_attempts, both kinds of store and every bound.  *)
(***************************************************************************)
EXTENDS DurableDelivery, FiniteSetTheorems, TLAPS

USE NoSocketAssumption, NoConsumerAssumption, NoIdAssumption,
    MaxAttemptsAssumption, SyncStoreAssumption, BoundsAssumption,
    NoSubscriptionAssumption, OfferedAssumption

(* What a step may do to the queue: take messages out, or add one. *)
LEMMA QueueChanges ==
  ASSUME [Next]_vars
  PROVE  \/ queue' \subseteq queue
         \/ \E id \in Ids : queue' = queue \cup {id}
  <1>1. CASE Environment
    BY <1>1 DEF Environment, Connect, Disconnect, RegisterConsumer, Subscribe,
       ProduceStored, ProducePlain, ProduceThrows, Ack, DlqReplay, DlqDiscard,
       Expire, Restart, LoseMemory, store
  <1>2. CASE Failure
    BY <1>2 DEF Failure, EnqueueFails, StoreAckFails, DeadLetterFails,
       DlqReplayFails, DequeueFails, store
  <1>3. ASSUME NEW id \in Ids, StepOfId(id) \/ Timer(id)
        PROVE  \/ queue' \subseteq queue
               \/ queue' = queue \cup {id}
    BY <1>3 DEF StepOfId, CountQueued, Enqueued, EnqueueDropped, DeliverStored,
       StoreAck, DeadLetterRead, DeadLetterCopy, DeadLetterRemove,
       DlqReplayEnqueued, DlqReplayDiscarded, AttemptDlqLiveReplay, Timer,
       AckTimeout, RetryFire, store
  <1>4. ASSUME NEW k \in Calls, StepOfCall(k)
        PROVE  queue' = queue
    BY <1>4 DEF StepOfCall, DequeueIndex, DequeueRead, ReplayDurableMessages,
       store
  <1>5. CASE UNCHANGED vars
    BY <1>5 DEF vars, store
  <1> QED BY <1>1, <1>2, <1>3, <1>4, <1>5 DEF Next

(* The store holds finitely many messages at any time: countQueued answers *)
(* with a number.                                                          *)
FiniteQueue == IsFiniteSet(queue)

LEMMA QueueIsFinite == Spec => []FiniteQueue
  <1>1. Init => FiniteQueue
    BY FS_EmptySet DEF Init, FiniteQueue
  <1>2. FiniteQueue /\ [Next]_vars => FiniteQueue'
    BY QueueChanges, FS_Subset, FS_AddElement DEF FiniteQueue
  <1> QED BY <1>1, <1>2, PTL DEF Spec

(* A msgId that the store has not handed out yet is nowhere. *)
UnusedInv ==
    \A id \in Ids :
        addressee[id] = NoConsumer => /\ id \notin stored
                                      /\ enqueues[id].phase = "none"
                                      /\ replays[id] = "none"

(* A message is applied to the queue by one call only, and once. *)
EnqueueInv ==
    \A id \in Ids :
        /\ enqueues[id].phase \in {"waiting", "store"} => id \notin stored
        /\ enqueues[id].phase = "stored" => id \in stored
        /\ replays[id] = "enqueue" => id \notin stored
        /\ replays[id] \in {"discard", "nudge"} => id \in stored
        /\ replays[id] # "none" => copyOf[id] \in Ids
        /\ enqueues[id].phase = "none" \/ replays[id] = "none"

(* Whatever the broker or the store knows of was stored. *)
StoredInv ==
    /\ queue \subseteq stored
    /\ dlq \subseteq stored
    /\ finished \subseteq stored
    /\ ackCalls \subseteq finished
    /\ ackOk \subseteq finished
    /\ \A k \in Calls : /\ dequeues[k].ids \subseteq stored
                        /\ dequeues[k].phase # "idle" =>
                               dequeues[k].consumer \in Consumers

(* What a call of store.deadLetter copies was stored, and what it removes  *)
(* from the queue is in the DLQ, or was there and left it in good order.   *)
DeadLetterInv ==
    \A id \in Ids :
        /\ <<id, "copy">> \in deadLetters => id \in stored
        /\ <<id, "remove">> \in deadLetters =>
               \/ id \in dlq \cup finished
               \/ \E copy \in stored : copyOf[copy] = id

(* A delivery that awaits its ACK was sent to that socket, and the n-th    *)
(* attempt is at least the n-th delivery.                                  *)
PendingInv ==
    \A id \in Ids :
        pendingAcks[id] # NoPending =>
            /\ id \in stored
            /\ pendingAcks[id].attempt >= 1
            /\ sends[id] >= pendingAcks[id].attempt
            /\ <<id, pendingAcks[id].socket>> \in sentTo

(* So is the retry after it. *)
RetryInv ==
    \A id \in Ids, attempt \in Attempts :
        retryTimers[<<id, attempt>>] > 0 =>
            /\ id \in stored
            /\ attempt < MaxAttempts
            /\ sends[id] >= attempt

(* Whatever was delivered was stored. *)
SentInv == \A id \in Ids, s \in Sockets : <<id, s>> \in sentTo => id \in stored

(* The inductive invariant. *)
IndInv ==
    /\ TypeOK
    /\ UnusedInv
    /\ EnqueueInv
    /\ StoredInv
    /\ DeadLetterInv
    /\ PendingInv
    /\ RetryInv
    /\ SentInv
    /\ NoMessageLost
    /\ AckedByRecipient
    /\ DeadLetteredAfterAllAttempts
    /\ AckedStaysOut

(* What a delivery, or a delivery that is not made, establishes. *)
DeliveryOK ==
    /\ pendingAcks' \in [Ids -> [socket : Sockets \cup {NoSocket},
                                 attempt : 0..MaxAttempts]]
    /\ sentTo' \subseteq Ids \X Sockets
    /\ sentTo \subseteq sentTo'
    /\ sends' \in [Ids -> 0..MaxAttempts]
    /\ \A id \in Ids : sends'[id] >= sends[id]
    /\ PendingInv'
    /\ SentInv'

(* deliverDurableEntry of stored messages, for an attempt that is at most  *)
(* one more than the deliveries made so far.                               *)
LEMMA Delivery ==
  ASSUME IndInv,
         NEW ids \in SUBSET stored, NEW s \in Sockets, NEW attempt \in Attempts,
         \A id \in ids : sends[id] + 1 >= attempt,
         DeliverDurableEntry(ids, s, attempt),
         stored' = stored
  PROVE  DeliveryOK
  <1> USE DEF IndInv, TypeOK, MemoryTypeOK, HistoryTypeOK, Attempts
  <1>1. pendingAcks' \in [Ids -> [socket : Sockets \cup {NoSocket},
                                 attempt : 0..MaxAttempts]]
    BY DEF DeliverDurableEntry, AwaitAck
  <1>2. sentTo' \subseteq Ids \X Sockets /\ sentTo \subseteq sentTo'
    BY DEF DeliverDurableEntry, Record
  <1>3. /\ sends' \in [Ids -> 0..MaxAttempts]
        /\ \A id \in Ids : sends'[id] >= sends[id]
        /\ \A id \in ids : sends'[id] >= attempt
    BY DEF DeliverDurableEntry, Record
  <1>4. PendingInv'
    <2> SUFFICES ASSUME NEW id \in Ids, pendingAcks'[id] # NoPending
                 PROVE  /\ id \in stored
                        /\ pendingAcks'[id].attempt >= 1
                        /\ sends'[id] >= pendingAcks'[id].attempt
                        /\ <<id, pendingAcks'[id].socket>> \in sentTo'
      BY DEF PendingInv, NoPending
    <2>1. CASE id \in ids
      BY <1>3, <2>1 DEF DeliverDurableEntry, AwaitAck, Record
    <2>2. CASE id \notin ids
      <3>1. pendingAcks'[id] = pendingAcks[id]
        BY <2>2 DEF DeliverDurableEntry, AwaitAck
      <3> QED BY <1>2, <1>3, <3>1 DEF PendingInv
    <2> QED BY <2>1, <2>2
  <1>5. SentInv'
    BY DEF DeliverDurableEntry, Record, SentInv
  <1> QED BY <1>1, <1>2, <1>3, <1>4, <1>5 DEF DeliveryOK

(* When nothing is delivered, all of it stays as it is. *)
LEMMA NoDelivery ==
  ASSUME IndInv, UNCHANGED <<pendingAcks, sentTo, sends, stored>>
  PROVE  DeliveryOK
  BY DEF IndInv, TypeOK, MemoryTypeOK, HistoryTypeOK, PendingInv, SentInv,
         DeliveryOK

(* Every step preserves the inductive invariant. *)
LEMMA IndStep ==
  ASSUME IndInv, FiniteQueue, [Next]_vars
  PROVE  IndInv'
  <1> USE DEF IndInv, TypeOK
  <1>1. ASSUME NEW s \in Sockets, Connect(s)
        PROVE  IndInv'
    <2>1. MemoryTypeOK'
      BY <1>1 DEF Connect, MemoryTypeOK, Options, Attempts
    <2>2. StoreTypeOK' /\ InflightTypeOK' /\ BudgetTypeOK'
         /\ HistoryTypeOK' /\ UnusedInv' /\ EnqueueInv' /\ StoredInv'
         /\ DeadLetterInv' /\ PendingInv' /\ RetryInv' /\ SentInv'
         /\ NoMessageLost' /\ AckedByRecipient'
         /\ DeadLetteredAfterAllAttempts' /\ AckedStaysOut'
      BY <1>1 DEF Connect, StoreTypeOK, InflightTypeOK, BudgetTypeOK,
          HistoryTypeOK, UnusedInv, EnqueueInv, StoredInv, DeadLetterInv,
          PendingInv, RetryInv, SentInv, NoMessageLost, AckedByRecipient,
          DeadLetteredAfterAllAttempts, AckedStaysOut, memory, store,
          inflight, history
    <2> QED BY <2>1, <2>2
  <1>2. ASSUME NEW s \in Sockets, Disconnect(s)
        PROVE  IndInv'
    <2>1. MemoryTypeOK'
      BY <1>2 DEF Disconnect, ForgetPending, NoPending, Offline, MemoryTypeOK,
          Options, Attempts
    <2>2. HistoryTypeOK'
      BY <1>2 DEF Disconnect, ForgetPending, NoPending, Offline, HistoryTypeOK
    <2>3. PendingInv'
      BY <1>2 DEF Disconnect, ForgetPending, NoPending, Offline, PendingInv,
          MemoryTypeOK, HistoryTypeOK, Options, Attempts
    <2>4. StoreTypeOK' /\ InflightTypeOK' /\ BudgetTypeOK'
         /\ UnusedInv' /\ EnqueueInv' /\ StoredInv' /\ DeadLetterInv'
         /\ RetryInv' /\ SentInv' /\ NoMessageLost' /\ AckedByRecipient'
         /\ DeadLetteredAfterAllAttempts' /\ AckedStaysOut'
      BY <1>2 DEF Disconnect, StoreTypeOK, InflightTypeOK, BudgetTypeOK,
          UnusedInv, EnqueueInv, StoredInv, DeadLetterInv, RetryInv, SentInv,
          NoMessageLost, AckedByRecipient, DeadLetteredAfterAllAttempts,
          AckedStaysOut, memory, store, inflight, history
    <2> QED BY <2>1, <2>2, <2>3, <2>4
  <1>3. ASSUME NEW s \in Sockets, NEW c \in Consumers, RegisterConsumer(s, c)
        PROVE  IndInv'
    <2>1. MemoryTypeOK'
      BY <1>3 DEF RegisterConsumer, ForgetPending, NoPending, Offline,
          MemoryTypeOK, Options, Attempts
    <2>2. HistoryTypeOK'
      BY <1>3 DEF RegisterConsumer, ForgetPending, NoPending, Offline,
          HistoryTypeOK
    <2>3. PendingInv'
      BY <1>3 DEF RegisterConsumer, ForgetPending, NoPending, Offline,
          PendingInv, MemoryTypeOK, HistoryTypeOK, Options, Attempts
    <2>4. StoreTypeOK' /\ InflightTypeOK' /\ BudgetTypeOK'
         /\ UnusedInv' /\ EnqueueInv' /\ StoredInv' /\ DeadLetterInv'
         /\ RetryInv' /\ SentInv' /\ NoMessageLost' /\ AckedByRecipient'
         /\ DeadLetteredAfterAllAttempts' /\ AckedStaysOut'
      BY <1>3 DEF RegisterConsumer, StoreTypeOK, InflightTypeOK, BudgetTypeOK,
          UnusedInv, EnqueueInv, StoredInv, DeadLetterInv, RetryInv, SentInv,
          NoMessageLost, AckedByRecipient, DeadLetteredAfterAllAttempts,
          AckedStaysOut, memory, store, inflight, history
    <2> QED BY <2>1, <2>2, <2>3, <2>4
  <1>4. ASSUME NEW s \in Sockets, NEW c \in Consumers, NEW options \in Offered,
               Subscribe(s, c, options)
        PROVE  IndInv'
    <2>1. MemoryTypeOK'
      BY <1>4 DEF Subscribe, Spend, StartReplay, MemoryTypeOK, Options,
          Attempts
    <2>2. InflightTypeOK'
      BY <1>4 DEF Subscribe, Spend, StartReplay, InflightTypeOK, EnqueuePhases,
          DequeuePhases, ReplayPhases, DeadLetterPhases
    <2>3. BudgetTypeOK'
      BY <1>4 DEF Subscribe, Spend, StartReplay, BudgetTypeOK, Bounds
    <2>4. HistoryTypeOK'
      BY <1>4 DEF Subscribe, Spend, StartReplay, HistoryTypeOK
    <2>5. StoredInv'
      BY <1>4 DEF Subscribe, Spend, StartReplay, StoredInv, InflightTypeOK,
          EnqueuePhases, DequeuePhases, ReplayPhases,
          DeadLetterPhases, store
    <2>6. StoreTypeOK' /\ UnusedInv' /\ EnqueueInv' /\ DeadLetterInv'
         /\ PendingInv' /\ RetryInv' /\ SentInv' /\ NoMessageLost'
         /\ AckedByRecipient' /\ DeadLetteredAfterAllAttempts'
         /\ AckedStaysOut'
      BY <1>4 DEF Subscribe, StoreTypeOK, UnusedInv, EnqueueInv,
          DeadLetterInv, PendingInv, RetryInv, SentInv, NoMessageLost,
          AckedByRecipient, DeadLetteredAfterAllAttempts, AckedStaysOut,
          memory, store, inflight, history
    <2> QED BY <2>1, <2>2, <2>3, <2>4, <2>5, <2>6
  <1>5. ASSUME NEW c \in Consumers, NEW guaranteed \in BOOLEAN,
               ProduceStored(c, guaranteed)
        PROVE  IndInv'
    <2>1. StoreTypeOK'
      BY <1>5 DEF ProduceStored, Unused, Entered, StoreTypeOK, store
    <2>2. InflightTypeOK'
      BY <1>5 DEF ProduceStored, Unused, Entered, InflightTypeOK,
          EnqueuePhases, DequeuePhases, ReplayPhases,
          DeadLetterPhases
    <2>3. UnusedInv'
      BY <1>5 DEF ProduceStored, Unused, Entered, UnusedInv, StoreTypeOK,
          InflightTypeOK, EnqueuePhases, DequeuePhases,
          ReplayPhases, DeadLetterPhases, store, history
    <2>4. EnqueueInv'
      BY <1>5 DEF ProduceStored, Unused, Entered, EnqueueInv, InflightTypeOK,
          UnusedInv, EnqueuePhases, DequeuePhases, ReplayPhases,
          DeadLetterPhases, history
    <2>5. MemoryTypeOK' /\ BudgetTypeOK' /\ HistoryTypeOK'
         /\ StoredInv' /\ DeadLetterInv' /\ PendingInv' /\ RetryInv'
         /\ SentInv' /\ NoMessageLost' /\ AckedByRecipient'
         /\ DeadLetteredAfterAllAttempts' /\ AckedStaysOut'
      BY <1>5 DEF ProduceStored, MemoryTypeOK, BudgetTypeOK, HistoryTypeOK,
          StoredInv, DeadLetterInv, PendingInv, RetryInv, SentInv,
          NoMessageLost, AckedByRecipient, DeadLetteredAfterAllAttempts,
          AckedStaysOut, memory, store, inflight, history
    <2> QED BY <2>1, <2>2, <2>3, <2>4, <2>5
  <1>6. ASSUME NEW c \in Consumers, ProducePlain(c)
        PROVE  IndInv'
    <2>1. HistoryTypeOK'
      BY <1>6 DEF ProducePlain, HistoryTypeOK
    <2>2. MemoryTypeOK' /\ StoreTypeOK' /\ InflightTypeOK'
         /\ BudgetTypeOK' /\ UnusedInv' /\ EnqueueInv' /\ StoredInv'
         /\ DeadLetterInv' /\ PendingInv' /\ RetryInv' /\ SentInv'
         /\ NoMessageLost' /\ AckedByRecipient'
         /\ DeadLetteredAfterAllAttempts' /\ AckedStaysOut'
      BY <1>6 DEF ProducePlain, MemoryTypeOK, StoreTypeOK, InflightTypeOK,
          BudgetTypeOK, UnusedInv, EnqueueInv, StoredInv, DeadLetterInv,
          PendingInv, RetryInv, SentInv, NoMessageLost, AckedByRecipient,
          DeadLetteredAfterAllAttempts, AckedStaysOut, memory, store,
          inflight, history
    <2> QED BY <2>1, <2>2
  <1>7. ASSUME NEW c \in Consumers, ProduceThrows(c)
        PROVE  IndInv'
    <2>1. MemoryTypeOK'
      BY <1>7 DEF ProduceThrows, Spend, LoseMemory, NoPending, IdleCall,
          MemoryTypeOK, Options, Attempts
    <2>2. InflightTypeOK'
      BY <1>7 DEF ProduceThrows, Spend, LoseMemory, NoPending, IdleCall,
          InflightTypeOK, EnqueuePhases, NoEnqueue, DequeuePhases,
          ReplayPhases, DeadLetterPhases
    <2>3. BudgetTypeOK'
      BY <1>7 DEF ProduceThrows, Spend, LoseMemory, NoPending, IdleCall,
          BudgetTypeOK, Bounds
    <2>4. HistoryTypeOK'
      BY <1>7 DEF ProduceThrows, Spend, LoseMemory, NoPending, IdleCall,
          HistoryTypeOK
    <2>5. UnusedInv'
      BY <1>7 DEF ProduceThrows, Spend, LoseMemory, NoPending, IdleCall,
          UnusedInv, InflightTypeOK, EnqueuePhases, NoEnqueue, DequeuePhases,
          ReplayPhases, DeadLetterPhases, store
    <2>6. EnqueueInv'
      BY <1>7 DEF ProduceThrows, Spend, LoseMemory, NoPending, IdleCall,
          EnqueueInv, InflightTypeOK, EnqueuePhases, NoEnqueue, DequeuePhases,
          ReplayPhases, DeadLetterPhases
    <2>7. StoredInv'
      BY <1>7 DEF ProduceThrows, Spend, LoseMemory, NoPending, IdleCall,
          StoredInv, InflightTypeOK, EnqueuePhases, NoEnqueue, DequeuePhases,
          ReplayPhases, DeadLetterPhases, store
    <2>8. DeadLetterInv'
      BY <1>7 DEF ProduceThrows, Spend, LoseMemory, NoPending, IdleCall,
          DeadLetterInv, InflightTypeOK, EnqueuePhases, NoEnqueue,
          DequeuePhases, ReplayPhases, DeadLetterPhases, store
    <2>9. PendingInv'
      BY <1>7 DEF ProduceThrows, Spend, LoseMemory, NoPending, IdleCall,
          PendingInv, MemoryTypeOK, HistoryTypeOK, Options, Attempts
    <2>10. RetryInv'
      BY <1>7 DEF ProduceThrows, Spend, LoseMemory, NoPending, IdleCall,
          RetryInv, MemoryTypeOK, HistoryTypeOK, Attempts, Options
    <2>11. DeadLetteredAfterAllAttempts'
      BY <1>7 DEF ProduceThrows, Spend, LoseMemory, NoPending, IdleCall,
          DeadLetteredAfterAllAttempts, InflightTypeOK, EnqueuePhases,
          NoEnqueue, DequeuePhases, ReplayPhases, DeadLetterPhases, store
    <2>12. StoreTypeOK' /\ SentInv' /\ NoMessageLost'
         /\ AckedByRecipient' /\ AckedStaysOut'
      BY <1>7 DEF ProduceThrows, LoseMemory, StoreTypeOK, SentInv,
          NoMessageLost, AckedByRecipient, AckedStaysOut, memory, store,
          inflight, history
    <2> QED BY <2>1, <2>2, <2>3, <2>4, <2>5, <2>6, <2>7, <2>8, <2>9, <2>10,
          <2>11, <2>12
  <1>8. ASSUME NEW s \in Sockets, NEW id \in Ids, Ack(s, id)
        PROVE  IndInv'
    <2>1. MemoryTypeOK'
      BY <1>8 DEF Ack, NoPending, AckIsOwn, MemoryTypeOK, Options, Attempts
    <2>2. InflightTypeOK'
      BY <1>8 DEF Ack, NoPending, AckIsOwn, InflightTypeOK, EnqueuePhases,
          DequeuePhases, ReplayPhases, DeadLetterPhases
    <2>3. HistoryTypeOK'
      BY <1>8 DEF Ack, NoPending, AckIsOwn, HistoryTypeOK
    <2>4. StoredInv'
      BY <1>8 DEF Ack, NoPending, AckIsOwn, StoredInv, HistoryTypeOK,
          InflightTypeOK, PendingInv, EnqueuePhases, DequeuePhases,
          ReplayPhases, DeadLetterPhases, store
    <2>5. DeadLetterInv'
      BY <1>8 DEF Ack, NoPending, AckIsOwn, DeadLetterInv, HistoryTypeOK,
          store
    <2>6. PendingInv'
      BY <1>8 DEF Ack, NoPending, AckIsOwn, PendingInv, MemoryTypeOK,
          HistoryTypeOK, Options, Attempts
    <2>7. NoMessageLost'
      BY <1>8 DEF Ack, NoPending, AckIsOwn, NoMessageLost, HistoryTypeOK,
          store
    <2>8. AckedByRecipient'
      BY <1>8 DEF Ack, NoPending, AckIsOwn, AckedByRecipient, HistoryTypeOK,
          PendingInv
    <2>9. StoreTypeOK' /\ BudgetTypeOK' /\ UnusedInv' /\ EnqueueInv'
         /\ RetryInv' /\ SentInv' /\ DeadLetteredAfterAllAttempts'
         /\ AckedStaysOut'
      BY <1>8 DEF Ack, StoreTypeOK, BudgetTypeOK, UnusedInv, EnqueueInv,
          RetryInv, SentInv, DeadLetteredAfterAllAttempts, AckedStaysOut,
          memory, store, inflight, history
    <2> QED BY <2>1, <2>2, <2>3, <2>4, <2>5, <2>6, <2>7, <2>8, <2>9
  <1>9. ASSUME NEW id \in Ids, DlqReplay(id)
        PROVE  IndInv'
    <2>1. StoreTypeOK'
      BY <1>9 DEF DlqReplay, Unused, StoreTypeOK
    <2>2. InflightTypeOK'
      BY <1>9 DEF DlqReplay, Unused, InflightTypeOK, EnqueuePhases,
          DequeuePhases, ReplayPhases, DeadLetterPhases
    <2>3. UnusedInv'
      BY <1>9 DEF DlqReplay, Unused, UnusedInv, StoreTypeOK, InflightTypeOK,
          StoredInv, EnqueuePhases, DequeuePhases, ReplayPhases,
          DeadLetterPhases, history
    <2>4. EnqueueInv'
      BY <1>9 DEF DlqReplay, Unused, EnqueueInv, InflightTypeOK, UnusedInv,
          EnqueuePhases, DequeuePhases, ReplayPhases,
          DeadLetterPhases, history
    <2>5. DeadLetterInv'
      <3>1. PICK new \in Ids :
              /\ addressee[new] = NoConsumer
              /\ copyOf' = [copyOf EXCEPT ![new] = id]
        BY <1>9 DEF DlqReplay, Unused
      <3>2. \A copy \in stored : copyOf'[copy] = copyOf[copy]
        BY <3>1 DEF UnusedInv, HistoryTypeOK, InflightTypeOK
      <3>3. UNCHANGED <<dlq, deadLetters, stored, finished>>
        BY <1>9 DEF DlqReplay, history
      <3> QED BY <3>2, <3>3 DEF DeadLetterInv
    <2>6. NoMessageLost'
      BY <1>9 DEF DlqReplay, Unused, NoMessageLost, InflightTypeOK, UnusedInv,
          StoreTypeOK, EnqueuePhases, DequeuePhases, ReplayPhases,
          DeadLetterPhases, history
    <2>7. MemoryTypeOK' /\ BudgetTypeOK' /\ HistoryTypeOK'
         /\ StoredInv' /\ PendingInv' /\ RetryInv' /\ SentInv'
         /\ AckedByRecipient' /\ DeadLetteredAfterAllAttempts'
         /\ AckedStaysOut'
      BY <1>9 DEF DlqReplay, MemoryTypeOK, BudgetTypeOK, HistoryTypeOK,
          StoredInv, PendingInv, RetryInv, SentInv, AckedByRecipient,
          DeadLetteredAfterAllAttempts, AckedStaysOut, memory, store,
          inflight, history
    <2> QED BY <2>1, <2>2, <2>3, <2>4, <2>5, <2>6, <2>7
  <1>10. ASSUME NEW id \in Ids, DlqDiscard(id)
        PROVE  IndInv'
    <2>1. StoreTypeOK'
      BY <1>10 DEF DlqDiscard, StoreTypeOK
    <2>2. HistoryTypeOK'
      BY <1>10 DEF DlqDiscard, HistoryTypeOK
    <2>3. StoredInv'
      BY <1>10 DEF DlqDiscard, StoredInv, StoreTypeOK, HistoryTypeOK, inflight
    <2>4. DeadLetterInv'
      BY <1>10 DEF DlqDiscard, DeadLetterInv, StoreTypeOK, HistoryTypeOK,
          inflight
    <2>5. NoMessageLost'
      BY <1>10 DEF DlqDiscard, NoMessageLost, StoreTypeOK, HistoryTypeOK,
          inflight
    <2>6. DeadLetteredAfterAllAttempts'
      BY <1>10 DEF DlqDiscard, DeadLetteredAfterAllAttempts, StoreTypeOK,
          inflight
    <2>7. MemoryTypeOK' /\ InflightTypeOK' /\ BudgetTypeOK'
         /\ UnusedInv' /\ EnqueueInv' /\ PendingInv' /\ RetryInv'
         /\ SentInv' /\ AckedByRecipient' /\ AckedStaysOut'
      BY <1>10 DEF DlqDiscard, MemoryTypeOK, InflightTypeOK, BudgetTypeOK,
          UnusedInv, EnqueueInv, PendingInv, RetryInv, SentInv,
          AckedByRecipient, AckedStaysOut, memory, store, inflight, history
    <2> QED BY <2>1, <2>2, <2>3, <2>4, <2>5, <2>6, <2>7
  <1>11. ASSUME NEW id \in Ids, Expire(id)
        PROVE  IndInv'
    <2>1. StoreTypeOK'
      BY <1>11 DEF Expire, Spend, StoreTypeOK
    <2>2. BudgetTypeOK'
      BY <1>11 DEF Expire, Spend, BudgetTypeOK, Bounds
    <2>3. HistoryTypeOK'
      BY <1>11 DEF Expire, Spend, HistoryTypeOK
    <2>4. StoredInv'
      BY <1>11 DEF Expire, Spend, StoredInv, StoreTypeOK, HistoryTypeOK,
          inflight
    <2>5. DeadLetterInv'
      BY <1>11 DEF Expire, Spend, DeadLetterInv, HistoryTypeOK, inflight
    <2>6. NoMessageLost'
      BY <1>11 DEF Expire, Spend, NoMessageLost, StoreTypeOK, HistoryTypeOK,
          inflight
    <2>7. AckedStaysOut'
      BY <1>11 DEF Expire, Spend, AckedStaysOut, StoreTypeOK
    <2>8. MemoryTypeOK' /\ InflightTypeOK' /\ UnusedInv' /\ EnqueueInv'
         /\ PendingInv' /\ RetryInv' /\ SentInv' /\ AckedByRecipient'
         /\ DeadLetteredAfterAllAttempts'
      BY <1>11 DEF Expire, MemoryTypeOK, InflightTypeOK, UnusedInv,
          EnqueueInv, PendingInv, RetryInv, SentInv, AckedByRecipient,
          DeadLetteredAfterAllAttempts, memory, store, inflight, history
    <2> QED BY <2>1, <2>2, <2>3, <2>4, <2>5, <2>6, <2>7, <2>8
  <1>12. ASSUME Restart
        PROVE  IndInv'
    <2>1. MemoryTypeOK'
      BY <1>12 DEF Restart, Spend, LoseMemory, NoPending, IdleCall,
          MemoryTypeOK, Options, Attempts
    <2>2. InflightTypeOK'
      BY <1>12 DEF Restart, Spend, LoseMemory, NoPending, IdleCall,
          InflightTypeOK, EnqueuePhases, NoEnqueue, DequeuePhases,
          ReplayPhases, DeadLetterPhases
    <2>3. BudgetTypeOK'
      BY <1>12 DEF Restart, Spend, LoseMemory, NoPending, IdleCall,
          BudgetTypeOK, Bounds
    <2>4. HistoryTypeOK'
      BY <1>12 DEF Restart, Spend, LoseMemory, NoPending, IdleCall,
          HistoryTypeOK
    <2>5. UnusedInv'
      BY <1>12 DEF Restart, Spend, LoseMemory, NoPending, IdleCall, UnusedInv,
          InflightTypeOK, EnqueuePhases, NoEnqueue, DequeuePhases,
          ReplayPhases, DeadLetterPhases, store
    <2>6. EnqueueInv'
      BY <1>12 DEF Restart, Spend, LoseMemory, NoPending, IdleCall,
          EnqueueInv, InflightTypeOK, EnqueuePhases, NoEnqueue, DequeuePhases,
          ReplayPhases, DeadLetterPhases
    <2>7. StoredInv'
      BY <1>12 DEF Restart, Spend, LoseMemory, NoPending, IdleCall, StoredInv,
          InflightTypeOK, EnqueuePhases, NoEnqueue, DequeuePhases,
          ReplayPhases, DeadLetterPhases, store
    <2>8. DeadLetterInv'
      BY <1>12 DEF Restart, Spend, LoseMemory, NoPending, IdleCall,
          DeadLetterInv, InflightTypeOK, EnqueuePhases, NoEnqueue,
          DequeuePhases, ReplayPhases, DeadLetterPhases, store
    <2>9. PendingInv'
      BY <1>12 DEF Restart, Spend, LoseMemory, NoPending, IdleCall,
          PendingInv, MemoryTypeOK, HistoryTypeOK, Options, Attempts
    <2>10. RetryInv'
      BY <1>12 DEF Restart, Spend, LoseMemory, NoPending, IdleCall, RetryInv,
          MemoryTypeOK, HistoryTypeOK, Attempts, Options
    <2>11. DeadLetteredAfterAllAttempts'
      BY <1>12 DEF Restart, Spend, LoseMemory, NoPending, IdleCall,
          DeadLetteredAfterAllAttempts, InflightTypeOK, EnqueuePhases,
          NoEnqueue, DequeuePhases, ReplayPhases, DeadLetterPhases, store
    <2>12. StoreTypeOK' /\ SentInv' /\ NoMessageLost'
         /\ AckedByRecipient' /\ AckedStaysOut'
      BY <1>12 DEF Restart, LoseMemory, StoreTypeOK, SentInv, NoMessageLost,
          AckedByRecipient, AckedStaysOut, memory, store, inflight, history
    <2> QED BY <2>1, <2>2, <2>3, <2>4, <2>5, <2>6, <2>7, <2>8, <2>9, <2>10,
          <2>11, <2>12
  <1>13. ASSUME NEW id \in Ids, EnqueueFails(id)
        PROVE  IndInv'
    <2>1. StoreTypeOK'
      BY <1>13 DEF EnqueueFails, Spend, StoreTypeOK, store
    <2>2. InflightTypeOK'
      BY <1>13 DEF EnqueueFails, Spend, InflightTypeOK, EnqueuePhases,
          NoEnqueue, DequeuePhases, ReplayPhases, DeadLetterPhases
    <2>3. BudgetTypeOK'
      BY <1>13 DEF EnqueueFails, Spend, BudgetTypeOK, Bounds
    <2>4. HistoryTypeOK'
      BY <1>13 DEF EnqueueFails, Spend, HistoryTypeOK
    <2>5. UnusedInv'
      BY <1>13 DEF EnqueueFails, Spend, UnusedInv, HistoryTypeOK,
          InflightTypeOK, EnqueuePhases, NoEnqueue, DequeuePhases,
          ReplayPhases, DeadLetterPhases, store
    <2>6. EnqueueInv'
      BY <1>13 DEF EnqueueFails, Spend, EnqueueInv, InflightTypeOK,
          HistoryTypeOK, EnqueuePhases, NoEnqueue, DequeuePhases, ReplayPhases,
          DeadLetterPhases
    <2>7. StoredInv'
      BY <1>13 DEF EnqueueFails, Spend, StoredInv, StoreTypeOK, HistoryTypeOK,
          store
    <2>8. DeadLetterInv'
      BY <1>13 DEF EnqueueFails, Spend, DeadLetterInv, HistoryTypeOK, store
    <2>9. PendingInv'
      BY <1>13 DEF EnqueueFails, Spend, PendingInv, MemoryTypeOK,
          HistoryTypeOK, Options, Attempts, memory
    <2>10. RetryInv'
      BY <1>13 DEF EnqueueFails, Spend, RetryInv, MemoryTypeOK, HistoryTypeOK,
          Attempts, Options, memory
    <2>11. SentInv'
      BY <1>13 DEF EnqueueFails, Spend, SentInv, HistoryTypeOK
    <2>12. NoMessageLost'
      BY <1>13 DEF EnqueueFails, Spend, NoMessageLost, HistoryTypeOK,
          StoreTypeOK, store
    <2>13. AckedStaysOut'
      BY <1>13 DEF EnqueueFails, Spend, AckedStaysOut, StoreTypeOK,
          EnqueueInv, StoredInv, store
    <2>14. MemoryTypeOK' /\ AckedByRecipient'
         /\ DeadLetteredAfterAllAttempts'
      BY <1>13 DEF EnqueueFails, MemoryTypeOK, AckedByRecipient,
          DeadLetteredAfterAllAttempts, memory, store, inflight, history
    <2> QED BY <2>1, <2>2, <2>3, <2>4, <2>5, <2>6, <2>7, <2>8, <2>9, <2>10,
          <2>11, <2>12, <2>13, <2>14
  <1>14. ASSUME NEW id \in Ids, StoreAckFails(id)
        PROVE  IndInv'
    <2>1. StoreTypeOK'
      BY <1>14 DEF StoreAckFails, Spend, StoreTypeOK
    <2>2. InflightTypeOK'
      BY <1>14 DEF StoreAckFails, Spend, InflightTypeOK, EnqueuePhases,
          DequeuePhases, ReplayPhases, DeadLetterPhases
    <2>3. BudgetTypeOK'
      BY <1>14 DEF StoreAckFails, Spend, BudgetTypeOK, Bounds
    <2>4. StoredInv'
      BY <1>14 DEF StoreAckFails, Spend, StoredInv, StoreTypeOK,
          InflightTypeOK, EnqueuePhases, DequeuePhases,
          ReplayPhases, DeadLetterPhases, history
    <2>5. NoMessageLost'
      BY <1>14 DEF StoreAckFails, Spend, NoMessageLost, StoreTypeOK,
          StoredInv, history
    <2>6. AckedStaysOut'
      BY <1>14 DEF StoreAckFails, Spend, AckedStaysOut, StoreTypeOK, history
    <2>7. MemoryTypeOK' /\ HistoryTypeOK' /\ UnusedInv' /\ EnqueueInv'
         /\ DeadLetterInv' /\ PendingInv' /\ RetryInv' /\ SentInv'
         /\ AckedByRecipient' /\ DeadLetteredAfterAllAttempts'
      BY <1>14 DEF StoreAckFails, MemoryTypeOK, HistoryTypeOK, UnusedInv,
          EnqueueInv, DeadLetterInv, PendingInv, RetryInv, SentInv,
          AckedByRecipient, DeadLetteredAfterAllAttempts, memory, store,
          inflight, history
    <2> QED BY <2>1, <2>2, <2>3, <2>4, <2>5, <2>6, <2>7
  <1>15. ASSUME NEW id \in Ids, NEW phase \in DeadLetterPhases,
               DeadLetterFails(id, phase)
        PROVE  IndInv'
    <2>1. StoreTypeOK'
      BY <1>15 DEF DeadLetterFails, Spend, StoreTypeOK
    <2>2. InflightTypeOK'
      BY <1>15 DEF DeadLetterFails, Spend, InflightTypeOK, EnqueuePhases,
          DequeuePhases, ReplayPhases, DeadLetterPhases
    <2>3. BudgetTypeOK'
      BY <1>15 DEF DeadLetterFails, Spend, BudgetTypeOK, Bounds
    <2>4. StoredInv'
      BY <1>15 DEF DeadLetterFails, Spend, StoredInv, StoreTypeOK,
          DeadLetterInv, history
    <2>5. DeadLetterInv'
      BY <1>15 DEF DeadLetterFails, Spend, DeadLetterInv, InflightTypeOK,
          StoreTypeOK, EnqueuePhases, DequeuePhases, ReplayPhases,
          DeadLetterPhases, history
    <2>6. NoMessageLost'
      BY <1>15 DEF DeadLetterFails, Spend, NoMessageLost, StoreTypeOK,
          DeadLetterInv, history
    <2>7. DeadLetteredAfterAllAttempts'
      BY <1>15 DEF DeadLetterFails, Spend, DeadLetteredAfterAllAttempts,
          StoreTypeOK, InflightTypeOK, EnqueuePhases, DequeuePhases,
          ReplayPhases, DeadLetterPhases, history
    <2>8. AckedStaysOut'
      BY <1>15 DEF DeadLetterFails, Spend, AckedStaysOut, StoreTypeOK, history
    <2>9. MemoryTypeOK' /\ HistoryTypeOK' /\ UnusedInv' /\ EnqueueInv'
         /\ PendingInv' /\ RetryInv' /\ SentInv' /\ AckedByRecipient'
      BY <1>15 DEF DeadLetterFails, MemoryTypeOK, HistoryTypeOK, UnusedInv,
          EnqueueInv, PendingInv, RetryInv, SentInv, AckedByRecipient, memory,
          store, inflight, history
    <2> QED BY <2>1, <2>2, <2>3, <2>4, <2>5, <2>6, <2>7, <2>8, <2>9
  <1>16. ASSUME NEW id \in Ids, DlqReplayFails(id)
        PROVE  IndInv'
    <2>1. StoreTypeOK'
      BY <1>16 DEF DlqReplayFails, Spend, StoreTypeOK
    <2>2. InflightTypeOK'
      BY <1>16 DEF DlqReplayFails, Spend, InflightTypeOK, EnqueuePhases,
          DequeuePhases, ReplayPhases, DeadLetterPhases
    <2>3. BudgetTypeOK'
      BY <1>16 DEF DlqReplayFails, Spend, BudgetTypeOK, Bounds
    <2>4. HistoryTypeOK'
      BY <1>16 DEF DlqReplayFails, Spend, HistoryTypeOK
    <2>5. UnusedInv'
      BY <1>16 DEF DlqReplayFails, Spend, UnusedInv, HistoryTypeOK,
          InflightTypeOK, EnqueuePhases, DequeuePhases,
          ReplayPhases, DeadLetterPhases
    <2>6. EnqueueInv'
      BY <1>16 DEF DlqReplayFails, Spend, EnqueueInv, HistoryTypeOK,
          InflightTypeOK, EnqueuePhases, DequeuePhases,
          ReplayPhases, DeadLetterPhases
    <2>7. StoredInv'
      BY <1>16 DEF DlqReplayFails, Spend, StoredInv, StoreTypeOK,
          HistoryTypeOK
    <2>8. DeadLetterInv'
      <3>1. UNCHANGED <<deadLetters, copyOf, finished>>
        BY <1>16 DEF DlqReplayFails
      <3>2. stored \subseteq stored'
        BY <1>16 DEF DlqReplayFails
      <3>3. CASE dlq' = dlq
        BY <3>1, <3>2, <3>3 DEF DeadLetterInv
      <3>4. CASE dlq' = dlq \ {copyOf[id]} /\ id \in stored
        BY <3>1, <3>2, <3>4 DEF DeadLetterInv
      <3> QED BY <1>16, <3>3, <3>4 DEF DlqReplayFails, EnqueueInv
    <2>9. PendingInv'
      BY <1>16 DEF DlqReplayFails, Spend, PendingInv, MemoryTypeOK,
          HistoryTypeOK, Options, Attempts, memory
    <2>10. RetryInv'
      BY <1>16 DEF DlqReplayFails, Spend, RetryInv, MemoryTypeOK,
          HistoryTypeOK, Attempts, Options, memory
    <2>11. SentInv'
      BY <1>16 DEF DlqReplayFails, Spend, SentInv, HistoryTypeOK
    <2>12. NoMessageLost'
      BY <1>16 DEF DlqReplayFails, Spend, NoMessageLost, HistoryTypeOK,
          StoreTypeOK, EnqueueInv, StoredInv
    <2>13. DeadLetteredAfterAllAttempts'
      BY <1>16 DEF DlqReplayFails, Spend, DeadLetteredAfterAllAttempts,
          StoreTypeOK
    <2>14. AckedStaysOut'
      BY <1>16 DEF DlqReplayFails, Spend, AckedStaysOut, StoreTypeOK,
          EnqueueInv, StoredInv
    <2>15. MemoryTypeOK' /\ AckedByRecipient'
      BY <1>16 DEF DlqReplayFails, MemoryTypeOK, AckedByRecipient, memory,
          store, inflight, history
    <2> QED BY <2>1, <2>2, <2>3, <2>4, <2>5, <2>6, <2>7, <2>8, <2>9, <2>10,
          <2>11, <2>12, <2>13, <2>14, <2>15
  <1>17. ASSUME NEW k \in Calls, DequeueFails(k)
        PROVE  IndInv'
    <2>1. InflightTypeOK'
      BY <1>17 DEF DequeueFails, Spend, IdleCall, InflightTypeOK,
          EnqueuePhases, DequeuePhases, ReplayPhases,
          DeadLetterPhases
    <2>2. BudgetTypeOK'
      BY <1>17 DEF DequeueFails, Spend, IdleCall, BudgetTypeOK, Bounds
    <2>3. StoredInv'
      BY <1>17 DEF DequeueFails, Spend, IdleCall, StoredInv, InflightTypeOK,
          EnqueuePhases, DequeuePhases, ReplayPhases,
          DeadLetterPhases, store, history
    <2>4. MemoryTypeOK' /\ StoreTypeOK' /\ HistoryTypeOK' /\ UnusedInv'
         /\ EnqueueInv' /\ DeadLetterInv' /\ PendingInv' /\ RetryInv'
         /\ SentInv' /\ NoMessageLost' /\ AckedByRecipient'
         /\ DeadLetteredAfterAllAttempts' /\ AckedStaysOut'
      BY <1>17 DEF DequeueFails, MemoryTypeOK, StoreTypeOK, HistoryTypeOK,
          UnusedInv, EnqueueInv, DeadLetterInv, PendingInv, RetryInv, SentInv,
          NoMessageLost, AckedByRecipient, DeadLetteredAfterAllAttempts,
          AckedStaysOut, memory, store, inflight, history
    <2> QED BY <2>1, <2>2, <2>3, <2>4
  <1>18. ASSUME NEW id \in Ids, Enqueued(id)
        PROVE  IndInv'
    <2>1. StoreTypeOK'
      BY <1>18 DEF Enqueued, StoreTypeOK, store
    <2>2. InflightTypeOK'
      BY <1>18 DEF Enqueued, InflightTypeOK, EnqueuePhases, NoEnqueue,
          DequeuePhases, ReplayPhases, DeadLetterPhases
    <2>3. HistoryTypeOK'
      BY <1>18 DEF Enqueued, HistoryTypeOK
    <2>4. UnusedInv'
      BY <1>18 DEF Enqueued, UnusedInv, HistoryTypeOK, InflightTypeOK,
          EnqueuePhases, NoEnqueue, DequeuePhases, ReplayPhases,
          DeadLetterPhases, store
    <2>5. EnqueueInv'
      BY <1>18 DEF Enqueued, EnqueueInv, InflightTypeOK, HistoryTypeOK,
          EnqueuePhases, NoEnqueue, DequeuePhases, ReplayPhases,
          DeadLetterPhases
    <2>6. StoredInv'
      BY <1>18 DEF Enqueued, StoredInv, StoreTypeOK, HistoryTypeOK, store
    <2>7. DeadLetterInv'
      BY <1>18 DEF Enqueued, DeadLetterInv, HistoryTypeOK, store
    <2>8. PendingInv'
      BY <1>18 DEF Enqueued, PendingInv, MemoryTypeOK, HistoryTypeOK, Options,
          Attempts, memory
    <2>9. RetryInv'
      BY <1>18 DEF Enqueued, RetryInv, MemoryTypeOK, HistoryTypeOK, Attempts,
          Options, memory
    <2>10. SentInv'
      BY <1>18 DEF Enqueued, SentInv, HistoryTypeOK
    <2>11. NoMessageLost'
      BY <1>18 DEF Enqueued, NoMessageLost, HistoryTypeOK, StoreTypeOK, store
    <2>12. AckedStaysOut'
      BY <1>18 DEF Enqueued, AckedStaysOut, StoreTypeOK, EnqueueInv,
          StoredInv, store
    <2>13. MemoryTypeOK' /\ BudgetTypeOK' /\ AckedByRecipient'
         /\ DeadLetteredAfterAllAttempts'
      BY <1>18 DEF Enqueued, MemoryTypeOK, BudgetTypeOK, AckedByRecipient,
          DeadLetteredAfterAllAttempts, memory, store, inflight, history
    <2> QED BY <2>1, <2>2, <2>3, <2>4, <2>5, <2>6, <2>7, <2>8, <2>9, <2>10,
          <2>11, <2>12, <2>13
  <1>19. ASSUME NEW id \in Ids, EnqueueDropped(id)
        PROVE  IndInv'
    <2>1. InflightTypeOK'
      BY <1>19 DEF EnqueueDropped, InflightTypeOK, EnqueuePhases, NoEnqueue,
          DequeuePhases, ReplayPhases, DeadLetterPhases
    <2>2. UnusedInv'
      BY <1>19 DEF EnqueueDropped, UnusedInv, InflightTypeOK, EnqueuePhases,
          NoEnqueue, DequeuePhases, ReplayPhases, DeadLetterPhases, store,
          history
    <2>3. EnqueueInv'
      BY <1>19 DEF EnqueueDropped, EnqueueInv, InflightTypeOK, EnqueuePhases,
          NoEnqueue, DequeuePhases, ReplayPhases, DeadLetterPhases, history
    <2>4. MemoryTypeOK' /\ StoreTypeOK' /\ BudgetTypeOK'
         /\ HistoryTypeOK' /\ StoredInv' /\ DeadLetterInv' /\ PendingInv'
         /\ RetryInv' /\ SentInv' /\ NoMessageLost' /\ AckedByRecipient'
         /\ DeadLetteredAfterAllAttempts' /\ AckedStaysOut'
      BY <1>19 DEF EnqueueDropped, MemoryTypeOK, StoreTypeOK, BudgetTypeOK,
          HistoryTypeOK, StoredInv, DeadLetterInv, PendingInv, RetryInv,
          SentInv, NoMessageLost, AckedByRecipient,
          DeadLetteredAfterAllAttempts, AckedStaysOut, memory, store,
          inflight, history
    <2> QED BY <2>1, <2>2, <2>3, <2>4
  <1>20. ASSUME NEW id \in Ids, DeliverStored(id)
        PROVE  IndInv'
    <2>1. DeliveryOK
      <3>1. id \in stored /\ addressee[id] \in Consumers
        BY <1>20 DEF DeliverStored, EnqueueInv, UnusedInv, StoreTypeOK
      <3>2. CASE socketOf[addressee[id]] # NoSocket
        <4>1. /\ socketOf[addressee[id]] \in Sockets
              /\ DeliverDurableEntry({id}, socketOf[addressee[id]], 1)
              /\ stored' = stored
          BY <1>20, <3>1, <3>2 DEF DeliverStored, MemoryTypeOK
        <4>2. 1 \in Attempts /\ sends[id] + 1 >= 1
          BY DEF Attempts, HistoryTypeOK
        <4> QED BY <3>1, <4>1, <4>2, Delivery DEF IndInv, TypeOK
      <3>3. CASE socketOf[addressee[id]] = NoSocket
        BY <1>20, <3>3, NoDelivery DEF DeliverStored, IndInv, TypeOK
      <3> QED BY <3>2, <3>3
    <2>2. MemoryTypeOK'
      BY <1>20, <2>1 DEF DeliverStored, MemoryTypeOK, DeliveryOK, Options,
          Attempts
    <2>3. InflightTypeOK'
      BY <1>20 DEF DeliverStored, InflightTypeOK, EnqueuePhases, NoEnqueue,
          DequeuePhases, ReplayPhases, DeadLetterPhases
    <2>4. HistoryTypeOK'
      BY <1>20, <2>1 DEF DeliverStored, HistoryTypeOK, DeliveryOK
    <2>5. UnusedInv'
      BY <1>20 DEF DeliverStored, UnusedInv, InflightTypeOK, EnqueuePhases,
          NoEnqueue, DequeuePhases, ReplayPhases, DeadLetterPhases, store
    <2>6. EnqueueInv'
      BY <1>20 DEF DeliverStored, EnqueueInv, InflightTypeOK, EnqueuePhases,
          NoEnqueue, DequeuePhases, ReplayPhases, DeadLetterPhases
    <2>7. PendingInv'
      BY <2>1 DEF DeliveryOK
    <2>8. RetryInv'
      BY <1>20, <2>1 DEF DeliverStored, RetryInv, MemoryTypeOK, HistoryTypeOK,
          DeliveryOK, Attempts, Options
    <2>9. SentInv'
      BY <2>1 DEF DeliveryOK
    <2>10. AckedByRecipient'
      BY <1>20, <2>1 DEF DeliverStored, AckedByRecipient, HistoryTypeOK,
          DeliveryOK
    <2>11. DeadLetteredAfterAllAttempts'
      <3>1. dlq' = dlq /\ deadLetters' = deadLetters
        BY <1>20 DEF DeliverStored, store
      <3>2. \A i \in Ids : sends[i] = MaxAttempts => sends'[i] = MaxAttempts
        BY <2>1 DEF DeliveryOK, HistoryTypeOK
      <3> QED BY <3>1, <3>2 DEF DeadLetteredAfterAllAttempts
    <2>12. StoreTypeOK' /\ BudgetTypeOK' /\ StoredInv'
         /\ DeadLetterInv' /\ NoMessageLost' /\ AckedStaysOut'
      BY <1>20 DEF DeliverStored, StoreTypeOK, BudgetTypeOK, StoredInv,
          DeadLetterInv, NoMessageLost, AckedStaysOut, memory, store,
          inflight, history
    <2> QED BY <2>1, <2>2, <2>3, <2>4, <2>5, <2>6, <2>7, <2>8, <2>9, <2>10,
          <2>11, <2>12
  <1>21. ASSUME NEW id \in Ids, StoreAck(id)
        PROVE  IndInv'
    <2>1. StoreTypeOK'
      BY <1>21 DEF StoreAck, StoreTypeOK
    <2>2. InflightTypeOK'
      BY <1>21 DEF StoreAck, InflightTypeOK, EnqueuePhases,
          DequeuePhases, ReplayPhases, DeadLetterPhases
    <2>3. HistoryTypeOK'
      BY <1>21 DEF StoreAck, HistoryTypeOK
    <2>4. StoredInv'
      BY <1>21 DEF StoreAck, StoredInv, StoreTypeOK, InflightTypeOK,
          HistoryTypeOK, EnqueuePhases, DequeuePhases, ReplayPhases,
          DeadLetterPhases
    <2>5. NoMessageLost'
      BY <1>21 DEF StoreAck, NoMessageLost, StoreTypeOK, StoredInv
    <2>6. AckedStaysOut'
      BY <1>21 DEF StoreAck, AckedStaysOut, HistoryTypeOK, StoreTypeOK
    <2>7. MemoryTypeOK' /\ BudgetTypeOK' /\ UnusedInv' /\ EnqueueInv'
         /\ DeadLetterInv' /\ PendingInv' /\ RetryInv' /\ SentInv'
         /\ AckedByRecipient' /\ DeadLetteredAfterAllAttempts'
      BY <1>21 DEF StoreAck, MemoryTypeOK, BudgetTypeOK, UnusedInv,
          EnqueueInv, DeadLetterInv, PendingInv, RetryInv, SentInv,
          AckedByRecipient, DeadLetteredAfterAllAttempts, memory, store,
          inflight, history
    <2> QED BY <2>1, <2>2, <2>3, <2>4, <2>5, <2>6, <2>7
  <1>22. ASSUME NEW id \in Ids, DeadLetterRead(id)
        PROVE  IndInv'
    <2>1. InflightTypeOK'
      BY <1>22 DEF DeadLetterRead, InflightTypeOK, EnqueuePhases,
          DequeuePhases, ReplayPhases, DeadLetterPhases
    <2>2. DeadLetterInv'
      BY <1>22 DEF DeadLetterRead, DeadLetterInv, InflightTypeOK, StoredInv,
          DeadLetterPhases, EnqueuePhases, DequeuePhases,
          ReplayPhases, store, history
    <2>3. DeadLetteredAfterAllAttempts'
      BY <1>22 DEF DeadLetterRead, DeadLetteredAfterAllAttempts,
          InflightTypeOK, EnqueuePhases, DequeuePhases,
          ReplayPhases, DeadLetterPhases, store, history
    <2>4. MemoryTypeOK' /\ StoreTypeOK' /\ BudgetTypeOK'
         /\ HistoryTypeOK' /\ UnusedInv' /\ EnqueueInv' /\ StoredInv'
         /\ PendingInv' /\ RetryInv' /\ SentInv' /\ NoMessageLost'
         /\ AckedByRecipient' /\ AckedStaysOut'
      BY <1>22 DEF DeadLetterRead, MemoryTypeOK, StoreTypeOK, BudgetTypeOK,
          HistoryTypeOK, UnusedInv, EnqueueInv, StoredInv, PendingInv,
          RetryInv, SentInv, NoMessageLost, AckedByRecipient, AckedStaysOut,
          memory, store, inflight, history
    <2> QED BY <2>1, <2>2, <2>3, <2>4
  <1>23. ASSUME NEW id \in Ids, DeadLetterCopy(id)
        PROVE  IndInv'
    <2>1. StoreTypeOK'
      BY <1>23 DEF DeadLetterCopy, StoreTypeOK
    <2>2. InflightTypeOK'
      BY <1>23 DEF DeadLetterCopy, InflightTypeOK, EnqueuePhases,
          DequeuePhases, ReplayPhases, DeadLetterPhases
    <2>3. StoredInv'
      BY <1>23 DEF DeadLetterCopy, StoredInv, StoreTypeOK, DeadLetterInv,
          history
    <2>4. DeadLetterInv'
      BY <1>23 DEF DeadLetterCopy, DeadLetterInv, InflightTypeOK, StoreTypeOK,
          EnqueuePhases, DequeuePhases, ReplayPhases,
          DeadLetterPhases, history
    <2>5. NoMessageLost'
      BY <1>23 DEF DeadLetterCopy, NoMessageLost, StoreTypeOK, history
    <2>6. DeadLetteredAfterAllAttempts'
      BY <1>23 DEF DeadLetterCopy, DeadLetteredAfterAllAttempts, StoreTypeOK,
          InflightTypeOK, EnqueuePhases, DequeuePhases,
          ReplayPhases, DeadLetterPhases, history
    <2>7. MemoryTypeOK' /\ BudgetTypeOK' /\ HistoryTypeOK'
         /\ UnusedInv' /\ EnqueueInv' /\ PendingInv' /\ RetryInv'
         /\ SentInv' /\ AckedByRecipient' /\ AckedStaysOut'
      BY <1>23 DEF DeadLetterCopy, MemoryTypeOK, BudgetTypeOK, HistoryTypeOK,
          UnusedInv, EnqueueInv, PendingInv, RetryInv, SentInv,
          AckedByRecipient, AckedStaysOut, memory, store, inflight, history
    <2> QED BY <2>1, <2>2, <2>3, <2>4, <2>5, <2>6, <2>7
  <1>24. ASSUME NEW id \in Ids, DeadLetterRemove(id)
        PROVE  IndInv'
    <2>1. StoreTypeOK'
      BY <1>24 DEF DeadLetterRemove, StoreTypeOK
    <2>2. InflightTypeOK'
      BY <1>24 DEF DeadLetterRemove, InflightTypeOK, EnqueuePhases,
          DequeuePhases, ReplayPhases, DeadLetterPhases
    <2>3. StoredInv'
      BY <1>24 DEF DeadLetterRemove, StoredInv, StoreTypeOK, history
    <2>4. DeadLetterInv'
      BY <1>24 DEF DeadLetterRemove, DeadLetterInv, InflightTypeOK,
          EnqueuePhases, DequeuePhases, ReplayPhases,
          DeadLetterPhases, history
    <2>5. NoMessageLost'
      BY <1>24 DEF DeadLetterRemove, NoMessageLost, StoreTypeOK,
          DeadLetterInv, history
    <2>6. DeadLetteredAfterAllAttempts'
      BY <1>24 DEF DeadLetterRemove, DeadLetteredAfterAllAttempts,
          InflightTypeOK, EnqueuePhases, DequeuePhases,
          ReplayPhases, DeadLetterPhases, history
    <2>7. AckedStaysOut'
      BY <1>24 DEF DeadLetterRemove, AckedStaysOut, StoreTypeOK, history
    <2>8. MemoryTypeOK' /\ BudgetTypeOK' /\ HistoryTypeOK'
         /\ UnusedInv' /\ EnqueueInv' /\ PendingInv' /\ RetryInv'
         /\ SentInv' /\ AckedByRecipient'
      BY <1>24 DEF DeadLetterRemove, MemoryTypeOK, BudgetTypeOK,
          HistoryTypeOK, UnusedInv, EnqueueInv, PendingInv, RetryInv, SentInv,
          AckedByRecipient, memory, store, inflight, history
    <2> QED BY <2>1, <2>2, <2>3, <2>4, <2>5, <2>6, <2>7, <2>8
  <1>25. ASSUME NEW id \in Ids, DlqReplayEnqueued(id)
        PROVE  IndInv'
    <2>1. StoreTypeOK'
      BY <1>25 DEF DlqReplayEnqueued, StoreTypeOK
    <2>2. InflightTypeOK'
      BY <1>25 DEF DlqReplayEnqueued, InflightTypeOK, EnqueuePhases,
          DequeuePhases, ReplayPhases, DeadLetterPhases
    <2>3. HistoryTypeOK'
      BY <1>25 DEF DlqReplayEnqueued, HistoryTypeOK
    <2>4. UnusedInv'
      BY <1>25 DEF DlqReplayEnqueued, UnusedInv, HistoryTypeOK, InflightTypeOK,
          EnqueuePhases, DequeuePhases, ReplayPhases,
          DeadLetterPhases
    <2>5. EnqueueInv'
      BY <1>25 DEF DlqReplayEnqueued, EnqueueInv, HistoryTypeOK,
          InflightTypeOK, EnqueuePhases, DequeuePhases,
          ReplayPhases, DeadLetterPhases
    <2>6. StoredInv'
      BY <1>25 DEF DlqReplayEnqueued, StoredInv, StoreTypeOK, HistoryTypeOK
    <2>7. DeadLetterInv'
      BY <1>25 DEF DlqReplayEnqueued, DeadLetterInv, HistoryTypeOK
    <2>8. PendingInv'
      BY <1>25 DEF DlqReplayEnqueued, PendingInv, MemoryTypeOK, HistoryTypeOK,
          Options, Attempts, memory
    <2>9. RetryInv'
      BY <1>25 DEF DlqReplayEnqueued, RetryInv, MemoryTypeOK, HistoryTypeOK,
          Attempts, Options, memory
    <2>10. SentInv'
      BY <1>25 DEF DlqReplayEnqueued, SentInv, HistoryTypeOK
    <2>11. NoMessageLost'
      BY <1>25 DEF DlqReplayEnqueued, NoMessageLost, HistoryTypeOK,
          StoreTypeOK
    <2>12. AckedStaysOut'
      BY <1>25 DEF DlqReplayEnqueued, AckedStaysOut, StoreTypeOK, EnqueueInv,
          StoredInv
    <2>13. MemoryTypeOK' /\ BudgetTypeOK' /\ AckedByRecipient'
         /\ DeadLetteredAfterAllAttempts'
      BY <1>25 DEF DlqReplayEnqueued, MemoryTypeOK, BudgetTypeOK,
          AckedByRecipient, DeadLetteredAfterAllAttempts, memory, store,
          inflight, history
    <2> QED BY <2>1, <2>2, <2>3, <2>4, <2>5, <2>6, <2>7, <2>8, <2>9, <2>10,
          <2>11, <2>12, <2>13
  <1>26. ASSUME NEW id \in Ids, DlqReplayDiscarded(id)
        PROVE  IndInv'
    <2>1. StoreTypeOK'
      BY <1>26 DEF DlqReplayDiscarded, StoreTypeOK
    <2>2. InflightTypeOK'
      BY <1>26 DEF DlqReplayDiscarded, InflightTypeOK, EnqueuePhases,
          DequeuePhases, ReplayPhases, DeadLetterPhases
    <2>3. UnusedInv'
      BY <1>26 DEF DlqReplayDiscarded, UnusedInv, InflightTypeOK,
          EnqueuePhases, DequeuePhases, ReplayPhases,
          DeadLetterPhases, history
    <2>4. EnqueueInv'
      BY <1>26 DEF DlqReplayDiscarded, EnqueueInv, InflightTypeOK,
          EnqueuePhases, DequeuePhases, ReplayPhases,
          DeadLetterPhases, history
    <2>5. StoredInv'
      BY <1>26 DEF DlqReplayDiscarded, StoredInv, StoreTypeOK, history
    <2>6. DeadLetterInv'
      BY <1>26 DEF DlqReplayDiscarded, DeadLetterInv, StoreTypeOK, EnqueueInv,
          HistoryTypeOK, InflightTypeOK, EnqueuePhases,
          DequeuePhases, ReplayPhases, DeadLetterPhases, history
    <2>7. NoMessageLost'
      BY <1>26 DEF DlqReplayDiscarded, NoMessageLost, StoreTypeOK, EnqueueInv,
          HistoryTypeOK, InflightTypeOK, EnqueuePhases,
          DequeuePhases, ReplayPhases, DeadLetterPhases, history
    <2>8. DeadLetteredAfterAllAttempts'
      BY <1>26 DEF DlqReplayDiscarded, DeadLetteredAfterAllAttempts,
          StoreTypeOK, history
    <2>9. MemoryTypeOK' /\ BudgetTypeOK' /\ HistoryTypeOK'
         /\ PendingInv' /\ RetryInv' /\ SentInv' /\ AckedByRecipient'
         /\ AckedStaysOut'
      BY <1>26 DEF DlqReplayDiscarded, MemoryTypeOK, BudgetTypeOK,
          HistoryTypeOK, PendingInv, RetryInv, SentInv, AckedByRecipient,
          AckedStaysOut, memory, store, inflight, history
    <2> QED BY <2>1, <2>2, <2>3, <2>4, <2>5, <2>6, <2>7, <2>8, <2>9
  <1>27. ASSUME NEW id \in Ids, AttemptDlqLiveReplay(id)
        PROVE  IndInv'
    <2>1. InflightTypeOK'
      BY <1>27 DEF AttemptDlqLiveReplay, StartReplay, InflightTypeOK,
          EnqueueInv, UnusedInv, StoreTypeOK, EnqueuePhases,
          DequeuePhases, ReplayPhases, DeadLetterPhases
    <2>2. UnusedInv'
      BY <1>27 DEF AttemptDlqLiveReplay, StartReplay, UnusedInv,
          InflightTypeOK, EnqueuePhases, DequeuePhases,
          ReplayPhases, DeadLetterPhases, store, history
    <2>3. EnqueueInv'
      BY <1>27 DEF AttemptDlqLiveReplay, StartReplay, EnqueueInv,
          InflightTypeOK, EnqueuePhases, DequeuePhases,
          ReplayPhases, DeadLetterPhases, history
    <2>4. StoredInv'
      BY <1>27 DEF AttemptDlqLiveReplay, StartReplay, StoredInv,
          InflightTypeOK, EnqueueInv, UnusedInv, StoreTypeOK, EnqueuePhases,
          DequeuePhases, ReplayPhases, DeadLetterPhases, store,
          history
    <2>5. MemoryTypeOK' /\ StoreTypeOK' /\ BudgetTypeOK'
         /\ HistoryTypeOK' /\ DeadLetterInv' /\ PendingInv' /\ RetryInv'
         /\ SentInv' /\ NoMessageLost' /\ AckedByRecipient'
         /\ DeadLetteredAfterAllAttempts' /\ AckedStaysOut'
      BY <1>27 DEF AttemptDlqLiveReplay, MemoryTypeOK, StoreTypeOK,
          BudgetTypeOK, HistoryTypeOK, DeadLetterInv, PendingInv, RetryInv,
          SentInv, NoMessageLost, AckedByRecipient,
          DeadLetteredAfterAllAttempts, AckedStaysOut, memory, store,
          inflight, history
    <2> QED BY <2>1, <2>2, <2>3, <2>4, <2>5
  <1>28. ASSUME NEW k \in Calls, DequeueIndex(k)
        PROVE  IndInv'
    <2>1. InflightTypeOK'
      BY <1>28 DEF DequeueIndex, InflightTypeOK, StoreTypeOK, EnqueuePhases,
          DequeuePhases, ReplayPhases, DeadLetterPhases
    <2>2. StoredInv'
      BY <1>28 DEF DequeueIndex, StoredInv, InflightTypeOK, EnqueuePhases,
          DequeuePhases, ReplayPhases, DeadLetterPhases, store,
          history
    <2>3. MemoryTypeOK' /\ StoreTypeOK' /\ BudgetTypeOK'
         /\ HistoryTypeOK' /\ UnusedInv' /\ EnqueueInv' /\ DeadLetterInv'
         /\ PendingInv' /\ RetryInv' /\ SentInv' /\ NoMessageLost'
         /\ AckedByRecipient' /\ DeadLetteredAfterAllAttempts'
         /\ AckedStaysOut'
      BY <1>28 DEF DequeueIndex, MemoryTypeOK, StoreTypeOK, BudgetTypeOK,
          HistoryTypeOK, UnusedInv, EnqueueInv, DeadLetterInv, PendingInv,
          RetryInv, SentInv, NoMessageLost, AckedByRecipient,
          DeadLetteredAfterAllAttempts, AckedStaysOut, memory, store,
          inflight, history
    <2> QED BY <2>1, <2>2, <2>3
  <1>29. ASSUME NEW k \in Calls, DequeueRead(k)
        PROVE  IndInv'
    <2>1. InflightTypeOK'
      BY <1>29 DEF DequeueRead, InflightTypeOK, StoreTypeOK, EnqueuePhases,
          DequeuePhases, ReplayPhases, DeadLetterPhases
    <2>2. StoredInv'
      BY <1>29 DEF DequeueRead, StoredInv, InflightTypeOK, EnqueuePhases,
          DequeuePhases, ReplayPhases, DeadLetterPhases, store,
          history
    <2>3. MemoryTypeOK' /\ StoreTypeOK' /\ BudgetTypeOK'
         /\ HistoryTypeOK' /\ UnusedInv' /\ EnqueueInv' /\ DeadLetterInv'
         /\ PendingInv' /\ RetryInv' /\ SentInv' /\ NoMessageLost'
         /\ AckedByRecipient' /\ DeadLetteredAfterAllAttempts'
         /\ AckedStaysOut'
      BY <1>29 DEF DequeueRead, MemoryTypeOK, StoreTypeOK, BudgetTypeOK,
          HistoryTypeOK, UnusedInv, EnqueueInv, DeadLetterInv, PendingInv,
          RetryInv, SentInv, NoMessageLost, AckedByRecipient,
          DeadLetteredAfterAllAttempts, AckedStaysOut, memory, store,
          inflight, history
    <2> QED BY <2>1, <2>2, <2>3
  <1>30. ASSUME NEW k \in Calls, ReplayDurableMessages(k)
        PROVE  IndInv'
    <2> DEFINE c == dequeues[k].consumer
    <2>1. DeliveryOK
      <3>1. /\ c \in Consumers
            /\ dequeues[k].ids \subseteq stored
        BY <1>30 DEF ReplayDurableMessages, StoredInv
      <3>2. CASE socketOf[c] # NoSocket /\ subscription[c].ack
        <4>1. /\ socketOf[c] \in Sockets
              /\ DeliverDurableEntry(dequeues[k].ids, socketOf[c], 1)
              /\ stored' = stored
          BY <1>30, <3>1, <3>2 DEF ReplayDurableMessages, MemoryTypeOK
        <4>2. 1 \in Attempts /\ \A id \in dequeues[k].ids : sends[id] + 1 >= 1
          BY <3>1 DEF Attempts, HistoryTypeOK
        <4> QED BY <3>1, <4>1, <4>2, Delivery DEF IndInv, TypeOK
      <3>3. CASE socketOf[c] = NoSocket \/ ~subscription[c].ack
        BY <1>30, <3>3, NoDelivery DEF ReplayDurableMessages, IndInv, TypeOK
      <3> QED BY <3>2, <3>3
    <2>2. MemoryTypeOK'
      BY <1>30, <2>1 DEF ReplayDurableMessages, IdleCall, MemoryTypeOK,
          DeliveryOK, Options, Attempts
    <2>3. InflightTypeOK'
      BY <1>30 DEF ReplayDurableMessages, IdleCall, InflightTypeOK,
          EnqueuePhases, DequeuePhases, ReplayPhases,
          DeadLetterPhases
    <2>4. HistoryTypeOK'
      BY <1>30, <2>1 DEF ReplayDurableMessages, IdleCall, HistoryTypeOK,
          StoredInv, InflightTypeOK, DeliveryOK, EnqueuePhases,
          DequeuePhases, ReplayPhases, DeadLetterPhases
    <2>5. StoredInv'
      BY <1>30 DEF ReplayDurableMessages, IdleCall, StoredInv, HistoryTypeOK,
          InflightTypeOK, EnqueuePhases, DequeuePhases,
          ReplayPhases, DeadLetterPhases, store
    <2>6. DeadLetterInv'
      BY <1>30 DEF ReplayDurableMessages, IdleCall, DeadLetterInv,
          HistoryTypeOK, store
    <2>7. PendingInv'
      BY <2>1 DEF DeliveryOK
    <2>8. RetryInv'
      BY <1>30, <2>1 DEF ReplayDurableMessages, IdleCall, RetryInv,
          MemoryTypeOK, HistoryTypeOK, DeliveryOK, Attempts, Options
    <2>9. SentInv'
      BY <2>1 DEF DeliveryOK
    <2>10. NoMessageLost'
      BY <1>30 DEF ReplayDurableMessages, IdleCall, NoMessageLost,
          HistoryTypeOK, store
    <2>11. AckedByRecipient'
      BY <1>30, <2>1 DEF ReplayDurableMessages, IdleCall, AckedByRecipient,
          HistoryTypeOK, DeliveryOK
    <2>12. DeadLetteredAfterAllAttempts'
      <3>1. dlq' = dlq /\ deadLetters' = deadLetters
        BY <1>30 DEF ReplayDurableMessages, store
      <3>2. \A i \in Ids : sends[i] = MaxAttempts => sends'[i] = MaxAttempts
        BY <2>1 DEF DeliveryOK, HistoryTypeOK
      <3> QED BY <3>1, <3>2 DEF DeadLetteredAfterAllAttempts
    <2>13. StoreTypeOK' /\ BudgetTypeOK' /\ UnusedInv' /\ EnqueueInv'
         /\ AckedStaysOut'
      BY <1>30 DEF ReplayDurableMessages, StoreTypeOK, BudgetTypeOK,
          UnusedInv, EnqueueInv, AckedStaysOut, memory, store, inflight,
          history
    <2> QED BY <2>1, <2>2, <2>3, <2>4, <2>5, <2>6, <2>7, <2>8, <2>9, <2>10,
          <2>11, <2>12, <2>13
  <1>31. ASSUME NEW id \in Ids, AckTimeout(id)
        PROVE  IndInv'
    <2> DEFINE attempt == pendingAcks[id].attempt
    <2>1. /\ attempt \in Attempts
          /\ id \in stored
          /\ sends[id] >= attempt
      <3>1. pendingAcks[id] # NoPending
        BY <1>31 DEF AckTimeout
      <3>2. attempt \in 0..MaxAttempts
        BY DEF MemoryTypeOK
      <3>3. id \in stored /\ attempt >= 1 /\ sends[id] >= attempt
        BY <3>1 DEF PendingInv
      <3> QED BY <3>2, <3>3 DEF Attempts
    <2>2. MemoryTypeOK'
      <3>1. pendingAcks' \in [Ids -> [socket : Sockets \cup {NoSocket},
                                     attempt : 0..MaxAttempts]]
        BY <1>31 DEF AckTimeout, NoPending, MemoryTypeOK
      <3>2. retryTimers' \in [Ids \X Attempts -> Nat]
        <4>1. <<id, attempt>> \in Ids \X Attempts
          BY <2>1
        <4>2. \/ retryTimers' = retryTimers
              \/ retryTimers' = [retryTimers EXCEPT
                                   ![<<id, attempt>>] = @ + 1]
          BY <1>31 DEF AckTimeout
        <4>3. retryTimers \in [Ids \X Attempts -> Nat]
          BY DEF MemoryTypeOK
        <4> HIDE DEF attempt
        <4> QED BY <4>1, <4>2, <4>3
      <3> QED BY <1>31, <3>1, <3>2 DEF AckTimeout, MemoryTypeOK
    <2>3. InflightTypeOK'
      BY <1>31 DEF AckTimeout, NoPending, Exhausted, InflightTypeOK,
          EnqueuePhases, DequeuePhases, ReplayPhases,
          DeadLetterPhases
    <2>4. DeadLetterInv'
      <3>1. deadLetters' \subseteq deadLetters \cup {<<id, "read">>}
        BY <1>31 DEF AckTimeout
      <3>2. \A i \in Ids : /\ <<i, "copy">> # <<id, "read">>
                           /\ <<i, "remove">> # <<id, "read">>
        OBVIOUS
      <3>3. UNCHANGED <<dlq, stored, finished, copyOf>>
        BY <1>31 DEF AckTimeout, store, history
      <3> QED BY <3>1, <3>2, <3>3 DEF DeadLetterInv
    <2>5. PendingInv'
      BY <1>31, <2>1 DEF AckTimeout, NoPending, Exhausted, PendingInv,
          MemoryTypeOK, HistoryTypeOK, Options, Attempts, history
    <2>6. RetryInv'
      BY <1>31, <2>1 DEF AckTimeout, NoPending, Exhausted, RetryInv,
          MemoryTypeOK, HistoryTypeOK, Attempts, Options, history
    <2>7. DeadLetteredAfterAllAttempts'
      <3>1. deadLetters' \subseteq deadLetters \cup {<<id, "read">>}
        BY <1>31 DEF AckTimeout
      <3>2. deadLetters' # deadLetters => sends[id] = MaxAttempts
        BY <1>31, <2>1 DEF AckTimeout, Exhausted, HistoryTypeOK, Attempts
      <3> QED
        BY <1>31, <3>1, <3>2 DEF AckTimeout, DeadLetteredAfterAllAttempts,
           store, history
    <2>8. StoreTypeOK' /\ BudgetTypeOK' /\ HistoryTypeOK' /\ UnusedInv'
         /\ EnqueueInv' /\ StoredInv' /\ SentInv' /\ NoMessageLost'
         /\ AckedByRecipient' /\ AckedStaysOut'
      BY <1>31 DEF AckTimeout, StoreTypeOK, BudgetTypeOK, HistoryTypeOK,
          UnusedInv, EnqueueInv, StoredInv, SentInv, NoMessageLost,
          AckedByRecipient, AckedStaysOut, memory, store, inflight, history
    <2> QED BY <2>1, <2>2, <2>3, <2>4, <2>5, <2>6, <2>7, <2>8
  <1>32. ASSUME NEW id \in Ids, NEW attempt \in Attempts, RetryFire(id, attempt)
        PROVE  IndInv'
    <2>1. DeliveryOK
      <3>1. /\ id \in stored
            /\ addressee[id] \in Consumers
            /\ attempt + 1 \in Attempts
            /\ sends[id] + 1 >= attempt + 1
        BY <1>32 DEF RetryFire, RetryInv, UnusedInv, StoreTypeOK, Attempts,
                     HistoryTypeOK
      <3>2. CASE socketOf[addressee[id]] # NoSocket
        <4>1. /\ socketOf[addressee[id]] \in Sockets
              /\ DeliverDurableEntry({id}, socketOf[addressee[id]], attempt + 1)
              /\ stored' = stored
          BY <1>32, <3>1, <3>2 DEF RetryFire, MemoryTypeOK
        <4> QED BY <3>1, <4>1, Delivery DEF IndInv, TypeOK
      <3>3. CASE socketOf[addressee[id]] = NoSocket
        BY <1>32, <3>3, NoDelivery DEF RetryFire, IndInv, TypeOK
      <3> QED BY <3>2, <3>3
    <2>2. MemoryTypeOK'
      BY <1>32, <2>1 DEF RetryFire, MemoryTypeOK, DeliveryOK, Options,
          Attempts
    <2>3. HistoryTypeOK'
      BY <1>32, <2>1 DEF RetryFire, HistoryTypeOK, DeliveryOK
    <2>4. PendingInv'
      BY <2>1 DEF DeliveryOK
    <2>5. RetryInv'
      BY <1>32, <2>1 DEF RetryFire, RetryInv, MemoryTypeOK, HistoryTypeOK,
          DeliveryOK, Attempts, Options
    <2>6. SentInv'
      BY <2>1 DEF DeliveryOK
    <2>7. AckedByRecipient'
      BY <1>32, <2>1 DEF RetryFire, AckedByRecipient, HistoryTypeOK,
          DeliveryOK
    <2>8. DeadLetteredAfterAllAttempts'
      <3>1. dlq' = dlq /\ deadLetters' = deadLetters
        BY <1>32 DEF RetryFire, store, inflight
      <3>2. \A i \in Ids : sends[i] = MaxAttempts => sends'[i] = MaxAttempts
        BY <2>1 DEF DeliveryOK, HistoryTypeOK
      <3> QED BY <3>1, <3>2 DEF DeadLetteredAfterAllAttempts
    <2>9. StoreTypeOK' /\ InflightTypeOK' /\ BudgetTypeOK'
         /\ UnusedInv' /\ EnqueueInv' /\ StoredInv' /\ DeadLetterInv'
         /\ NoMessageLost' /\ AckedStaysOut'
      BY <1>32 DEF RetryFire, StoreTypeOK, InflightTypeOK, BudgetTypeOK,
          UnusedInv, EnqueueInv, StoredInv, DeadLetterInv, NoMessageLost,
          AckedStaysOut, memory, store, inflight, history
    <2> QED BY <2>1, <2>2, <2>3, <2>4, <2>5, <2>6, <2>7, <2>8, <2>9
  <1>33. ASSUME NEW id \in Ids, CountQueued(id)
         PROVE  IndInv'
    <2>1. InflightTypeOK'
      <3>1. Cardinality(queue) \in Nat
        BY FS_CardinalityType DEF FiniteQueue
      <3>2. enqueues' = [enqueues EXCEPT
                           ![id] = [phase |-> "store",
                                    deliver |-> enqueues[id].deliver,
                                    count |-> IF SyncStore
                                              THEN Cardinality(queue)
                                              ELSE NoCount]]
        BY <1>33 DEF CountQueued, InflightTypeOK
      <3>3. UNCHANGED <<dequeues, ackCalls, deadLetters, replays, copyOf>>
        BY <1>33 DEF CountQueued
      <3> QED BY <3>1, <3>2, <3>3 DEF InflightTypeOK, EnqueuePhases
    <2>2. UnusedInv' /\ EnqueueInv'
      BY <1>33 DEF CountQueued, UnusedInv, EnqueueInv, InflightTypeOK,
         EnqueuePhases, store, history
    <2>3. MemoryTypeOK' /\ StoreTypeOK' /\ BudgetTypeOK'
         /\ HistoryTypeOK' /\ StoredInv' /\ DeadLetterInv' /\ PendingInv'
         /\ RetryInv' /\ SentInv' /\ NoMessageLost' /\ AckedByRecipient'
         /\ DeadLetteredAfterAllAttempts' /\ AckedStaysOut'
      BY <1>33 DEF CountQueued, MemoryTypeOK, StoreTypeOK, BudgetTypeOK,
          HistoryTypeOK, StoredInv, DeadLetterInv, PendingInv, RetryInv,
          SentInv, NoMessageLost, AckedByRecipient,
          DeadLetteredAfterAllAttempts, AckedStaysOut, memory, store,
          inflight, history
    <2> QED BY <2>1, <2>2, <2>3
  <1>34. CASE UNCHANGED vars
    BY <1>34 DEF vars, memory, store, inflight, history, MemoryTypeOK,
        StoreTypeOK, InflightTypeOK, BudgetTypeOK, HistoryTypeOK, UnusedInv,
        EnqueueInv, StoredInv, DeadLetterInv, PendingInv, RetryInv, SentInv,
        NoMessageLost, AckedByRecipient, DeadLetteredAfterAllAttempts,
        AckedStaysOut
  <1> HIDE DEF IndInv, TypeOK
  <1> QED
    BY <1>1, <1>2, <1>3, <1>4, <1>5, <1>6, <1>7, <1>8, <1>9, <1>10, <1>11,
       <1>12, <1>13, <1>14, <1>15, <1>16, <1>17, <1>18, <1>19, <1>20, <1>21,
       <1>22, <1>23, <1>24, <1>25, <1>26, <1>27, <1>28, <1>29, <1>30, <1>31,
       <1>32, <1>33, <1>34
    DEF Next, Environment, Failure, StepOfId, StepOfCall, Timer

(* The initial states satisfy the inductive invariant. *)
LEMMA IndInit == ASSUME Init PROVE IndInv
  <1> USE DEF Init
  <1>1. MemoryTypeOK
    BY DEF MemoryTypeOK, NoPending
  <1>2. StoreTypeOK
    BY DEF StoreTypeOK
  <1>3. InflightTypeOK
    BY DEF InflightTypeOK, IdleCall, EnqueuePhases, NoEnqueue, DequeuePhases,
        ReplayPhases
  <1>4. BudgetTypeOK
    BY DEF BudgetTypeOK, Bounds
  <1>5. HistoryTypeOK
    <2>1. sends \in [Ids -> 0..MaxAttempts]
      OBVIOUS
    <2>2. threw \in BOOLEAN
      OBVIOUS
    <2> QED BY <2>1, <2>2 DEF HistoryTypeOK
  <1>6. UnusedInv /\ EnqueueInv /\ StoredInv /\ DeadLetterInv
    BY DEF UnusedInv, EnqueueInv, StoredInv, DeadLetterInv, IdleCall, NoEnqueue
  <1>7. PendingInv /\ RetryInv /\ SentInv
    BY DEF PendingInv, RetryInv, SentInv
  <1>8. /\ NoMessageLost
        /\ AckedByRecipient
        /\ DeadLetteredAfterAllAttempts
        /\ AckedStaysOut
    BY DEF NoMessageLost, AckedByRecipient, DeadLetteredAfterAllAttempts,
           AckedStaysOut
  <1> QED BY <1>1, <1>2, <1>3, <1>4, <1>5, <1>6, <1>7, <1>8 DEF IndInv, TypeOK

(* The inductive invariant holds of every reachable state. *)
THEOREM Invariance == Spec => []IndInv
  <1>1. Init => IndInv
    BY IndInit
  <1>2. IndInv /\ FiniteQueue /\ [Next]_vars => IndInv'
    BY IndStep
  <1> QED BY <1>1, <1>2, QueueIsFinite, PTL DEF Spec

(* Every variable keeps its type: in particular no delivery has an attempt *)
(* number above max_attempts, whichever stray retry timers fire.           *)
THEOREM TypeCorrect == Spec => []TypeOK
  <1>1. IndInv => TypeOK
    BY DEF IndInv
  <1> QED BY <1>1, Invariance, PTL

(* No stored message is lost, over disconnects, failing store calls,       *)
(* restarts and replays of dead letters.                                   *)
THEOREM NoLoss == Spec => []NoMessageLost
  <1>1. IndInv => NoMessageLost
    BY DEF IndInv
  <1> QED BY <1>1, Invariance, PTL

(* The ACK handler accepts an ACK only from a socket that the message was  *)
(* sent to.                                                                *)
THEOREM AckOwnership == Spec => []AckedByRecipient
  <1>1. IndInv => AckedByRecipient
    BY DEF IndInv
  <1> QED BY <1>1, Invariance, PTL

(* scheduleAckTimeout dead-letters a message only after max_attempts       *)
(* deliveries of it.                                                       *)
THEOREM DeadLetterBound == Spec => []DeadLetteredAfterAllAttempts
  <1>1. IndInv => DeadLetteredAfterAllAttempts
    BY DEF IndInv
  <1> QED BY <1>1, Invariance, PTL

(* A message whose ACK was confirmed never returns to the queue. *)
THEOREM AckIsFinal == Spec => []AckedStaysOut
  <1>1. IndInv => AckedStaysOut
    BY DEF IndInv
  <1> QED BY <1>1, Invariance, PTL

(* The broker delivers only what the store holds already. *)
THEOREM StoreBeforeDelivery == Spec => []DeliveredWasStored
  <1>1. IndInv => DeliveredWasStored
    BY DEF IndInv, PendingInv, SentInv, DeliveredWasStored
  <1> QED BY <1>1, Invariance, PTL

-----------------------------------------------------------------------------
(* The quota.                                                              *)

(* The messages that count against the quota: copies that dlq_replay made  *)
(* are not capped.                                                         *)
Produced(messages, origin) == {id \in messages : origin[id] = NoId}

Counting == SyncStore /\ Capped

(* Why the quota is kept.  At most one enqueue is between its count and    *)
(* its insert, and since it counted, nothing but copies came into the      *)
(* queue: the links after it in enqueueCapChains have not counted yet.     *)
ChainInv ==
    Counting =>
        /\ QueueWithinQuota
        /\ \A id, other \in Ids :
              enqueues[id].phase = "store" /\ enqueues[other].phase = "store"
                  => id = other
        /\ \A id \in Ids :
              enqueues[id].phase = "store" =>
                  /\ enqueues[id].count \in Nat
                  /\ Cardinality(Produced(queue, copyOf)) <= enqueues[id].count

(* What a step may do to the queue and the chain: take messages out, with  *)
(* no link counting anew; count; insert what counted below the cap; insert *)
(* a copy.                                                                 *)
Takes ==
    /\ queue' \subseteq queue
    /\ \A id \in queue : copyOf'[id] = copyOf[id]
    /\ \A id \in Ids : enqueues'[id].phase = "store" =>
                           enqueues'[id] = enqueues[id]

Counts(id) ==
    /\ ChainFree
    /\ queue' = queue /\ copyOf' = copyOf
    /\ enqueues'[id].count = Cardinality(queue)
    /\ \A other \in Ids \ {id} : enqueues'[other] = enqueues[other]

Inserts(id) ==
    /\ enqueues[id].phase = "store"
    /\ ~AtCap(enqueues[id].count)
    /\ queue' = queue \cup {id} /\ copyOf' = copyOf
    /\ enqueues'[id].phase # "store"
    /\ \A other \in Ids \ {id} : enqueues'[other] = enqueues[other]

Copies(id) ==
    /\ copyOf[id] # NoId
    /\ queue' = queue \cup {id} /\ copyOf' = copyOf
    /\ enqueues' = enqueues

ChainStep == Takes \/ \E id \in Ids : Counts(id) \/ Inserts(id) \/ Copies(id)

LEMMA StepsOfTheChain ==
  ASSUME IndInv, Counting, [Next]_vars
  PROVE  ChainStep
  <1>1. UNCHANGED <<queue, copyOf, enqueues>> => ChainStep
    BY DEF ChainStep, Takes
  <1>2. \A id : (/\ queue' = queue \ {id}
                 /\ UNCHANGED <<copyOf, enqueues>>) => ChainStep
    BY DEF ChainStep, Takes
  <1>3. (/\ UNCHANGED <<queue, copyOf>>
         /\ \E id \in Ids : \E entry :
               /\ entry.phase # "store"
               /\ enqueues' = [enqueues EXCEPT ![id] = entry]) => ChainStep
    BY DEF ChainStep, Takes, IndInv, TypeOK, InflightTypeOK
  <1>4. ASSUME NEW s \in Sockets,
               \/ Connect(s) \/ Disconnect(s)
               \/ \E c \in Consumers : RegisterConsumer(s, c)
               \/ \E c \in Consumers, options \in Offered :
                     Subscribe(s, c, options)
        PROVE  ChainStep
    BY <1>1, <1>4 DEF Connect, Disconnect, RegisterConsumer, Subscribe, store,
       inflight
  <1>5. ASSUME NEW c \in Consumers,
               \E guaranteed \in BOOLEAN : ProduceStored(c, guaranteed)
        PROVE  ChainStep
    <2>1. PICK id \in Ids :
             enqueues' = [enqueues EXCEPT
                            ![id] = [phase |-> Entered,
                                     deliver |-> socketOf[c] # NoSocket,
                                     count |-> NoCount]]
      BY <1>5 DEF ProduceStored
    <2>2. UNCHANGED <<queue, copyOf>>
      BY <1>5 DEF ProduceStored
    <2> QED BY <2>1, <2>2 DEF Counting, Entered, ChainStep, Takes, IndInv,
                              TypeOK, InflightTypeOK
  <1>6. ASSUME NEW c \in Consumers, ProducePlain(c)
        PROVE  ChainStep
    BY <1>1, <1>6 DEF ProducePlain, store, inflight
  <1>7. CASE Restart \/ \E c \in Consumers : ProduceThrows(c)
    <2>1. UNCHANGED <<queue, copyOf>>
      BY <1>7 DEF ProduceThrows, Restart, LoseMemory, store
    <2>2. enqueues' = [id \in Ids |-> NoEnqueue]
      BY <1>7 DEF ProduceThrows, Restart, LoseMemory
    <2> QED BY <2>1, <2>2 DEF NoEnqueue, ChainStep, Takes
  <1>8. ASSUME NEW id \in Ids,
               \/ \E s \in Sockets : Ack(s, id)
               \/ Timer(id) \/ DlqDiscard(id)
               \/ DeadLetterRead(id) \/ DeadLetterCopy(id)
               \/ DlqReplayDiscarded(id) \/ AttemptDlqLiveReplay(id)
        PROVE  ChainStep
    BY <1>1, <1>8 DEF Ack, Timer, AckTimeout, RetryFire, DlqDiscard,
       DeadLetterRead, DeadLetterCopy, DlqReplayDiscarded,
       AttemptDlqLiveReplay, store, inflight
  <1>9. ASSUME NEW id \in Ids, EnqueueDropped(id) \/ DeliverStored(id)
        PROVE  ChainStep
    <2>1. NoEnqueue.phase # "store"
      BY DEF NoEnqueue
    <2> QED BY <1>3, <1>9, <2>1 DEF EnqueueDropped, DeliverStored, store
  <1>10. ASSUME NEW k \in Calls,
                StepOfCall(k) \/ DequeueFails(k)
         PROVE  ChainStep
    BY <1>1, <1>10 DEF StepOfCall, DequeueIndex, DequeueRead,
       ReplayDurableMessages, DequeueFails, store
  <1>11. ASSUME NEW id \in Ids,
                \/ Expire(id) \/ StoreAck(id) \/ StoreAckFails(id)
                \/ DeadLetterRemove(id)
                \/ \E phase \in DeadLetterPhases : DeadLetterFails(id, phase)
         PROVE  ChainStep
    BY <1>1, <1>2, <1>11 DEF Expire, StoreAck, StoreAckFails,
       DeadLetterRemove, DeadLetterFails, inflight
  <1>12. ASSUME NEW entry \in Ids, DlqReplay(entry)
         PROVE  ChainStep
    <2>1. PICK id \in Ids : /\ Unused(id)
                            /\ copyOf' = [copyOf EXCEPT ![id] = entry]
      BY <1>12 DEF DlqReplay
    <2>2. id \notin queue
      BY <2>1 DEF IndInv, UnusedInv, StoredInv, Unused
    <2>3. queue \subseteq Ids /\ copyOf \in [Ids -> Ids \cup {NoId}]
      BY DEF IndInv, TypeOK, StoreTypeOK, InflightTypeOK
    <2> QED BY <1>12, <2>1, <2>2, <2>3 DEF DlqReplay, ChainStep, Takes
  <1>13. ASSUME NEW id \in Ids, CountQueued(id)
         PROVE  ChainStep
    <2>1. Counts(id)
      BY <1>13 DEF CountQueued, Counts, Counting, IndInv, TypeOK,
         InflightTypeOK, store
    <2> QED BY <2>1 DEF ChainStep
  <1>14. ASSUME NEW id \in Ids, Enqueued(id)
         PROVE  ChainStep
    <2>1. Inserts(id)
      BY <1>14 DEF Enqueued, Inserts, NoEnqueue, IndInv, TypeOK,
         InflightTypeOK
    <2> QED BY <2>1 DEF ChainStep
  <1>15. ASSUME NEW id \in Ids, DlqReplayEnqueued(id)
         PROVE  ChainStep
    <2>1. replays[id] = "enqueue" => copyOf[id] # NoId
      BY DEF IndInv, EnqueueInv
    <2> QED BY <1>15, <2>1 DEF DlqReplayEnqueued, ChainStep, Copies
  <1>16. ASSUME NEW id \in Ids, EnqueueFails(id) \/ DlqReplayFails(id)
         PROVE  ChainStep
    <2>1. NoEnqueue.phase # "store"
      BY DEF NoEnqueue
    <2> QED BY <1>1, <1>3, <1>16, <2>1
            DEF EnqueueFails, DlqReplayFails, AppliedThough, Counting
  <1>17. CASE UNCHANGED vars
    BY <1>1, <1>17 DEF vars, store, inflight
  <1> QED
    BY <1>4, <1>5, <1>6, <1>7, <1>8, <1>9, <1>10, <1>11, <1>12, <1>13, <1>14,
       <1>15, <1>16, <1>17
    DEF Next, Environment, Failure, StepOfId

LEMMA ChainInvStep ==
  ASSUME IndInv, ChainInv, Counting, FiniteQueue, [Next]_vars
  PROVE  ChainInv'
  <1> DEFINE P == Produced(queue, copyOf)
             Q == Produced(queue', copyOf')
  <1> USE MaxQueuedAssumption
  <1>1. /\ P \in SUBSET queue /\ IsFiniteSet(P) /\ Cardinality(P) \in Nat
        /\ Cardinality(P) <= Cardinality(queue) /\ Cardinality(queue) \in Nat
    <2>1. P \in SUBSET queue
      BY DEF Produced
    <2> QED BY <2>1, FS_Subset, FS_CardinalityType DEF FiniteQueue
  <1>2. /\ Cardinality(P) <= MaxQueued
        /\ \A id, other \in Ids :
              enqueues[id].phase = "store" /\ enqueues[other].phase = "store"
                  => id = other
        /\ \A id \in Ids :
              enqueues[id].phase = "store" =>
                  /\ enqueues[id].count \in Nat
                  /\ Cardinality(P) <= enqueues[id].count
    BY DEF ChainInv, QueueWithinQuota, Counting, Produced
  <1>3. SUFFICES /\ Cardinality(Q) <= MaxQueued
                 /\ \A id, other \in Ids :
                       /\ enqueues'[id].phase = "store"
                       /\ enqueues'[other].phase = "store"
                       => id = other
                 /\ \A id \in Ids :
                       enqueues'[id].phase = "store" =>
                           /\ enqueues'[id].count \in Nat
                           /\ Cardinality(Q) <= enqueues'[id].count
    BY DEF ChainInv, QueueWithinQuota, Counting, Produced
  <1>4. CASE Takes
    <2>1. Q \in SUBSET P
      BY <1>4 DEF Takes, Produced
    <2>2. Cardinality(Q) <= Cardinality(P) /\ Cardinality(Q) \in Nat
      BY <1>1, <2>1, FS_Subset, FS_CardinalityType
    <2>3. \A id \in Ids : enqueues'[id].phase = "store" =>
                              enqueues'[id] = enqueues[id]
      BY <1>4 DEF Takes
    <2> HIDE DEF P, Q
    <2> QED BY <1>1, <1>2, <2>2, <2>3
  <1>5. ASSUME NEW id \in Ids, Counts(id)
        PROVE  /\ Cardinality(Q) <= MaxQueued
               /\ \A one, other \in Ids :
                     /\ enqueues'[one].phase = "store"
                     /\ enqueues'[other].phase = "store"
                     => one = other
               /\ \A one \in Ids :
                     enqueues'[one].phase = "store" =>
                         /\ enqueues'[one].count \in Nat
                         /\ Cardinality(Q) <= enqueues'[one].count
    <2>1. Q = P
      BY <1>5 DEF Counts, Produced
    <2>2. \A other \in Ids \ {id} : enqueues'[other].phase # "store"
      BY <1>5 DEF Counts, ChainFree
    <2>3. enqueues'[id].count = Cardinality(queue)
      BY <1>5 DEF Counts
    <2> HIDE DEF P, Q
    <2> QED BY <1>1, <1>2, <2>1, <2>2, <2>3
  <1>6. ASSUME NEW id \in Ids, Inserts(id)
        PROVE  /\ Cardinality(Q) <= MaxQueued
               /\ \A one \in Ids : enqueues'[one].phase # "store"
    <2>1. Q \in SUBSET (P \cup {id})
      BY <1>6 DEF Inserts, Produced
    <2>2. Cardinality(Q) \in Nat /\ Cardinality(Q) <= Cardinality(P) + 1
      <3>1. IsFiniteSet(P \cup {id}) /\ Cardinality(P \cup {id}) =
              IF id \in P THEN Cardinality(P) ELSE Cardinality(P) + 1
        BY <1>1, FS_AddElement
      <3>2. /\ IsFiniteSet(Q) /\ Cardinality(Q) \in Nat
            /\ Cardinality(Q) <= Cardinality(P \cup {id})
        BY <2>1, <3>1, FS_Subset, FS_CardinalityType
      <3> HIDE DEF P, Q
      <3> QED BY <1>1, <3>1, <3>2
    <2>3. enqueues[id].count \in Nat /\ Cardinality(P) <= enqueues[id].count
      BY <1>2, <1>6 DEF Inserts
    <2>4. enqueues[id].count < MaxQueued
      BY <1>6, <2>3 DEF Inserts, AtCap
    <2>5. \A one \in Ids : enqueues'[one].phase # "store"
      BY <1>2, <1>6 DEF Inserts
    <2> HIDE DEF P, Q
    <2> QED BY <1>1, <2>2, <2>3, <2>4, <2>5
  <1>7. ASSUME NEW id \in Ids, Copies(id)
        PROVE  Q = P /\ enqueues' = enqueues
    BY <1>7 DEF Copies, Produced
  <1> HIDE DEF P, Q
  <1> QED BY <1>2, <1>4, <1>5, <1>6, <1>7, StepsOfTheChain DEF ChainStep

(* The memory and sqlite stores keep what producers queue within           *)
(* max_queued_per_realm, though each enqueue goes by a count taken before  *)
(* it: enqueueCapChains lets no other enqueue in between, whatever ACKs,   *)
(* expiries and dead letters free and whatever copies dlq_replay adds.     *)
THEOREM QuotaIsKept == Spec => []QueueWithinQuota
  <1>1. Init => ChainInv
    <2> SUFFICES ASSUME Init PROVE ChainInv
      OBVIOUS
    <2>1. {id \in queue : copyOf[id] = NoId} = {}
      BY DEF Init
    <2>2. QueueWithinQuota
      BY <2>1, FS_EmptySet, MaxQueuedAssumption DEF QueueWithinQuota
    <2>3. \A id \in Ids : enqueues[id].phase # "store"
      BY DEF Init, NoEnqueue
    <2> QED BY <2>2, <2>3 DEF ChainInv
  <1>2. /\ IndInv /\ FiniteQueue /\ ChainInv /\ [Next]_vars
        => ChainInv'
    <2>1. ~Counting => ChainInv'
      BY DEF ChainInv, Counting
    <2> QED BY <2>1, ChainInvStep
  <1>3. ChainInv => QueueWithinQuota
    BY DEF ChainInv, Counting, QueueWithinQuota
  <1> QED BY <1>1, <1>2, <1>3, Invariance, QueueIsFinite, PTL DEF Spec

-----------------------------------------------------------------------------
(* The sockets that names are bound to.                                    *)

(* What clients must keep to: no socket registers under two names, for the *)
(* disconnect handler frees the first name only (see Offline).             *)
OneNamePerSocket ==
    \A c, d \in Consumers :
        socketOf[c] = socketOf[d] /\ socketOf[c] # NoSocket => c = d

(* Every name is bound to an open socket, or to none. *)
BoundIsOpen == \A c \in Consumers : socketOf[c] \in connected \cup {NoSocket}

LEMMA BindingStep ==
  ASSUME IndInv, OneNamePerSocket, BoundIsOpen, [Next]_vars
  PROVE  BoundIsOpen'
  <1> USE DEF IndInv, TypeOK, MemoryTypeOK
  <1>1. UNCHANGED <<connected, socketOf>> => BoundIsOpen'
    BY DEF BoundIsOpen
  <1>2. ASSUME NEW s \in Sockets, Connect(s)
        PROVE  BoundIsOpen'
    BY <1>2 DEF Connect, BoundIsOpen
  <1>3. ASSUME NEW s \in Sockets, Disconnect(s)
        PROVE  BoundIsOpen'
    <2>1. PICK names \in Offline(s) :
             socketOf' = [c \in Consumers |-> IF c \in names THEN NoSocket
                                              ELSE socketOf[c]]
      BY <1>3 DEF Disconnect
    <2>2. \A c \in Consumers : socketOf[c] = s => c \in names
      BY <2>1 DEF Offline, OneNamePerSocket
    <2> QED BY <1>3, <2>1, <2>2 DEF Disconnect, BoundIsOpen
  <1>4. ASSUME NEW s \in Sockets, NEW c \in Consumers, RegisterConsumer(s, c)
        PROVE  BoundIsOpen'
    <2>1. CASE socketOf[c] \in connected
      <3>1. PICK names \in Offline(socketOf[c]) :
               socketOf' = [d \in Consumers |->
                              IF d = c THEN s
                              ELSE IF d \in names THEN NoSocket
                              ELSE socketOf[d]]
        BY <1>4, <2>1 DEF RegisterConsumer
      <3>2. \A d \in Consumers : socketOf[d] = socketOf[c] => d = c
        BY <2>1 DEF OneNamePerSocket
      <3>3. connected' = connected \ {socketOf[c]} /\ s \in connected'
        BY <1>4, <2>1 DEF RegisterConsumer
      <3> QED BY <3>1, <3>2, <3>3 DEF BoundIsOpen
    <2>2. CASE socketOf[c] \notin connected
      BY <1>4, <2>2 DEF RegisterConsumer, BoundIsOpen
    <2> QED BY <2>1, <2>2
  <1>5. ASSUME NEW s \in Sockets, NEW c \in Consumers, NEW options \in Offered,
               Subscribe(s, c, options)
        PROVE  BoundIsOpen'
    BY <1>5 DEF Subscribe, BoundIsOpen
  <1>6. CASE Restart \/ \E c \in Consumers : ProduceThrows(c)
    BY <1>6 DEF ProduceThrows, Restart, LoseMemory, BoundIsOpen
  <1>7. ASSUME NEW c \in Consumers,
               \/ \E guaranteed \in BOOLEAN : ProduceStored(c, guaranteed)
               \/ ProducePlain(c)
        PROVE  BoundIsOpen'
    BY <1>1, <1>7 DEF ProduceStored, ProducePlain, memory
  <1>8. ASSUME NEW id \in Ids,
               \/ \E s \in Sockets : Ack(s, id)
               \/ DlqReplay(id) \/ DlqDiscard(id) \/ Expire(id)
        PROVE  BoundIsOpen'
    BY <1>1, <1>8 DEF Ack, DlqReplay, DlqDiscard, Expire, memory
  <1>9. CASE Failure
    BY <1>1, <1>9 DEF Failure, EnqueueFails, StoreAckFails, DeadLetterFails,
       DlqReplayFails, DequeueFails, memory
  <1>10. ASSUME NEW id \in Ids, StepOfId(id)
         PROVE  BoundIsOpen'
    BY <1>1, <1>10 DEF StepOfId, CountQueued, Enqueued, EnqueueDropped,
        DeliverStored, StoreAck, DeadLetterRead, DeadLetterCopy,
        DeadLetterRemove, DlqReplayEnqueued, DlqReplayDiscarded,
        AttemptDlqLiveReplay, memory
  <1>11. ASSUME NEW id \in Ids, Timer(id)
         PROVE  BoundIsOpen'
    BY <1>1, <1>11 DEF Timer, AckTimeout, RetryFire
  <1>12. ASSUME NEW k \in Calls, StepOfCall(k)
         PROVE  BoundIsOpen'
    BY <1>1, <1>12 DEF StepOfCall, DequeueIndex, DequeueRead,
       ReplayDurableMessages, memory
  <1>13. CASE UNCHANGED vars
    BY <1>1, <1>13 DEF vars, memory
  <1> HIDE DEF IndInv, TypeOK, MemoryTypeOK
  <1> QED
    BY <1>2, <1>3, <1>4, <1>5, <1>6, <1>7, <1>8, <1>9, <1>10, <1>11, <1>12,
       <1>13
    DEF Next, Environment

(* A step writes a durable message to a closed socket only when a name is  *)
(* bound to one.                                                           *)
LEMMA BlackholeStep ==
  ASSUME IndInv, BoundIsOpen, OfflineMessagesAreStored, [Next]_vars
  PROVE  OfflineMessagesAreStored'
  <1>1. blackholed' = blackholed => OfflineMessagesAreStored'
    BY DEF OfflineMessagesAreStored
  <1>2. ASSUME NEW c \in Consumers, ProducePlain(c)
        PROVE  OfflineMessagesAreStored'
    BY <1>1, <1>2 DEF ProducePlain, BoundIsOpen
  <1>3. ASSUME NEW k \in Calls, ReplayDurableMessages(k)
        PROVE  OfflineMessagesAreStored'
    <2>1. dequeues[k].consumer \in Consumers
      BY <1>3 DEF ReplayDurableMessages, IndInv, StoredInv
    <2> QED BY <1>1, <1>3, <2>1 DEF ReplayDurableMessages, BoundIsOpen
  <1>4. ASSUME NEW k \in Calls, DequeueIndex(k) \/ DequeueRead(k)
        PROVE  OfflineMessagesAreStored'
    BY <1>1, <1>4 DEF DequeueIndex, DequeueRead, history
  <1>5. ASSUME NEW s \in Sockets,
               \/ Connect(s) \/ Disconnect(s)
               \/ \E c \in Consumers : RegisterConsumer(s, c)
               \/ \E c \in Consumers, options \in Offered :
                     Subscribe(s, c, options)
        PROVE  OfflineMessagesAreStored'
    BY <1>1, <1>5 DEF Connect, Disconnect, RegisterConsumer, Subscribe, history
  <1>6. CASE \/ \E c \in Consumers, guaranteed \in BOOLEAN :
                   ProduceStored(c, guaranteed)
             \/ \E c \in Consumers : ProduceThrows(c)
             \/ Restart
    BY <1>1, <1>6 DEF ProduceStored, ProduceThrows, Restart, LoseMemory,
        history
  <1>7. ASSUME NEW id \in Ids,
               \/ \E s \in Sockets : Ack(s, id)
               \/ DlqReplay(id) \/ DlqDiscard(id) \/ Expire(id)
        PROVE  OfflineMessagesAreStored'
    BY <1>1, <1>7 DEF Ack, DlqReplay, DlqDiscard, Expire, history
  <1>8. CASE Failure
    BY <1>1, <1>8 DEF Failure, EnqueueFails, StoreAckFails, DeadLetterFails,
       DlqReplayFails, DequeueFails, history
  <1>9. ASSUME NEW id \in Ids, StepOfId(id)
        PROVE  OfflineMessagesAreStored'
    BY <1>1, <1>9 DEF StepOfId, CountQueued, Enqueued, EnqueueDropped,
        DeliverStored, StoreAck, DeadLetterRead, DeadLetterCopy,
        DeadLetterRemove, DlqReplayEnqueued, DlqReplayDiscarded,
        AttemptDlqLiveReplay, history
  <1>10. ASSUME NEW id \in Ids, Timer(id)
         PROVE  OfflineMessagesAreStored'
    BY <1>1, <1>10 DEF Timer, AckTimeout, RetryFire, history
  <1>11. CASE UNCHANGED vars
    BY <1>1, <1>11 DEF vars, history
  <1> QED
    BY <1>2, <1>3, <1>4, <1>5, <1>6, <1>7, <1>8, <1>9, <1>10, <1>11
    DEF Next, Environment, StepOfCall

(* While no socket carries two names, no durable message is written to a   *)
(* closed socket: deliverToSubscription and replayDurableMessages store it *)
(* for the consumer that left.  (With two names it happens: the            *)
(* DurableTwoNames run.)                                                   *)
THEOREM OfflineIsQueued ==
    Spec /\ []OneNamePerSocket => []OfflineMessagesAreStored
  <1>1. Init => BoundIsOpen /\ OfflineMessagesAreStored
    BY DEF Init, BoundIsOpen, OfflineMessagesAreStored
  <1>2. /\ IndInv /\ OneNamePerSocket
        /\ BoundIsOpen /\ OfflineMessagesAreStored
        /\ [Next]_vars
        => (BoundIsOpen /\ OfflineMessagesAreStored)'
    BY BindingStep, BlackholeStep
  <1> QED BY <1>1, <1>2, Invariance, PTL DEF Spec
=============================================================================
