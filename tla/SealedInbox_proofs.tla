------------------------- MODULE SealedInbox_proofs -------------------------
(***************************************************************************)
(* Proofs about the sealed inbox, for every number of recipients, sockets, *)
(* blobs, failures and restarts.                                           *)
(*                                                                         *)
(* The properties need to know what stands behind an answer under way:     *)
(* ReplyInv says that the client had the blob when it answered, DrainInv   *)
(* carries that over the store call that a drain makes next and to the     *)
(* entries it has done, and KeptInv that only what a client had, or what   *)
(* was released, is on its way out of the queue.                           *)
(***************************************************************************)
EXTENDS SealedInbox, TLAPS

(* An answer is about a blob that a client took in, or refused. *)
ReplyInv ==
    \A b \in Blobs, s \in Sockets, kind \in Kinds :
        /\ <<b, s, kind, "ok">> \in replies => b \in processed
        /\ <<b, s, kind, "refused">> \in replies => b \in refused

(* What a drain acks was taken in, what it dead-letters was refused, and   *)
(* what it has done was one or the other unless it counts as pending.      *)
DrainInv ==
    \A d \in Drains :
        /\ drains[d].phase \in {"emit", "ack", "dead"} =>
              drains[d].current \in Blobs
        /\ drains[d].phase = "ack" => drains[d].current \in processed
        /\ drains[d].phase = "dead" => drains[d].current \in refused
        /\ drains[d].done \subseteq processed \cup refused \cup drains[d].pending

KeptInv ==
    /\ ackCalls \subseteq released
    /\ QueuedIsKept
    /\ AwaitedIsKept
    /\ DeadLetteredWasRefused

(* The inductive invariant. *)
IndInv ==
    /\ TypeOK
    /\ ReplyInv
    /\ DrainInv
    /\ KeptInv

(* Finishing the entry of a drain, with its answer or as pending, leaves   *)
(* a drain record behind.                                                  *)
LEMMA SettledDrains ==
    ASSUME HandlersTypeOK, NEW d \in Drains, NEW pending \in SUBSET Blobs,
           drains[d].current \in Blobs, Settled(d, pending)
    PROVE  drains' \in [Drains -> DrainRecords]
  <1> DEFINE r1 == [drains[d] EXCEPT !.phase = "next"]
             r2 == [r1 EXCEPT !.current = NoBlob]
             r3 == [r2 EXCEPT !.done = @ \cup {drains[d].current}]
             r4 == [r3 EXCEPT !.pending = @ \cup pending]
  <1>1. r1 \in DrainRecords
    BY DEF HandlersTypeOK, DrainRecords, DrainPhases
  <1> HIDE DEF r1
  <1>2. r2 \in DrainRecords
    BY <1>1 DEF DrainRecords
  <1> HIDE DEF r2
  <1>3. r3 \in DrainRecords
    BY <1>2 DEF DrainRecords
  <1> HIDE DEF r3
  <1>4. r4 \in DrainRecords
    BY <1>3 DEF DrainRecords
  <1>5. drains' = [drains EXCEPT ![d] = r4]
    BY DEF Settled, HandlersTypeOK, r1, r2, r3
  <1> HIDE DEF r4
  <1> QED BY <1>4, <1>5 DEF HandlersTypeOK

(* Every step preserves the inductive invariant. *)
LEMMA IndStep == ASSUME IndInv, [Next]_vars PROVE IndInv'
  <1> USE DEF IndInv, TypeOK
  <1>1. ASSUME NEW s \in Sockets, Connect(s)
        PROVE  IndInv'
    <2>1. RegistryTypeOK'
      BY <1>1 DEF Connect, registry, RegistryTypeOK
    <2>2. /\ HandlersTypeOK'
         /\ StoreTypeOK'
         /\ NetworkTypeOK'
         /\ BudgetTypeOK'
         /\ HistoryTypeOK'
         /\ ReplyInv'
         /\ DrainInv'
         /\ KeptInv'
      BY <1>1 DEF Connect, registry, store, network, history, HandlersTypeOK,
                  StoreTypeOK, NetworkTypeOK, BudgetTypeOK, HistoryTypeOK,
                  ReplyInv, DrainInv, KeptInv, QueuedIsKept, AwaitedIsKept,
                  DeadLetteredWasRefused
    <2> QED BY <2>1, <2>2
  <1>2. ASSUME NEW s \in Sockets, Disconnect(s)
        PROVE  IndInv'
    <2>1. RegistryTypeOK'
      BY <1>2 DEF Disconnect, Close, Freed, registry, RegistryTypeOK
    <2>2. NetworkTypeOK'
      BY <1>2 DEF Disconnect, Close, Freed, network, NetworkTypeOK, Kinds,
                  Answers, HandlersTypeOK, RegistryTypeOK
    <2>3. ReplyInv'
      BY <1>2 DEF Disconnect, Close, Freed, network, history, ReplyInv,
                  NetworkTypeOK, Answers
    <2>4. /\ HandlersTypeOK'
         /\ StoreTypeOK'
         /\ BudgetTypeOK'
         /\ HistoryTypeOK'
         /\ DrainInv'
         /\ KeptInv'
      BY <1>2 DEF Disconnect, Close, Freed, registry, store, network, history,
                  HandlersTypeOK, StoreTypeOK, BudgetTypeOK, HistoryTypeOK,
                  DrainInv, KeptInv, QueuedIsKept, AwaitedIsKept,
                  DeadLetteredWasRefused
    <2> QED BY <2>1, <2>2, <2>3, <2>4
  <1>3. ASSUME NEW s \in Sockets, NEW i \in Identities, RegisterConsumer(s, i)
        PROVE  IndInv'
    <2>1. RegistryTypeOK'
      BY <1>3 DEF RegisterConsumer, Close, Freed, registry, RegistryTypeOK
    <2>2. NetworkTypeOK'
      BY <1>3 DEF RegisterConsumer, Close, Freed, network, NetworkTypeOK,
                  Kinds, Answers, HandlersTypeOK, RegistryTypeOK
    <2>3. ReplyInv'
      BY <1>3 DEF RegisterConsumer, Close, Freed, network, history, ReplyInv,
                  NetworkTypeOK, Answers
    <2>4. /\ HandlersTypeOK'
         /\ StoreTypeOK'
         /\ BudgetTypeOK'
         /\ HistoryTypeOK'
         /\ DrainInv'
         /\ KeptInv'
      BY <1>3 DEF RegisterConsumer, Close, Freed, registry, store, network,
                  history, HandlersTypeOK, StoreTypeOK, BudgetTypeOK,
                  HistoryTypeOK, DrainInv, KeptInv, QueuedIsKept,
                  AwaitedIsKept, DeadLetteredWasRefused
    <2> QED BY <2>1, <2>2, <2>3, <2>4
  <1>4. ASSUME NEW s \in Sockets, NEW i \in Identities, RegisterProducer(s, i)
        PROVE  IndInv'
    <2>1. RegistryTypeOK'
      BY <1>4 DEF RegisterProducer, registry, RegistryTypeOK
    <2>2. /\ HandlersTypeOK'
         /\ StoreTypeOK'
         /\ NetworkTypeOK'
         /\ BudgetTypeOK'
         /\ HistoryTypeOK'
         /\ ReplyInv'
         /\ DrainInv'
         /\ KeptInv'
      BY <1>4 DEF RegisterProducer, registry, store, network, history,
                  HandlersTypeOK, StoreTypeOK, NetworkTypeOK, BudgetTypeOK,
                  HistoryTypeOK, ReplyInv, DrainInv, KeptInv, QueuedIsKept,
                  AwaitedIsKept, DeadLetteredWasRefused
    <2> QED BY <2>1, <2>2
  <1>5. ASSUME NEW s \in Sockets, NEW i \in Identities, SetupConsumer(s, i)
        PROVE  IndInv'
    <2>1. RegistryTypeOK'
      BY <1>5 DEF SetupConsumer, registry, RegistryTypeOK
    <2>2. /\ HandlersTypeOK'
         /\ StoreTypeOK'
         /\ NetworkTypeOK'
         /\ BudgetTypeOK'
         /\ HistoryTypeOK'
         /\ ReplyInv'
         /\ DrainInv'
         /\ KeptInv'
      BY <1>5 DEF SetupConsumer, registry, store, network, history,
                  HandlersTypeOK, StoreTypeOK, NetworkTypeOK, BudgetTypeOK,
                  HistoryTypeOK, ReplyInv, DrainInv, KeptInv, QueuedIsKept,
                  AwaitedIsKept, DeadLetteredWasRefused
    <2> QED BY <2>1, <2>2
  <1>6. ASSUME NEW s \in Sockets, NEW i \in Identities, SealedSubscribe(s, i)
        PROVE  IndInv'
    <2>1. RegistryTypeOK'
      BY <1>6 DEF SealedSubscribe, Drains, registry, RegistryTypeOK
    <2>2. HandlersTypeOK'
      <3> DEFINE d == <<s, i>>
      <3>1. d \in Drains
        BY DEF Drains
      <3>2. drains' = [drains EXCEPT ![d].phase = "dequeue"]
        BY <1>6 DEF SealedSubscribe
      <3> HIDE DEF d
      <3>3. drains' \in [Drains -> DrainRecords]
        BY <3>1, <3>2 DEF HandlersTypeOK, DrainRecords, DrainPhases
      <3> QED
        BY <1>6, <3>3 DEF SealedSubscribe, HandlersTypeOK
    <2>3. DrainInv'
      BY <1>6 DEF SealedSubscribe, Drains, history, DrainInv, HandlersTypeOK
    <2>4. /\ StoreTypeOK'
         /\ NetworkTypeOK'
         /\ BudgetTypeOK'
         /\ HistoryTypeOK'
         /\ ReplyInv'
         /\ KeptInv'
      BY <1>6 DEF SealedSubscribe, Drains, registry, store, network, history,
                  StoreTypeOK, NetworkTypeOK, BudgetTypeOK, HistoryTypeOK,
                  ReplyInv, KeptInv, QueuedIsKept, AwaitedIsKept,
                  DeadLetteredWasRefused
    <2> QED BY <2>1, <2>2, <2>3, <2>4
  <1>7. ASSUME NEW s \in Sockets, NEW i \in Identities, OldSubscribe(s, i)
        PROVE  IndInv'
    <2>1. HandlersTypeOK'
      BY <1>7 DEF OldSubscribe, Drains, Spend, HandlersTypeOK, DeliverPhases,
                  DrainPhases, DrainRecords, RegistryTypeOK, StoreTypeOK
    <2>2. BudgetTypeOK'
      BY <1>7 DEF OldSubscribe, Drains, Spend, BudgetTypeOK, Bounds
    <2>3. /\ RegistryTypeOK'
         /\ StoreTypeOK'
         /\ NetworkTypeOK'
         /\ HistoryTypeOK'
         /\ ReplyInv'
         /\ DrainInv'
         /\ KeptInv'
      BY <1>7 DEF OldSubscribe, Drains, Spend, registry, store, network,
                  history, RegistryTypeOK, StoreTypeOK, NetworkTypeOK,
                  HistoryTypeOK, ReplyInv, DrainInv, KeptInv, QueuedIsKept,
                  AwaitedIsKept, DeadLetteredWasRefused
    <2> QED BY <2>1, <2>2, <2>3
  <1>8. ASSUME NEW b \in Blobs, NEW i \in Identities, DeliverOnline(b, i)
        PROVE  IndInv'
    <2>1. HandlersTypeOK'
      BY <1>8 DEF DeliverOnline, HandlersTypeOK, DeliverPhases, DrainPhases,
                  DrainRecords, RegistryTypeOK, StoreTypeOK
    <2>2. StoreTypeOK'
      BY <1>8 DEF DeliverOnline, store, StoreTypeOK, HandlersTypeOK
    <2>3. NetworkTypeOK'
      BY <1>8 DEF DeliverOnline, network, NetworkTypeOK, Kinds, Answers,
                  HandlersTypeOK, RegistryTypeOK
    <2>4. HistoryTypeOK'
      BY <1>8 DEF DeliverOnline, history, HistoryTypeOK, StoreTypeOK,
                  HandlersTypeOK
    <2>5. KeptInv'
      BY <1>8 DEF DeliverOnline, store, history, KeptInv, HandlersTypeOK,
                  StoreTypeOK, QueuedIsKept, AwaitedIsKept,
                  DeadLetteredWasRefused
    <2>6. /\ RegistryTypeOK'
         /\ BudgetTypeOK'
         /\ ReplyInv'
         /\ DrainInv'
      BY <1>8 DEF DeliverOnline, registry, store, network, history,
                  RegistryTypeOK, BudgetTypeOK, ReplyInv, DrainInv
    <2> QED BY <2>1, <2>2, <2>3, <2>4, <2>5, <2>6
  <1>9. ASSUME NEW b \in Blobs, NEW i \in Identities, DeliverOffline(b, i)
        PROVE  IndInv'
    <2>1. HandlersTypeOK'
      BY <1>9 DEF DeliverOffline, HandlersTypeOK, DeliverPhases, DrainPhases,
                  DrainRecords, RegistryTypeOK, StoreTypeOK
    <2>2. StoreTypeOK'
      BY <1>9 DEF DeliverOffline, store, StoreTypeOK, HandlersTypeOK
    <2>3. KeptInv'
      BY <1>9 DEF DeliverOffline, store, history, KeptInv, HandlersTypeOK,
                  StoreTypeOK, QueuedIsKept, AwaitedIsKept,
                  DeadLetteredWasRefused
    <2>4. /\ RegistryTypeOK'
         /\ NetworkTypeOK'
         /\ BudgetTypeOK'
         /\ HistoryTypeOK'
         /\ ReplyInv'
         /\ DrainInv'
      BY <1>9 DEF DeliverOffline, registry, store, network, history,
                  RegistryTypeOK, NetworkTypeOK, BudgetTypeOK, HistoryTypeOK,
                  ReplyInv, DrainInv
    <2> QED BY <2>1, <2>2, <2>3, <2>4
  <1>10. ASSUME NEW b \in Blobs, NEW s \in Sockets, NEW kind \in Kinds, NEW answer \in Answers, ClientTakes(b, s, kind, answer)
        PROVE  IndInv'
    <2>1. NetworkTypeOK'
      BY <1>10 DEF ClientTakes, network, NetworkTypeOK, Kinds, Answers,
                   HandlersTypeOK, RegistryTypeOK
    <2>2. HistoryTypeOK'
      BY <1>10 DEF ClientTakes, history, HistoryTypeOK, StoreTypeOK,
                   HandlersTypeOK
    <2>3. ReplyInv'
      BY <1>10 DEF ClientTakes, network, history, ReplyInv, NetworkTypeOK,
                   Answers
    <2>4. DrainInv'
      BY <1>10 DEF ClientTakes, history, DrainInv, HandlersTypeOK
    <2>5. KeptInv'
      BY <1>10 DEF ClientTakes, store, history, KeptInv, HandlersTypeOK,
                   StoreTypeOK, QueuedIsKept, AwaitedIsKept,
                   DeadLetteredWasRefused
    <2>6. /\ RegistryTypeOK'
         /\ HandlersTypeOK'
         /\ StoreTypeOK'
         /\ BudgetTypeOK'
      BY <1>10 DEF ClientTakes, registry, store, network, history,
                   RegistryTypeOK, HandlersTypeOK, StoreTypeOK, BudgetTypeOK
    <2> QED BY <2>1, <2>2, <2>3, <2>4, <2>5, <2>6
  <1>11. ASSUME NEW b \in Blobs, Expire(b)
        PROVE  IndInv'
    <2>1. StoreTypeOK'
      BY <1>11 DEF Expire, Spend, store, StoreTypeOK, HandlersTypeOK
    <2>2. BudgetTypeOK'
      BY <1>11 DEF Expire, Spend, BudgetTypeOK, Bounds
    <2>3. HistoryTypeOK'
      BY <1>11 DEF Expire, Spend, history, HistoryTypeOK, StoreTypeOK,
                   HandlersTypeOK
    <2>4. KeptInv'
      BY <1>11 DEF Expire, Spend, store, history, KeptInv, HandlersTypeOK,
                   StoreTypeOK, QueuedIsKept, AwaitedIsKept,
                   DeadLetteredWasRefused
    <2>5. /\ RegistryTypeOK'
         /\ HandlersTypeOK'
         /\ NetworkTypeOK'
         /\ ReplyInv'
         /\ DrainInv'
      BY <1>11 DEF Expire, Spend, registry, store, network, history,
                   RegistryTypeOK, HandlersTypeOK, NetworkTypeOK, ReplyInv,
                   DrainInv
    <2> QED BY <2>1, <2>2, <2>3, <2>4, <2>5
  <1>12. ASSUME NEW i \in Identities, SweepIdle(i)
        PROVE  IndInv'
    <2>1. RegistryTypeOK'
      BY <1>12 DEF SweepIdle, registry, RegistryTypeOK
    <2>2. /\ HandlersTypeOK'
         /\ StoreTypeOK'
         /\ NetworkTypeOK'
         /\ BudgetTypeOK'
         /\ HistoryTypeOK'
         /\ ReplyInv'
         /\ DrainInv'
         /\ KeptInv'
      BY <1>12 DEF SweepIdle, registry, store, network, history,
                   HandlersTypeOK, StoreTypeOK, NetworkTypeOK, BudgetTypeOK,
                   HistoryTypeOK, ReplyInv, DrainInv, KeptInv, QueuedIsKept,
                   AwaitedIsKept, DeadLetteredWasRefused
    <2> QED BY <2>1, <2>2
  <1>13. ASSUME Restart
        PROVE  IndInv'
    <2>1. RegistryTypeOK'
      BY <1>13 DEF Restart, Spend, NoDrain, registry, RegistryTypeOK
    <2>2. HandlersTypeOK'
      BY <1>13 DEF Restart, Spend, NoDrain, HandlersTypeOK, DeliverPhases,
                   DrainPhases, DrainRecords, RegistryTypeOK, StoreTypeOK
    <2>3. NetworkTypeOK'
      BY <1>13 DEF Restart, Spend, NoDrain, network, NetworkTypeOK, Kinds,
                   Answers, HandlersTypeOK, RegistryTypeOK
    <2>4. BudgetTypeOK'
      BY <1>13 DEF Restart, Spend, NoDrain, BudgetTypeOK, Bounds
    <2>5. HistoryTypeOK'
      BY <1>13 DEF Restart, Spend, NoDrain, history, HistoryTypeOK,
                   StoreTypeOK, HandlersTypeOK
    <2>6. ReplyInv'
      BY <1>13 DEF Restart, Spend, NoDrain, network, history, ReplyInv,
                   NetworkTypeOK, Answers
    <2>7. DrainInv'
      BY <1>13 DEF Restart, Spend, NoDrain, history, DrainInv, HandlersTypeOK
    <2>8. KeptInv'
      <3>1. AwaitedIsKept'
        BY <1>13 DEF Restart, store, KeptInv, AwaitedIsKept, HistoryTypeOK
      <3> QED
        BY <1>13, <3>1 DEF Restart, store, KeptInv, QueuedIsKept,
           DeadLetteredWasRefused
    <2>9. StoreTypeOK'
      BY <1>13 DEF Restart, Spend, registry, store, network, history,
                   StoreTypeOK
    <2> QED BY <2>1, <2>2, <2>3, <2>4, <2>5, <2>6, <2>7, <2>8, <2>9
  <1>14. ASSUME NEW b \in Blobs, CountFails(b)
        PROVE  IndInv'
    <2>1. HandlersTypeOK'
      BY <1>14 DEF CountFails, Spend, HandlersTypeOK, DeliverPhases,
                   DrainPhases, DrainRecords, RegistryTypeOK, StoreTypeOK
    <2>2. BudgetTypeOK'
      BY <1>14 DEF CountFails, Spend, BudgetTypeOK, Bounds
    <2>3. KeptInv'
      BY <1>14 DEF CountFails, Spend, store, history, KeptInv, HandlersTypeOK,
                   StoreTypeOK, QueuedIsKept, AwaitedIsKept,
                   DeadLetteredWasRefused
    <2>4. /\ RegistryTypeOK'
         /\ StoreTypeOK'
         /\ NetworkTypeOK'
         /\ HistoryTypeOK'
         /\ ReplyInv'
         /\ DrainInv'
      BY <1>14 DEF CountFails, Spend, registry, store, network, history,
                   RegistryTypeOK, StoreTypeOK, NetworkTypeOK, HistoryTypeOK,
                   ReplyInv, DrainInv
    <2> QED BY <2>1, <2>2, <2>3, <2>4
  <1>15. ASSUME NEW b \in Blobs, EnqueueFails(b)
        PROVE  IndInv'
    <2>1. HandlersTypeOK'
      BY <1>15 DEF EnqueueFails, Spend, HandlersTypeOK, DeliverPhases,
                   DrainPhases, DrainRecords, RegistryTypeOK, StoreTypeOK
    <2>2. StoreTypeOK'
      BY <1>15 DEF EnqueueFails, Spend, store, StoreTypeOK, HandlersTypeOK
    <2>3. BudgetTypeOK'
      BY <1>15 DEF EnqueueFails, Spend, BudgetTypeOK, Bounds
    <2>4. HistoryTypeOK'
      BY <1>15 DEF EnqueueFails, Spend, history, HistoryTypeOK, StoreTypeOK,
                   HandlersTypeOK
    <2>5. KeptInv'
      BY <1>15 DEF EnqueueFails, Spend, store, history, KeptInv,
                   HandlersTypeOK, StoreTypeOK, QueuedIsKept, AwaitedIsKept,
                   DeadLetteredWasRefused
    <2>6. /\ RegistryTypeOK'
         /\ NetworkTypeOK'
         /\ ReplyInv'
         /\ DrainInv'
      BY <1>15 DEF EnqueueFails, Spend, registry, store, network, history,
                   RegistryTypeOK, NetworkTypeOK, ReplyInv, DrainInv
    <2> QED BY <2>1, <2>2, <2>3, <2>4, <2>5, <2>6
  <1>16. ASSUME NEW b \in Blobs, StoreAckFails(b)
        PROVE  IndInv'
    <2>1. HandlersTypeOK'
      BY <1>16 DEF StoreAckFails, Spend, HandlersTypeOK, DeliverPhases,
                   DrainPhases, DrainRecords, RegistryTypeOK, StoreTypeOK
    <2>2. StoreTypeOK'
      BY <1>16 DEF StoreAckFails, Spend, store, StoreTypeOK, HandlersTypeOK
    <2>3. BudgetTypeOK'
      BY <1>16 DEF StoreAckFails, Spend, BudgetTypeOK, Bounds
    <2>4. KeptInv'
      BY <1>16 DEF StoreAckFails, Spend, store, history, KeptInv,
                   HandlersTypeOK, StoreTypeOK, QueuedIsKept, AwaitedIsKept,
                   DeadLetteredWasRefused
    <2>5. /\ RegistryTypeOK'
         /\ NetworkTypeOK'
         /\ HistoryTypeOK'
         /\ ReplyInv'
         /\ DrainInv'
      BY <1>16 DEF StoreAckFails, Spend, registry, store, network, history,
                   RegistryTypeOK, NetworkTypeOK, HistoryTypeOK, ReplyInv,
                   DrainInv
    <2> QED BY <2>1, <2>2, <2>3, <2>4, <2>5
  <1>17. ASSUME NEW d \in Drains, DequeueFails(d)
        PROVE  IndInv'
    <2>1. HandlersTypeOK'
      BY <1>17 DEF DequeueFails, Spend, NoDrain, HandlersTypeOK,
                   DeliverPhases, DrainPhases, DrainRecords, RegistryTypeOK,
                   StoreTypeOK
    <2>2. BudgetTypeOK'
      BY <1>17 DEF DequeueFails, Spend, NoDrain, BudgetTypeOK, Bounds
    <2>3. DrainInv'
      BY <1>17 DEF DequeueFails, Spend, NoDrain, history, DrainInv,
                   HandlersTypeOK
    <2>4. /\ RegistryTypeOK'
         /\ StoreTypeOK'
         /\ NetworkTypeOK'
         /\ HistoryTypeOK'
         /\ ReplyInv'
         /\ KeptInv'
      BY <1>17 DEF DequeueFails, Spend, registry, store, network, history,
                   RegistryTypeOK, StoreTypeOK, NetworkTypeOK, HistoryTypeOK,
                   ReplyInv, KeptInv, QueuedIsKept, AwaitedIsKept,
                   DeadLetteredWasRefused
    <2> QED BY <2>1, <2>2, <2>3, <2>4
  <1>18. ASSUME NEW d \in Drains, DrainAckFails(d)
        PROVE  IndInv'
    <2>1. HandlersTypeOK'
      <3>1. drains[d].current \in Blobs /\ Settled(d, {})
        BY <1>18 DEF DrainAckFails, DrainInv
      <3>2. drains' \in [Drains -> DrainRecords]
        BY <3>1, SettledDrains
      <3> QED
        BY <1>18, <3>2 DEF DrainAckFails, HandlersTypeOK
    <2>2. StoreTypeOK'
      BY <1>18 DEF DrainAckFails, Spend, Settled, store, StoreTypeOK,
                   HandlersTypeOK
    <2>3. BudgetTypeOK'
      BY <1>18 DEF DrainAckFails, Spend, Settled, BudgetTypeOK, Bounds
    <2>4. DrainInv'
      BY <1>18 DEF DrainAckFails, Spend, Settled, history, DrainInv,
                   HandlersTypeOK
    <2>5. KeptInv'
      BY <1>18 DEF DrainAckFails, Spend, Settled, store, history, KeptInv,
                   HandlersTypeOK, StoreTypeOK, DrainInv, QueuedIsKept,
                   AwaitedIsKept, DeadLetteredWasRefused
    <2>6. /\ RegistryTypeOK'
         /\ NetworkTypeOK'
         /\ HistoryTypeOK'
         /\ ReplyInv'
      BY <1>18 DEF DrainAckFails, Spend, Settled, registry, store, network,
                   history, RegistryTypeOK, NetworkTypeOK, HistoryTypeOK,
                   ReplyInv
    <2> QED BY <2>1, <2>2, <2>3, <2>4, <2>5, <2>6
  <1>19. ASSUME NEW d \in Drains, DrainDeadLetterFails(d)
        PROVE  IndInv'
    <2>1. HandlersTypeOK'
      <3>1. drains[d].current \in Blobs /\ Settled(d, {})
        BY <1>19 DEF DrainDeadLetterFails, DrainInv
      <3>2. drains' \in [Drains -> DrainRecords]
        BY <3>1, SettledDrains
      <3> QED
        BY <1>19, <3>2 DEF DrainDeadLetterFails, HandlersTypeOK
    <2>2. StoreTypeOK'
      BY <1>19 DEF DrainDeadLetterFails, Spend, Settled, store, StoreTypeOK,
                   HandlersTypeOK
    <2>3. BudgetTypeOK'
      BY <1>19 DEF DrainDeadLetterFails, Spend, Settled, BudgetTypeOK, Bounds
    <2>4. DrainInv'
      BY <1>19 DEF DrainDeadLetterFails, Spend, Settled, history, DrainInv,
                   HandlersTypeOK
    <2>5. KeptInv'
      BY <1>19 DEF DrainDeadLetterFails, Spend, Settled, store, history,
                   KeptInv, HandlersTypeOK, StoreTypeOK, DrainInv,
                   QueuedIsKept, AwaitedIsKept, DeadLetteredWasRefused
    <2>6. /\ RegistryTypeOK'
         /\ NetworkTypeOK'
         /\ HistoryTypeOK'
         /\ ReplyInv'
      BY <1>19 DEF DrainDeadLetterFails, Spend, Settled, registry, store,
                   network, history, RegistryTypeOK, NetworkTypeOK,
                   HistoryTypeOK, ReplyInv
    <2> QED BY <2>1, <2>2, <2>3, <2>4, <2>5, <2>6
  <1>20. ASSUME NEW d \in Drains, OldDequeueFails(d)
        PROVE  IndInv'
    <2>1. HandlersTypeOK'
      BY <1>20 DEF OldDequeueFails, Spend, HandlersTypeOK, DeliverPhases,
                   DrainPhases, DrainRecords, RegistryTypeOK, StoreTypeOK
    <2>2. BudgetTypeOK'
      BY <1>20 DEF OldDequeueFails, Spend, BudgetTypeOK, Bounds
    <2>3. /\ RegistryTypeOK'
         /\ StoreTypeOK'
         /\ NetworkTypeOK'
         /\ HistoryTypeOK'
         /\ ReplyInv'
         /\ DrainInv'
         /\ KeptInv'
      BY <1>20 DEF OldDequeueFails, Spend, registry, store, network, history,
                   RegistryTypeOK, StoreTypeOK, NetworkTypeOK, HistoryTypeOK,
                   ReplyInv, DrainInv, KeptInv, QueuedIsKept, AwaitedIsKept,
                   DeadLetteredWasRefused
    <2> QED BY <2>1, <2>2, <2>3
  <1>21. ASSUME NEW b \in Blobs, CountRealm(b)
        PROVE  IndInv'
    <2>1. HandlersTypeOK'
      BY <1>21 DEF CountRealm, HandlersTypeOK, DeliverPhases, DrainPhases,
                   DrainRecords, RegistryTypeOK, StoreTypeOK
    <2>2. KeptInv'
      BY <1>21 DEF CountRealm, store, history, KeptInv, HandlersTypeOK,
                   StoreTypeOK, QueuedIsKept, AwaitedIsKept,
                   DeadLetteredWasRefused
    <2>3. /\ RegistryTypeOK'
         /\ StoreTypeOK'
         /\ NetworkTypeOK'
         /\ BudgetTypeOK'
         /\ HistoryTypeOK'
         /\ ReplyInv'
         /\ DrainInv'
      BY <1>21 DEF CountRealm, registry, store, network, history,
                   RegistryTypeOK, StoreTypeOK, NetworkTypeOK, BudgetTypeOK,
                   HistoryTypeOK, ReplyInv, DrainInv
    <2> QED BY <2>1, <2>2, <2>3
  <1>22. ASSUME NEW b \in Blobs, CountInbox(b)
        PROVE  IndInv'
    <2>1. HandlersTypeOK'
      BY <1>22 DEF CountInbox, HandlersTypeOK, DeliverPhases, DrainPhases,
                   DrainRecords, RegistryTypeOK, StoreTypeOK
    <2>2. KeptInv'
      BY <1>22 DEF CountInbox, store, history, KeptInv, HandlersTypeOK,
                   StoreTypeOK, QueuedIsKept, AwaitedIsKept,
                   DeadLetteredWasRefused
    <2>3. /\ RegistryTypeOK'
         /\ StoreTypeOK'
         /\ NetworkTypeOK'
         /\ BudgetTypeOK'
         /\ HistoryTypeOK'
         /\ ReplyInv'
         /\ DrainInv'
      BY <1>22 DEF CountInbox, registry, store, network, history,
                   RegistryTypeOK, StoreTypeOK, NetworkTypeOK, BudgetTypeOK,
                   HistoryTypeOK, ReplyInv, DrainInv
    <2> QED BY <2>1, <2>2, <2>3
  <1>23. ASSUME NEW b \in Blobs, Enqueued(b)
        PROVE  IndInv'
    <2>1. HandlersTypeOK'
      BY <1>23 DEF Enqueued, HandlersTypeOK, DeliverPhases, DrainPhases,
                   DrainRecords, RegistryTypeOK, StoreTypeOK
    <2>2. StoreTypeOK'
      BY <1>23 DEF Enqueued, store, StoreTypeOK, HandlersTypeOK
    <2>3. HistoryTypeOK'
      BY <1>23 DEF Enqueued, history, HistoryTypeOK, StoreTypeOK,
                   HandlersTypeOK
    <2>4. KeptInv'
      BY <1>23 DEF Enqueued, store, history, KeptInv, HandlersTypeOK,
                   StoreTypeOK, QueuedIsKept, AwaitedIsKept,
                   DeadLetteredWasRefused
    <2>5. /\ RegistryTypeOK'
         /\ NetworkTypeOK'
         /\ BudgetTypeOK'
         /\ ReplyInv'
         /\ DrainInv'
      BY <1>23 DEF Enqueued, registry, store, network, history,
                   RegistryTypeOK, NetworkTypeOK, BudgetTypeOK, ReplyInv,
                   DrainInv
    <2> QED BY <2>1, <2>2, <2>3, <2>4, <2>5
  <1>24. ASSUME NEW b \in Blobs, NEW answer \in Answers, OnlineAnswered(b, answer)
        PROVE  IndInv'
    <2>1. HandlersTypeOK'
      BY <1>24 DEF OnlineAnswered, HandlersTypeOK, DeliverPhases, DrainPhases,
                   DrainRecords, RegistryTypeOK, StoreTypeOK
    <2>2. NetworkTypeOK'
      BY <1>24 DEF OnlineAnswered, network, NetworkTypeOK, Kinds, Answers,
                   HandlersTypeOK, RegistryTypeOK
    <2>3. ReplyInv'
      BY <1>24 DEF OnlineAnswered, network, history, ReplyInv, NetworkTypeOK,
                   Answers
    <2>4. KeptInv'
      <3>1. frames[b] \in Sockets
        BY <1>24 DEF OnlineAnswered, NetworkTypeOK
      <3>2. b \in processed \cup refused
        BY <1>24, <3>1 DEF OnlineAnswered, ReplyInv, Kinds, Answers
      <3> QED
        BY <1>24, <3>2 DEF OnlineAnswered, store, history, KeptInv, QueuedIsKept,
           AwaitedIsKept, DeadLetteredWasRefused, HandlersTypeOK
    <2>5. /\ RegistryTypeOK'
         /\ StoreTypeOK'
         /\ BudgetTypeOK'
         /\ HistoryTypeOK'
         /\ DrainInv'
      BY <1>24 DEF OnlineAnswered, registry, store, network, history,
                   RegistryTypeOK, StoreTypeOK, BudgetTypeOK, HistoryTypeOK,
                   DrainInv
    <2> QED BY <2>1, <2>2, <2>3, <2>4, <2>5
  <1>25. ASSUME NEW b \in Blobs, OnlineTimeout(b)
        PROVE  IndInv'
    <2>1. HandlersTypeOK'
      BY <1>25 DEF OnlineTimeout, Unwatch, HandlersTypeOK, DeliverPhases,
                   DrainPhases, DrainRecords, RegistryTypeOK, StoreTypeOK
    <2>2. NetworkTypeOK'
      BY <1>25 DEF OnlineTimeout, Unwatch, network, NetworkTypeOK, Kinds,
                   Answers, HandlersTypeOK, RegistryTypeOK
    <2>3. ReplyInv'
      BY <1>25 DEF OnlineTimeout, Unwatch, network, history, ReplyInv,
                   NetworkTypeOK, Answers
    <2>4. KeptInv'
      BY <1>25 DEF OnlineTimeout, Unwatch, store, history, KeptInv,
                   HandlersTypeOK, StoreTypeOK, QueuedIsKept, AwaitedIsKept,
                   DeadLetteredWasRefused
    <2>5. /\ RegistryTypeOK'
         /\ StoreTypeOK'
         /\ BudgetTypeOK'
         /\ HistoryTypeOK'
         /\ DrainInv'
      BY <1>25 DEF OnlineTimeout, Unwatch, registry, store, network, history,
                   RegistryTypeOK, StoreTypeOK, BudgetTypeOK, HistoryTypeOK,
                   DrainInv
    <2> QED BY <2>1, <2>2, <2>3, <2>4, <2>5
  <1>26. ASSUME NEW b \in Blobs, StoreAck(b)
        PROVE  IndInv'
    <2>1. HandlersTypeOK'
      BY <1>26 DEF StoreAck, HandlersTypeOK, DeliverPhases, DrainPhases,
                   DrainRecords, RegistryTypeOK, StoreTypeOK
    <2>2. StoreTypeOK'
      BY <1>26 DEF StoreAck, store, StoreTypeOK, HandlersTypeOK
    <2>3. KeptInv'
      BY <1>26 DEF StoreAck, store, history, KeptInv, HandlersTypeOK,
                   StoreTypeOK, QueuedIsKept, AwaitedIsKept,
                   DeadLetteredWasRefused
    <2>4. /\ RegistryTypeOK'
         /\ NetworkTypeOK'
         /\ BudgetTypeOK'
         /\ HistoryTypeOK'
         /\ ReplyInv'
         /\ DrainInv'
      BY <1>26 DEF StoreAck, registry, store, network, history,
                   RegistryTypeOK, NetworkTypeOK, BudgetTypeOK, HistoryTypeOK,
                   ReplyInv, DrainInv
    <2> QED BY <2>1, <2>2, <2>3, <2>4
  <1>27. ASSUME NEW d \in Drains, Dequeued(d)
        PROVE  IndInv'
    <2>1. HandlersTypeOK'
      <3>1. PICK batch \in Batches(Inbox(d[2])) :
              drains' = [drains EXCEPT ![d].phase = "next",
                                       ![d].left = batch,
                                       ![d].beyond = Inbox(d[2]) \ batch]
        BY <1>27 DEF Dequeued
      <3>2. batch \subseteq Blobs /\ Inbox(d[2]) \subseteq Blobs
        BY DEF Batches, Inbox, StoreTypeOK
      <3>3. drains'[d] \in DrainRecords
        BY <3>1, <3>2 DEF HandlersTypeOK, DrainRecords, DrainPhases
      <3>4. drains' = [drains EXCEPT ![d] = drains'[d]]
        BY <3>1 DEF HandlersTypeOK
      <3> QED
        BY <1>27, <3>3, <3>4 DEF Dequeued, HandlersTypeOK
    <2>2. DrainInv'
      BY <1>27 DEF Dequeued, Batches, Inbox, history, DrainInv, HandlersTypeOK
    <2>3. /\ RegistryTypeOK'
         /\ StoreTypeOK'
         /\ NetworkTypeOK'
         /\ BudgetTypeOK'
         /\ HistoryTypeOK'
         /\ ReplyInv'
         /\ KeptInv'
      BY <1>27 DEF Dequeued, Batches, Inbox, registry, store, network,
                   history, RegistryTypeOK, StoreTypeOK, NetworkTypeOK,
                   BudgetTypeOK, HistoryTypeOK, ReplyInv, KeptInv,
                   QueuedIsKept, AwaitedIsKept, DeadLetteredWasRefused
    <2> QED BY <2>1, <2>2, <2>3
  <1>28. ASSUME NEW d \in Drains, NEW b \in Blobs, DrainNext(d, b)
        PROVE  IndInv'
    <2>1. HandlersTypeOK'
      <3>1. drains'[d] \in DrainRecords
        BY <1>28 DEF DrainNext, HandlersTypeOK, DrainRecords, DrainPhases
      <3>2. drains' = [drains EXCEPT ![d] = drains'[d]]
        BY <1>28 DEF DrainNext, HandlersTypeOK
      <3> QED
        BY <1>28, <3>1, <3>2 DEF DrainNext, HandlersTypeOK
    <2>2. NetworkTypeOK'
      BY <1>28 DEF DrainNext, network, NetworkTypeOK, Kinds, Answers,
                   HandlersTypeOK, RegistryTypeOK
    <2>3. DrainInv'
      <3>1. CASE d[1] \in connected
        BY <1>28, <3>1 DEF DrainNext, DrainInv, HandlersTypeOK, DrainRecords, history
      <3>2. CASE d[1] \notin connected
        BY <1>28, <3>2 DEF DrainNext, DrainInv, HandlersTypeOK, DrainRecords, history
      <3> QED BY <3>1, <3>2
    <2>4. /\ RegistryTypeOK'
         /\ StoreTypeOK'
         /\ BudgetTypeOK'
         /\ HistoryTypeOK'
         /\ ReplyInv'
         /\ KeptInv'
      BY <1>28 DEF DrainNext, registry, store, network, history,
                   RegistryTypeOK, StoreTypeOK, BudgetTypeOK, HistoryTypeOK,
                   ReplyInv, KeptInv, QueuedIsKept, AwaitedIsKept,
                   DeadLetteredWasRefused
    <2> QED BY <2>1, <2>2, <2>3, <2>4
  <1>29. ASSUME NEW d \in Drains, NEW answer \in Answers, DrainAnswered(d, answer)
        PROVE  IndInv'
    <2>1. HandlersTypeOK'
      <3>1. drains'[d] \in DrainRecords
        BY <1>29 DEF DrainAnswered, HandlersTypeOK, DrainRecords, DrainPhases
      <3>2. drains' = [drains EXCEPT ![d] = drains'[d]]
        BY <1>29 DEF DrainAnswered, HandlersTypeOK
      <3> QED
        BY <1>29, <3>1, <3>2 DEF DrainAnswered, HandlersTypeOK
    <2>2. NetworkTypeOK'
      BY <1>29 DEF DrainAnswered, network, NetworkTypeOK, Kinds, Answers,
                   HandlersTypeOK, RegistryTypeOK
    <2>3. ReplyInv'
      BY <1>29 DEF DrainAnswered, network, history, ReplyInv, NetworkTypeOK,
                   Answers
    <2>4. DrainInv'
      <3>1. d[1] \in Sockets /\ drains[d].current \in Blobs
        BY <1>29 DEF DrainAnswered, DrainInv, Drains
      <3>2. CASE answer = "ok"
        <4>1. drains[d].current \in processed
          BY <1>29, <3>1, <3>2 DEF DrainAnswered, ReplyInv, Kinds
        <4> QED BY <1>29, <3>2, <4>1 DEF DrainAnswered, DrainInv, HandlersTypeOK,
                    DrainRecords, history
      <3>3. CASE answer = "refused"
        <4>1. drains[d].current \in refused
          BY <1>29, <3>1, <3>3 DEF DrainAnswered, ReplyInv, Kinds
        <4> QED BY <1>29, <3>3, <4>1 DEF DrainAnswered, DrainInv, HandlersTypeOK,
                    DrainRecords, history
      <3> QED BY <3>2, <3>3 DEF Answers
    <2>5. /\ RegistryTypeOK'
         /\ StoreTypeOK'
         /\ BudgetTypeOK'
         /\ HistoryTypeOK'
         /\ KeptInv'
      BY <1>29 DEF DrainAnswered, registry, store, network, history,
                   RegistryTypeOK, StoreTypeOK, BudgetTypeOK, HistoryTypeOK,
                   KeptInv, QueuedIsKept, AwaitedIsKept,
                   DeadLetteredWasRefused
    <2> QED BY <2>1, <2>2, <2>3, <2>4, <2>5
  <1>30. ASSUME NEW d \in Drains, DrainTimeout(d)
        PROVE  IndInv'
    <2>1. HandlersTypeOK'
      <3>1. drains[d].current \in Blobs /\ Settled(d, {drains[d].current})
        BY <1>30 DEF DrainTimeout, DrainInv
      <3>2. drains' \in [Drains -> DrainRecords]
        BY <3>1, SettledDrains
      <3> QED
        BY <1>30, <3>2 DEF DrainTimeout, HandlersTypeOK
    <2>2. NetworkTypeOK'
      BY <1>30 DEF DrainTimeout, Unwatch, Settled, network, NetworkTypeOK,
                   Kinds, Answers, HandlersTypeOK, RegistryTypeOK
    <2>3. ReplyInv'
      BY <1>30 DEF DrainTimeout, Unwatch, Settled, network, history, ReplyInv,
                   NetworkTypeOK, Answers
    <2>4. DrainInv'
      BY <1>30 DEF DrainTimeout, Unwatch, Settled, history, DrainInv,
                   HandlersTypeOK
    <2>5. /\ RegistryTypeOK'
         /\ StoreTypeOK'
         /\ BudgetTypeOK'
         /\ HistoryTypeOK'
         /\ KeptInv'
      BY <1>30 DEF DrainTimeout, Unwatch, Settled, registry, store, network,
                   history, RegistryTypeOK, StoreTypeOK, BudgetTypeOK,
                   HistoryTypeOK, KeptInv, QueuedIsKept, AwaitedIsKept,
                   DeadLetteredWasRefused
    <2> QED BY <2>1, <2>2, <2>3, <2>4, <2>5
  <1>31. ASSUME NEW d \in Drains, DrainAcked(d)
        PROVE  IndInv'
    <2>1. HandlersTypeOK'
      <3>1. drains[d].current \in Blobs /\ Settled(d, {})
        BY <1>31 DEF DrainAcked, DrainInv
      <3>2. drains' \in [Drains -> DrainRecords]
        BY <3>1, SettledDrains
      <3> QED
        BY <1>31, <3>2 DEF DrainAcked, HandlersTypeOK
    <2>2. StoreTypeOK'
      BY <1>31 DEF DrainAcked, Settled, store, StoreTypeOK, HandlersTypeOK
    <2>3. DrainInv'
      BY <1>31 DEF DrainAcked, Settled, history, DrainInv, HandlersTypeOK
    <2>4. KeptInv'
      BY <1>31 DEF DrainAcked, Settled, store, history, KeptInv,
                   HandlersTypeOK, StoreTypeOK, DrainInv, QueuedIsKept,
                   AwaitedIsKept, DeadLetteredWasRefused
    <2>5. /\ RegistryTypeOK'
         /\ NetworkTypeOK'
         /\ BudgetTypeOK'
         /\ HistoryTypeOK'
         /\ ReplyInv'
      BY <1>31 DEF DrainAcked, Settled, registry, store, network, history,
                   RegistryTypeOK, NetworkTypeOK, BudgetTypeOK, HistoryTypeOK,
                   ReplyInv
    <2> QED BY <2>1, <2>2, <2>3, <2>4, <2>5
  <1>32. ASSUME NEW d \in Drains, DrainDeadLettered(d)
        PROVE  IndInv'
    <2>1. HandlersTypeOK'
      <3>1. drains[d].current \in Blobs /\ Settled(d, {})
        BY <1>32 DEF DrainDeadLettered, DrainInv
      <3>2. drains' \in [Drains -> DrainRecords]
        BY <3>1, SettledDrains
      <3> QED
        BY <1>32, <3>2 DEF DrainDeadLettered, HandlersTypeOK
    <2>2. StoreTypeOK'
      BY <1>32 DEF DrainDeadLettered, Settled, store, StoreTypeOK,
                   HandlersTypeOK
    <2>3. DrainInv'
      BY <1>32 DEF DrainDeadLettered, Settled, history, DrainInv,
                   HandlersTypeOK
    <2>4. KeptInv'
      BY <1>32 DEF DrainDeadLettered, Settled, store, history, KeptInv,
                   HandlersTypeOK, StoreTypeOK, DrainInv, QueuedIsKept,
                   AwaitedIsKept, DeadLetteredWasRefused
    <2>5. /\ RegistryTypeOK'
         /\ NetworkTypeOK'
         /\ BudgetTypeOK'
         /\ HistoryTypeOK'
         /\ ReplyInv'
      BY <1>32 DEF DrainDeadLettered, Settled, registry, store, network,
                   history, RegistryTypeOK, NetworkTypeOK, BudgetTypeOK,
                   HistoryTypeOK, ReplyInv
    <2> QED BY <2>1, <2>2, <2>3, <2>4, <2>5
  <1>33. ASSUME NEW d \in Drains, DrainEnds(d)
        PROVE  IndInv'
    <2>1. HandlersTypeOK'
      BY <1>33 DEF DrainEnds, NoDrain, HandlersTypeOK, DeliverPhases,
                   DrainPhases, DrainRecords, RegistryTypeOK, StoreTypeOK
    <2>2. DrainInv'
      BY <1>33 DEF DrainEnds, NoDrain, history, DrainInv, HandlersTypeOK
    <2>3. /\ RegistryTypeOK'
         /\ StoreTypeOK'
         /\ NetworkTypeOK'
         /\ BudgetTypeOK'
         /\ HistoryTypeOK'
         /\ ReplyInv'
         /\ KeptInv'
      BY <1>33 DEF DrainEnds, registry, store, network, history,
                   RegistryTypeOK, StoreTypeOK, NetworkTypeOK, BudgetTypeOK,
                   HistoryTypeOK, ReplyInv, KeptInv, QueuedIsKept,
                   AwaitedIsKept, DeadLetteredWasRefused
    <2> QED BY <2>1, <2>2, <2>3
  <1>34. ASSUME NEW d \in Drains, OldDequeued(d)
        PROVE  IndInv'
    <2>1. HandlersTypeOK'
      BY <1>34 DEF OldDequeued, Batches, Inbox, Drains, HandlersTypeOK,
                   DeliverPhases, DrainPhases, DrainRecords, RegistryTypeOK,
                   StoreTypeOK
    <2>2. NetworkTypeOK'
      <3>1. PICK batch \in Batches(Inbox(d[2])) :
              wire' = IF d[1] \in connected
                      THEN wire \cup (batch \X {d[1]} \X {"bare"}) ELSE wire
        BY <1>34 DEF OldDequeued
      <3>2. batch \subseteq Blobs
        BY DEF Batches, Inbox, StoreTypeOK
      <3>3. d[1] \in Sockets
        BY DEF Drains
      <3> QED
        BY <1>34, <3>1, <3>2, <3>3 DEF OldDequeued, NetworkTypeOK, Kinds
    <2>3. HistoryTypeOK'
      BY <1>34 DEF OldDequeued, Batches, Inbox, Drains, history,
                   HistoryTypeOK, StoreTypeOK, HandlersTypeOK
    <2>4. KeptInv'
      BY <1>34 DEF OldDequeued, Batches, Inbox, Drains, store, history,
                   KeptInv, HandlersTypeOK, StoreTypeOK, QueuedIsKept,
                   AwaitedIsKept, DeadLetteredWasRefused
    <2>5. /\ RegistryTypeOK'
         /\ StoreTypeOK'
         /\ BudgetTypeOK'
         /\ ReplyInv'
         /\ DrainInv'
      BY <1>34 DEF OldDequeued, Batches, Inbox, Drains, registry, store,
                   network, history, RegistryTypeOK, StoreTypeOK,
                   BudgetTypeOK, ReplyInv, DrainInv
    <2> QED BY <2>1, <2>2, <2>3, <2>4, <2>5
  <1>35. CASE UNCHANGED vars
    BY <1>35 DEF vars, registry, store, network, history, RegistryTypeOK,
                 HandlersTypeOK, StoreTypeOK, NetworkTypeOK, BudgetTypeOK,
                 HistoryTypeOK, ReplyInv, DrainInv, KeptInv, QueuedIsKept,
                 AwaitedIsKept, DeadLetteredWasRefused
  <1> QED
    BY <1>1, <1>2, <1>3, <1>4, <1>5, <1>6, <1>7, <1>8, <1>9, <1>10, <1>11,
       <1>12, <1>13, <1>14, <1>15, <1>16, <1>17, <1>18, <1>19, <1>20, <1>21,
       <1>22, <1>23, <1>24, <1>25, <1>26, <1>27, <1>28, <1>29, <1>30, <1>31,
       <1>32, <1>33, <1>34, <1>35
    DEF Next, Environment, Failure, DeliverStep, DrainStep

(* The initial states satisfy the inductive invariant. *)
LEMMA IndInit == ASSUME Init PROVE IndInv
  <1> USE DEF Init
  <1>1. RegistryTypeOK /\ StoreTypeOK /\ NetworkTypeOK /\ HistoryTypeOK
    BY DEF RegistryTypeOK, StoreTypeOK, NetworkTypeOK, HistoryTypeOK
  <1>2. HandlersTypeOK
    BY DEF HandlersTypeOK, NoDrain, DrainRecords, DeliverPhases,
           DrainPhases
  <1>3. BudgetTypeOK
    BY SealedBoundsAssumption DEF BudgetTypeOK, Bounds
  <1>4. ReplyInv /\ DrainInv
    BY DEF ReplyInv, DrainInv, NoDrain
  <1>5. KeptInv
    BY DEF KeptInv, QueuedIsKept, AwaitedIsKept, DeadLetteredWasRefused
  <1> QED BY <1>1, <1>2, <1>3, <1>4, <1>5 DEF IndInv, TypeOK

(* The inductive invariant holds of every reachable state. *)
THEOREM InboxInvariance == Spec => []IndInv
  <1>1. Init => IndInv
    BY IndInit
  <1>2. IndInv /\ [Next]_vars => IndInv'
    BY IndStep
  <1> QED BY <1>1, <1>2, PTL DEF Spec

(* The state of the sealed inbox is of its type, for any recipients,       *)
(* sockets and blobs: identities and capabilities belong to open sockets,  *)
(* and every drain is a drain record.                                      *)
THEOREM InboxTypeCorrect == Spec => []TypeOK
  <1>1. IndInv => TypeOK
    BY DEF IndInv
  <1> QED BY <1>1, InboxInvariance, PTL

(* A sender that was told `queued' can rely on it: SEALED_SUBSCRIBE takes  *)
(* the blob out of the queue only when a client had it, over any overlap   *)
(* of drains, failure of the store, and restart.                           *)
THEOREM QueuedBlobsAreKept == Spec => []QueuedIsKept
  <1>1. IndInv => QueuedIsKept
    BY DEF IndInv, KeptInv
  <1> QED BY <1>1, InboxInvariance, PTL

(* A blob that the online branch emitted with an ACK is not lost but by a  *)
(* failing requeue or a restart.                                           *)
THEOREM AwaitedBlobsAreKept == Spec => []AwaitedIsKept
  <1>1. IndInv => AwaitedIsKept
    BY DEF IndInv, KeptInv
  <1> QED BY <1>1, InboxInvariance, PTL

(* SEALED_SUBSCRIBE dead-letters only what a client refused. *)
THEOREM OnlyRefusedIsDeadLettered == Spec => []DeadLetteredWasRefused
  <1>1. IndInv => DeadLetteredWasRefused
    BY DEF IndInv, KeptInv
  <1> QED BY <1>1, InboxInvariance, PTL

(* The `more' that a drain answers is honest. *)
THEOREM MoreIsHonest == Spec => []NoMoreMeansDone
  <1>1. IndInv => NoMoreMeansDone
    BY DEF IndInv, DrainInv, NoMoreMeansDone, More
  <1> QED BY <1>1, InboxInvariance, PTL
=============================================================================
