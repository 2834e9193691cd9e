-------------------------- MODULE Registry_proofs --------------------------
(***************************************************************************)
(* Proofs about Registry, for any sets of consumers, producers, events,    *)
(* sockets and client ids.                                                 *)
(***************************************************************************)
EXTENDS Registry, TLAPS

USE NullAssumption, AllPublishersAssumption

(* A name's last taker is connected or recorded as gone. *)
HolderInv == \A c \in Consumers : holder[c] \in open \cup {Null}

(* A producer that a consumer's subscribeTos names is listed by one of the *)
(* consumer's subscriptions, unless the sweep removed that producer: what  *)
(* getSubscribersByProducer has to rely on.                                *)
ListedInv ==
  \A c \in Consumers : \A q \in GetConsumerMetaInfo(c).subscribeTos \ swept :
     \E k \in Keys : <<k, c>> \in listed /\ k[2] = q

(* What was subscribed to is in both tables, unless the sweep removed the  *)
(* producer it names.                                                      *)
RoutedInv ==
  \A x \in wants : x[1][2] \notin swept =>
     x \in subs /\ x[1][2] \in GetConsumerMetaInfo(x[2]).subscribeTos

IndInv ==
  /\ TypeOK /\ HolderIsReachable /\ NamedSubscribersAreKnown
  /\ HolderInv /\ ListedInv /\ RoutedInv

(* The second part of a key is a name. *)
LEMMA KeyNames == \A k \in Keys : k[2] \in Names
  BY DEF Keys, Names

(* A missing entry is created empty, and either way it is a meta record. *)
LEMMA MetaType ==
  ASSUME TypeOK
  PROVE  /\ \A c \in Consumers : GetConsumerMetaInfo(c) \in ConsumerMeta
         /\ \A p \in Producers : GetProducerMetaInfo(p) \in ProducerMeta
  BY DEF TypeOK, GetConsumerMetaInfo, GetProducerMetaInfo, ConsumerMeta,
         ProducerMeta

(* The initial states satisfy the invariant. *)
LEMMA RegistryInit == ASSUME Init PROVE IndInv
  BY DEF Init, IndInv, TypeOK, HolderIsReachable, NamedSubscribersAreKnown,
         HolderInv, ListedInv, RoutedInv, ConsumerSocket, ProducerSocket,
         GetConsumerMetaInfo, GetProducerMetaInfo

(* Giving up the names of a socket clears that socket and nothing else. *)
LEMMA Freed ==
  ASSUME TypeOK, NEW s
  PROVE  /\ FreedConsumers(s) \in [Consumers -> ConsumerMeta \cup {Null}]
         /\ FreedProducers(s) \in [Producers -> ProducerMeta \cup {Null}]
         /\ \A c \in Consumers :
              /\ FreedConsumers(s)[c] = Null <=> cons[c] = Null
              /\ cons[c] # Null =>
                   /\ FreedConsumers(s)[c].subscribeTos = cons[c].subscribeTos
                   /\ FreedConsumers(s)[c].socket =
                        IF cons[c].socket = s THEN Null ELSE cons[c].socket
         /\ \A p \in Producers :
              /\ FreedProducers(s)[p] = Null <=> prod[p] = Null
              /\ prod[p] # Null =>
                   /\ FreedProducers(s)[p].subscribers = prod[p].subscribers
                   /\ FreedProducers(s)[p].socket =
                        IF prod[p].socket = s THEN Null ELSE prod[p].socket
  <1>1. ASSUME NEW c \in Consumers, cons[c] # Null, cons[c].socket = s
        PROVE  /\ FreedConsumers(s)[c] \in ConsumerMeta
               /\ FreedConsumers(s)[c].subscribeTos = cons[c].subscribeTos
               /\ FreedConsumers(s)[c].socket = Null
    BY <1>1 DEF TypeOK, FreedConsumers, ConsumerMeta
  <1>2. ASSUME NEW c \in Consumers, cons[c] = Null \/ cons[c].socket # s
        PROVE  FreedConsumers(s)[c] = cons[c]
    BY <1>2 DEF FreedConsumers
  <1>3. ASSUME NEW p \in Producers, prod[p] # Null, prod[p].socket = s
        PROVE  /\ FreedProducers(s)[p] \in ProducerMeta
               /\ FreedProducers(s)[p].subscribers = prod[p].subscribers
               /\ FreedProducers(s)[p].socket = Null
    BY <1>3 DEF TypeOK, FreedProducers, ProducerMeta
  <1>4. ASSUME NEW p \in Producers, prod[p] = Null \/ prod[p].socket # s
        PROVE  FreedProducers(s)[p] = prod[p]
    BY <1>4 DEF FreedProducers
  <1>5. FreedConsumers(s) \in [Consumers -> ConsumerMeta \cup {Null}]
    BY <1>1, <1>2 DEF TypeOK, FreedConsumers
  <1>6. FreedProducers(s) \in [Producers -> ProducerMeta \cup {Null}]
    BY <1>3, <1>4 DEF TypeOK, FreedProducers
  <1> QED BY <1>1, <1>2, <1>3, <1>4, <1>5, <1>6

(* What says nothing about the next state is kept by a step that changes   *)
(* nothing.                                                                *)
LEMMA Stutter == ASSUME IndInv, UNCHANGED vars PROVE IndInv'
  <1>0. UNCHANGED <<open, cons, prod, subs, listed, wants, holder, announced,
                    swept>>
    BY DEF vars, state, history
  <1>1. TypeOK'
    BY <1>0 DEF IndInv, TypeOK
  <1>2. HolderIsReachable' /\ HolderInv'
    BY <1>0 DEF IndInv, HolderIsReachable, HolderInv, ConsumerSocket,
         ProducerSocket, GetConsumerMetaInfo, GetProducerMetaInfo
  <1>3. NamedSubscribersAreKnown' /\ ListedInv' /\ RoutedInv'
    BY <1>0 DEF IndInv, NamedSubscribersAreKnown, ListedInv, RoutedInv,
         ProducerSocket, GetConsumerMetaInfo, GetProducerMetaInfo
  <1> QED BY <1>1, <1>2, <1>3 DEF IndInv

(* CONSUMER's and SUBSCRIBE's entries are meta records. *)
LEMMA SetupType ==
  ASSUME TypeOK, NEW s \in Sockets, NEW c \in Consumers, NEW id \in Ids
  PROVE  /\ SetupConsumer(s, c, id) \in ConsumerMeta
         /\ SetupConsumer(s, c, id).socket = s
         /\ SetupConsumer(s, c, id).subscribeTos =
              GetConsumerMetaInfo(c).subscribeTos
  BY MetaType DEF SetupConsumer, ConsumerMeta

(* A disconnect frees the names of the socket, and only its own. *)
LEMMA DisconnectStep ==
  ASSUME IndInv, NEW s \in Sockets, Disconnect(s)
  PROVE  IndInv'
  <1> USE DEF IndInv
  <1>0. /\ cons' = FreedConsumers(s) /\ prod' = FreedProducers(s)
        /\ open' = open \ {s} /\ holder' = HoldersBut(s)
        /\ UNCHANGED <<subs, listed, wants, announced, swept>>
    BY DEF Disconnect
  <1>1. TypeOK'
    <2>1. holder' \in [Consumers -> Sockets \cup {Null}]
      BY <1>0 DEF HoldersBut, TypeOK
    <2>2. \A x \in subs' : cons'[x[2]] # Null
      BY <1>0, Freed DEF TypeOK
    <2> QED BY <1>0, <2>1, <2>2, Freed DEF TypeOK
  <1>2. /\ \A c \in Consumers :
             /\ ConsumerSocket(c)' = IF ConsumerSocket(c) = s THEN Null
                                     ELSE ConsumerSocket(c)
             /\ GetConsumerMetaInfo(c).subscribeTos' =
                  GetConsumerMetaInfo(c).subscribeTos
        /\ \A p \in Producers :
             ProducerSocket(p)' = IF ProducerSocket(p) = s THEN Null
                                  ELSE ProducerSocket(p)
    BY <1>0, Freed DEF GetConsumerMetaInfo, GetProducerMetaInfo,
                       ConsumerSocket, ProducerSocket
  <1>3. \A c \in Consumers :
           holder'[c] = IF holder[c] = s THEN Null ELSE holder[c]
    BY <1>0 DEF HoldersBut
  <1>4. HolderIsReachable' /\ HolderInv'
    BY <1>0, <1>2, <1>3 DEF HolderIsReachable, HolderInv, TypeOK
  <1>5. NamedSubscribersAreKnown'
    <2> SUFFICES ASSUME NEW p \in announced \ swept, NEW c \in Consumers,
                        ProducerSocket(p)' # Null,
                        p \in GetConsumerMetaInfo(c).subscribeTos
                 PROVE  c \in prod'[p].subscribers
      BY <1>0, <1>2 DEF NamedSubscribersAreKnown
    <2>1. p \in Producers
      BY DEF TypeOK
    <2>2. ProducerSocket(p) # Null
      BY <1>2, <2>1
    <2>3. c \in prod[p].subscribers
      BY <2>2 DEF NamedSubscribersAreKnown
    <2>4. prod[p] # Null
      BY <2>2 DEF ProducerSocket, GetProducerMetaInfo
    <2> QED BY <1>0, <2>1, <2>3, <2>4, Freed
  <1>6. ListedInv'
    BY <1>0, <1>2 DEF ListedInv
  <1>7. RoutedInv'
    BY <1>0, <1>2 DEF RoutedInv, TypeOK
  <1> QED BY <1>1, <1>4, <1>5, <1>6, <1>7

(* A registration frees the names of the displaced socket before it takes  *)
(* its own.                                                                *)
LEMMA RegisterConsumerStep ==
  ASSUME IndInv, NEW s \in Sockets, NEW c \in Consumers,
         NEW id \in Instances \cup {EchoedName, Null},
         RegisterConsumer(s, c, id)
  PROVE  IndInv'
  <1> USE DEF IndInv
  <1> DEFINE held == IF Displaces(s, c) THEN cons[c].socket ELSE Null
             new  == IF id = Null THEN s ELSE id
  <1>0. /\ s \in open /\ open' = open \ {held}
        /\ cons' = [FreedConsumers(held) EXCEPT ![c] = SetupConsumer(s, c, new)]
        /\ prod' = FreedProducers(held)
        /\ holder' = [HoldersBut(held) EXCEPT ![c] = s]
        /\ UNCHANGED <<subs, listed, wants, announced, swept>>
    BY DEF RegisterConsumer
  <1>a. held # s /\ (held = Null \/ (held \in open /\ held = ConsumerSocket(c)))
    BY <1>0 DEF Displaces, TypeOK, ConsumerSocket, GetConsumerMetaInfo
  <1>b. new \in Ids
    BY DEF Ids
  <1>c. /\ SetupConsumer(s, c, new) \in ConsumerMeta
        /\ SetupConsumer(s, c, new).socket = s
        /\ SetupConsumer(s, c, new).subscribeTos =
             GetConsumerMetaInfo(c).subscribeTos
    BY <1>b, SetupType
  <1> HIDE DEF held, new
  <1>d. /\ cons' \in [Consumers -> ConsumerMeta \cup {Null}]
        /\ cons'[c] = SetupConsumer(s, c, new)
        /\ \A d \in Consumers : d # c => cons'[d] = FreedConsumers(held)[d]
    BY <1>0, <1>c, Freed
  <1>e. /\ holder' \in [Consumers -> Sockets \cup {Null}]
        /\ holder'[c] = s
        /\ \A d \in Consumers : d # c =>
              holder'[d] = IF holder[d] = held THEN Null ELSE holder[d]
    BY <1>0 DEF HoldersBut, TypeOK
  <1>1. TypeOK'
    <2>1. \A x \in subs' : cons'[x[2]] # Null
      BY <1>0, <1>c, <1>d, Freed DEF TypeOK
    <2> QED BY <1>0, <1>d, <1>e, <2>1, Freed DEF TypeOK
  <1>2. /\ \A d \in Consumers :
             /\ ConsumerSocket(d)' =
                  IF d = c THEN s
                  ELSE IF ConsumerSocket(d) = held THEN Null
                  ELSE ConsumerSocket(d)
             /\ GetConsumerMetaInfo(d).subscribeTos' =
                  GetConsumerMetaInfo(d).subscribeTos
        /\ \A p \in Producers :
             ProducerSocket(p)' = IF ProducerSocket(p) = held THEN Null
                                  ELSE ProducerSocket(p)
    <2>1. /\ ConsumerSocket(c)' = s
          /\ GetConsumerMetaInfo(c).subscribeTos' =
               GetConsumerMetaInfo(c).subscribeTos
      BY <1>c, <1>d DEF GetConsumerMetaInfo, ConsumerSocket
    <2>2. ASSUME NEW d \in Consumers, d # c
          PROVE  /\ ConsumerSocket(d)' =
                      IF ConsumerSocket(d) = held THEN Null
                      ELSE ConsumerSocket(d)
                 /\ GetConsumerMetaInfo(d).subscribeTos' =
                      GetConsumerMetaInfo(d).subscribeTos
      BY <1>d, <2>2, Freed DEF GetConsumerMetaInfo, ConsumerSocket
    <2>3. \A p \in Producers :
             ProducerSocket(p)' = IF ProducerSocket(p) = held THEN Null
                                  ELSE ProducerSocket(p)
      BY <1>0, Freed DEF GetProducerMetaInfo, ProducerSocket
    <2> QED BY <2>1, <2>2, <2>3
  <1>4. HolderIsReachable' /\ HolderInv'
    BY <1>0, <1>2, <1>a, <1>e DEF HolderIsReachable, HolderInv, TypeOK
  <1>5. NamedSubscribersAreKnown'
    <2> SUFFICES ASSUME NEW p \in announced \ swept, NEW d \in Consumers,
                        ProducerSocket(p)' # Null,
                        p \in GetConsumerMetaInfo(d).subscribeTos
                 PROVE  d \in prod'[p].subscribers
      BY <1>0, <1>2 DEF NamedSubscribersAreKnown
    <2>1. p \in Producers
      BY DEF TypeOK
    <2>2. ProducerSocket(p) # Null
      BY <1>2, <2>1
    <2>3. d \in prod[p].subscribers
      BY <2>2 DEF NamedSubscribersAreKnown
    <2>4. prod[p] # Null
      BY <2>2 DEF ProducerSocket, GetProducerMetaInfo
    <2> QED BY <1>0, <2>1, <2>3, <2>4, Freed
  <1>6. ListedInv'
    BY <1>0, <1>2 DEF ListedInv
  <1>7. RoutedInv'
    BY <1>0, <1>2 DEF RoutedInv, TypeOK
  <1> QED BY <1>1, <1>4, <1>5, <1>6, <1>7

(* PRODUCER makes every consumer whose subscriptions list the producer one *)
(* of its subscribers.                                                     *)
LEMMA RegisterProducerStep ==
  ASSUME IndInv, NEW s \in Sockets, NEW p \in Producers, RegisterProducer(s, p)
  PROVE  IndInv'
  <1> USE DEF IndInv
  <1> DEFINE new == [GetProducerMetaInfo(p) EXCEPT
                       !.socket = s, !.bound = TRUE,
                       !.subscribers = @ \cup GetSubscribersByProducer(p)]
  <1>0. /\ s \in open /\ prod' = [prod EXCEPT ![p] = new]
        /\ announced' = announced \cup {p}
        /\ UNCHANGED <<open, cons, subs, listed, wants, holder, swept>>
    BY DEF RegisterProducer
  <1>a. GetSubscribersByProducer(p) \subseteq Consumers
    BY DEF GetSubscribersByProducer
  <1>b. /\ new \in ProducerMeta /\ new.socket = s
        /\ GetSubscribersByProducer(p) \subseteq new.subscribers
    BY <1>a, MetaType DEF ProducerMeta
  <1> HIDE DEF new
  <1>1. TypeOK'
    BY <1>0, <1>b DEF TypeOK
  <1>c. /\ \A c \in Consumers :
             /\ ConsumerSocket(c)' = ConsumerSocket(c)
             /\ GetConsumerMetaInfo(c)' = GetConsumerMetaInfo(c)
        /\ ProducerSocket(p)' = s
        /\ prod'[p] = new
        /\ \A q \in Producers : q # p =>
             prod'[q] = prod[q] /\ ProducerSocket(q)' = ProducerSocket(q)
    BY <1>0, <1>b DEF TypeOK, ConsumerSocket, GetConsumerMetaInfo,
                      ProducerSocket, GetProducerMetaInfo
  <1>2. HolderIsReachable' /\ HolderInv'
    BY <1>0, <1>c DEF HolderIsReachable, HolderInv
  <1>3. NamedSubscribersAreKnown'
    <2> SUFFICES ASSUME NEW q \in announced' \ swept, NEW c \in Consumers,
                        ProducerSocket(q)' # Null,
                        q \in GetConsumerMetaInfo(c).subscribeTos
                 PROVE  c \in prod'[q].subscribers
      BY <1>0, <1>c DEF NamedSubscribersAreKnown
    <2>1. CASE q = p
      <3>1. c \in GetSubscribersByProducer(p)
        BY <2>1 DEF ListedInv, GetSubscribersByProducer
      <3> QED BY <1>b, <1>c, <2>1, <3>1
    <2>2. CASE q # p
      BY <1>0, <1>c, <2>2 DEF NamedSubscribersAreKnown, TypeOK
    <2> QED BY <2>1, <2>2
  <1>4. ListedInv' /\ RoutedInv'
    BY <1>0, <1>c DEF ListedInv, RoutedInv, TypeOK
  <1> QED BY <1>1, <1>2, <1>3, <1>4

(* PRODUCE under a free name takes the name; it exchanges no subscribers,  *)
(* and the producer no longer counts as announced.                         *)
LEMMA ProduceStep ==
  ASSUME IndInv, NEW s \in Sockets, NEW p \in Producers, Produce(s, p)
  PROVE  IndInv'
  <1> USE DEF IndInv
  <1> DEFINE new == [GetProducerMetaInfo(p) EXCEPT !.socket = s, !.bound = TRUE]
  <1>0. /\ s \in open
        /\ UNCHANGED <<open, cons, subs, listed, wants, holder, swept>>
    BY DEF Produce
  <1>b. new \in ProducerMeta /\ new.socket = s
    BY MetaType DEF ProducerMeta
  <1>c. CASE ProducerSocket(p) = Null
    <2>0. prod' = [prod EXCEPT ![p] = new] /\ announced' = announced \ {p}
      BY <1>c DEF Produce
    <2> HIDE DEF new
    <2>1. TypeOK'
      BY <1>0, <1>b, <2>0 DEF TypeOK
    <2>2. /\ \A c \in Consumers :
               /\ ConsumerSocket(c)' = ConsumerSocket(c)
               /\ GetConsumerMetaInfo(c)' = GetConsumerMetaInfo(c)
          /\ ProducerSocket(p)' = s
          /\ \A q \in Producers : q # p =>
               prod'[q] = prod[q] /\ ProducerSocket(q)' = ProducerSocket(q)
      BY <1>0, <1>b, <2>0 DEF TypeOK, ConsumerSocket, GetConsumerMetaInfo,
                              ProducerSocket, GetProducerMetaInfo
    <2>3. HolderIsReachable' /\ HolderInv'
      BY <1>0, <2>2 DEF HolderIsReachable, HolderInv
    <2>4. NamedSubscribersAreKnown'
      BY <1>0, <2>0, <2>2 DEF NamedSubscribersAreKnown, TypeOK
    <2>5. ListedInv' /\ RoutedInv'
      BY <1>0, <2>2 DEF ListedInv, RoutedInv, TypeOK
    <2> QED BY <2>1, <2>3, <2>4, <2>5
  <1>d. CASE ProducerSocket(p) # Null
    <2>1. UNCHANGED vars
      BY <1>0, <1>d DEF Produce, TypeOK, vars, state, history
    <2> QED BY <2>1, Stutter
  <1> QED BY <1>c, <1>d

(* SUBSCRIBE puts the subscription into both tables and makes the consumer *)
(* a subscriber of the producers that are there to be told.                *)
LEMMA SubscribeStep ==
  ASSUME IndInv, NEW s \in Sockets, NEW k \in Keys, NEW c \in Consumers,
         SubscribeMessage(s, k, c)
  PROVE  IndInv'
  <1> USE DEF IndInv
  <1> DEFINE meta  == GetConsumerMetaInfo(c)
             taken == IF meta.socket = Null THEN SetupConsumer(s, c, s) ELSE meta
             new   == [taken EXCEPT !.subscribeTos = @ \cup {k[2]}]
  <1>0. /\ s \in open
        /\ cons' = [cons EXCEPT ![c] = new]
        /\ subs' = subs \cup {<<k, c>>}
        /\ listed' = IF k[2] \notin meta.subscribeTos
                     THEN listed \cup {<<k, c>>} ELSE listed
        /\ wants' = wants \cup {<<k, c>>}
        /\ holder' = IF meta.socket = Null THEN [holder EXCEPT ![c] = s]
                     ELSE holder
        /\ UNCHANGED <<open, announced, swept>>
    BY DEF SubscribeMessage
  <1>a. s \in Ids
    BY DEF Ids
  <1>b. /\ taken \in ConsumerMeta
        /\ taken.subscribeTos = meta.subscribeTos
        /\ taken.socket = IF meta.socket = Null THEN s ELSE meta.socket
    BY <1>a, MetaType, SetupType
  <1>c. /\ new \in ConsumerMeta
        /\ new.subscribeTos = meta.subscribeTos \cup {k[2]}
        /\ new.socket = IF meta.socket = Null THEN s ELSE meta.socket
    <2> HIDE DEF taken, meta
    <2> QED BY <1>b, KeyNames DEF ConsumerMeta
  <1>d. prod' = [p \in Producers |->
                   IF p \in Notified(k, c)
                   THEN [prod[p] EXCEPT !.subscribers = @ \cup {c}]
                   ELSE IF p = k[2] THEN GetProducerMetaInfo(p) ELSE prod[p]]
    BY DEF SubscribeMessage
  <1> HIDE DEF new, taken
  <1>e. ASSUME NEW p \in Producers
        PROVE  /\ prod'[p] \in ProducerMeta \cup {Null}
               /\ ProducerSocket(p)' = ProducerSocket(p)
               /\ p \in Notified(k, c) => c \in prod'[p].subscribers
               /\ ProducerSocket(p) # Null =>
                    prod[p].subscribers \subseteq prod'[p].subscribers
    <2>1. CASE p \in Notified(k, c)
      <3>1. prod[p] \in ProducerMeta
        BY <2>1 DEF Notified, ProducerSocket, GetProducerMetaInfo, TypeOK
      <3>2. prod'[p] = [prod[p] EXCEPT !.subscribers = @ \cup {c}]
        BY <1>d, <2>1
      <3>3. /\ prod'[p] \in ProducerMeta
            /\ prod'[p].socket = prod[p].socket
            /\ prod'[p].subscribers = prod[p].subscribers \cup {c}
        BY <3>1, <3>2 DEF ProducerMeta
      <3> QED
        BY <3>1, <3>3 DEF ProducerSocket, GetProducerMetaInfo
    <2>2. CASE p \notin Notified(k, c)
      <3>1. prod'[p] = IF p = k[2] THEN GetProducerMetaInfo(p) ELSE prod[p]
        BY <1>d, <2>2
      <3> QED
        BY <2>2, <3>1, MetaType DEF ProducerSocket, GetProducerMetaInfo, TypeOK
    <2> QED BY <2>1, <2>2
  <1>f. /\ cons' \in [Consumers -> ConsumerMeta \cup {Null}]
        /\ cons'[c] = new
        /\ \A d \in Consumers : d # c => cons'[d] = cons[d]
    BY <1>0, <1>c DEF TypeOK
  <1>1. TypeOK'
    <2>1. prod' \in [Producers -> ProducerMeta \cup {Null}]
      BY <1>d, <1>e
    <2>2. \A x \in subs' : cons'[x[2]] # Null
      BY <1>0, <1>c, <1>f DEF TypeOK
    <2>3. holder' \in [Consumers -> Sockets \cup {Null}]
      BY <1>0 DEF TypeOK
    <2>4. /\ subs' \subseteq Keys \X Consumers /\ wants' \subseteq Keys \X Consumers
          /\ listed' \subseteq subs'
      BY <1>0 DEF TypeOK
    <2> QED BY <1>0, <1>f, <2>1, <2>2, <2>3, <2>4 DEF TypeOK
  <1>g. /\ ConsumerSocket(c)' = IF meta.socket = Null THEN s ELSE meta.socket
        /\ GetConsumerMetaInfo(c).subscribeTos' = meta.subscribeTos \cup {k[2]}
        /\ \A d \in Consumers : d # c =>
             /\ ConsumerSocket(d)' = ConsumerSocket(d)
             /\ GetConsumerMetaInfo(d).subscribeTos' =
                  GetConsumerMetaInfo(d).subscribeTos
    <2> HIDE DEF meta
    <2> QED BY <1>c, <1>f DEF ConsumerSocket, GetConsumerMetaInfo
  <1>2. HolderIsReachable' /\ HolderInv'
    <2>1. \A d \in Consumers :
             holder'[d] = IF d = c /\ meta.socket = Null THEN s ELSE holder[d]
      BY <1>0 DEF TypeOK
    <2>2. meta.socket = ConsumerSocket(c)
      BY DEF ConsumerSocket
    <2> HIDE DEF meta
    <2> QED BY <1>0, <1>e, <1>g, <2>1, <2>2 DEF HolderIsReachable, HolderInv
  <1>3. NamedSubscribersAreKnown'
    <2> SUFFICES ASSUME NEW p \in announced \ swept, NEW d \in Consumers,
                        ProducerSocket(p)' # Null,
                        p \in GetConsumerMetaInfo(d).subscribeTos'
                 PROVE  d \in prod'[p].subscribers
      BY <1>0 DEF NamedSubscribersAreKnown
    <2>1. p \in Producers /\ ProducerSocket(p) # Null
      BY <1>e DEF TypeOK
    <2>2. CASE d = c /\ p = k[2]
      <3>1. p \in Notified(k, c)
        BY <2>1, <2>2 DEF Notified
      <3> QED BY <1>e, <2>1, <2>2, <3>1
    <2>3. CASE ~(d = c /\ p = k[2])
      <3>1. p \in GetConsumerMetaInfo(d).subscribeTos
        BY <1>g, <2>3
      <3> QED BY <1>e, <2>1, <3>1 DEF NamedSubscribersAreKnown
    <2> QED BY <2>2, <2>3
  <1>4. ListedInv'
    <2> SUFFICES ASSUME NEW d \in Consumers,
                        NEW q \in GetConsumerMetaInfo(d).subscribeTos' \ swept
                 PROVE  \E j \in Keys : <<j, d>> \in listed' /\ j[2] = q
      BY <1>0 DEF ListedInv
    <2>1. CASE q \in GetConsumerMetaInfo(d).subscribeTos
      BY <1>0, <2>1 DEF ListedInv
    <2>2. CASE q \notin GetConsumerMetaInfo(d).subscribeTos
      <3>1. d = c /\ q = k[2]
        BY <1>g, <2>2
      <3> QED BY <1>0, <2>2, <3>1
    <2> QED BY <2>1, <2>2
  <1>5. RoutedInv'
    <2> SUFFICES ASSUME NEW x \in wants', x[1][2] \notin swept
                 PROVE  /\ x \in subs'
                        /\ x[1][2] \in GetConsumerMetaInfo(x[2]).subscribeTos'
      BY <1>0 DEF RoutedInv
    <2>1. CASE x = <<k, c>>
      BY <1>0, <1>g, <2>1
    <2>2. CASE x \in wants
      <3>1. x[2] \in Consumers
        BY <2>2 DEF TypeOK
      <3>2. x \in subs /\ x[1][2] \in GetConsumerMetaInfo(x[2]).subscribeTos
        BY <2>2 DEF RoutedInv
      <3> QED BY <1>0, <1>g, <3>1, <3>2
    <2> QED BY <1>0, <2>1, <2>2
  <1> QED BY <1>1, <1>2, <1>3, <1>4, <1>5

(* The sweep evicts a consumer that nobody holds and that subscribed to    *)
(* nothing.                                                                *)
LEMMA SweepConsumerStep ==
  ASSUME IndInv, NEW c \in Consumers, SweepConsumer(c)
  PROVE  IndInv'
  <1> USE DEF IndInv
  <1>0. /\ cons[c] # Null /\ cons[c].socket = Null
        /\ cons[c].subscribeTos = {}
        /\ cons' = [cons EXCEPT ![c] = Null]
        /\ subs' = {x \in subs : x[2] # c}
        /\ listed' = {x \in listed : x[2] # c}
        /\ UNCHANGED <<open, prod, wants, holder, announced, swept>>
    BY DEF SweepConsumer, HasActiveLinks, history
  <1>1. TypeOK'
    BY <1>0 DEF TypeOK
  <1>a. /\ \A d \in Consumers :
             /\ ConsumerSocket(d)' = ConsumerSocket(d)
             /\ GetConsumerMetaInfo(d).subscribeTos' =
                  GetConsumerMetaInfo(d).subscribeTos
        /\ \A p \in Producers : ProducerSocket(p)' = ProducerSocket(p)
        /\ GetConsumerMetaInfo(c).subscribeTos = {}
    BY <1>0 DEF TypeOK, ConsumerSocket, GetConsumerMetaInfo, ProducerSocket,
                GetProducerMetaInfo
  <1>2. HolderIsReachable' /\ HolderInv'
    BY <1>0, <1>a DEF HolderIsReachable, HolderInv
  <1>3. NamedSubscribersAreKnown'
    BY <1>0, <1>a DEF NamedSubscribersAreKnown, TypeOK
  <1>4. ListedInv'
    BY <1>0, <1>a DEF ListedInv
  <1>5. RoutedInv'
    <2> SUFFICES ASSUME NEW x \in wants, x[1][2] \notin swept
                 PROVE  /\ x \in subs'
                        /\ x[1][2] \in GetConsumerMetaInfo(x[2]).subscribeTos'
      BY <1>0 DEF RoutedInv
    <2>1. /\ x[2] \in Consumers /\ x \in subs
          /\ x[1][2] \in GetConsumerMetaInfo(x[2]).subscribeTos
      BY DEF TypeOK, RoutedInv
    <2> QED BY <1>0, <1>a, <2>1
  <1> QED BY <1>1, <1>2, <1>3, <1>4, <1>5

(* The sweep evicts a producer that nobody holds and that has no           *)
(* subscribers, and with it the subscriptions that list it.                *)
LEMMA SweepProducerStep ==
  ASSUME IndInv, NEW p \in Producers, SweepProducer(p)
  PROVE  IndInv'
  <1> USE DEF IndInv
  <1>0. /\ prod[p] # Null /\ prod[p].socket = Null
        /\ prod' = [prod EXCEPT ![p] = Null]
        /\ subs' = subs \ DeleteProducerFromSubscriptions(p)
        /\ listed' = listed \ DeleteProducerFromSubscriptions(p)
        /\ swept' = swept \cup {p} /\ announced' = announced \ {p}
        /\ UNCHANGED <<open, cons, wants, holder>>
    BY DEF SweepProducer
  <1>1. TypeOK'
    BY <1>0 DEF TypeOK
  <1>a. /\ \A c \in Consumers :
             /\ ConsumerSocket(c)' = ConsumerSocket(c)
             /\ GetConsumerMetaInfo(c)' = GetConsumerMetaInfo(c)
        /\ \A q \in Producers :
             /\ ProducerSocket(q)' = ProducerSocket(q)
             /\ q # p => prod'[q] = prod[q]
    BY <1>0 DEF TypeOK, ConsumerSocket, GetConsumerMetaInfo, ProducerSocket,
                GetProducerMetaInfo
  <1>2. HolderIsReachable' /\ HolderInv'
    BY <1>0, <1>a DEF HolderIsReachable, HolderInv
  <1>3. NamedSubscribersAreKnown'
    BY <1>0, <1>a DEF NamedSubscribersAreKnown, TypeOK
  <1>4. ListedInv'
    <2> SUFFICES ASSUME NEW c \in Consumers,
                        NEW q \in GetConsumerMetaInfo(c).subscribeTos \ swept'
                 PROVE  \E k \in Keys : <<k, c>> \in listed' /\ k[2] = q
      BY <1>0, <1>a DEF ListedInv
    <2>1. q \notin swept /\ q # p
      BY <1>0
    <2>2. PICK k \in Keys : <<k, c>> \in listed /\ k[2] = q
      BY <2>1 DEF ListedInv
    <2> QED BY <1>0, <2>1, <2>2 DEF DeleteProducerFromSubscriptions
  <1>5. RoutedInv'
    <2> SUFFICES ASSUME NEW x \in wants, x[1][2] \notin swept'
                 PROVE  /\ x \in subs'
                        /\ x[1][2] \in GetConsumerMetaInfo(x[2]).subscribeTos'
      BY <1>0 DEF RoutedInv
    <2>1. x[2] \in Consumers /\ x[1][2] # p /\ x[1][2] \notin swept
      BY <1>0 DEF TypeOK
    <2> QED
      BY <1>0, <1>a, <2>1 DEF RoutedInv, DeleteProducerFromSubscriptions
  <1> QED BY <1>1, <1>2, <1>3, <1>4, <1>5

(* Every step of the registry keeps the invariant. *)
LEMMA RegistryStep == ASSUME IndInv, [Next]_vars PROVE IndInv'
  <1> USE DEF IndInv
  <1>1. ASSUME NEW s \in Sockets, Connect(s) PROVE IndInv'
    <2>1. /\ s \notin open /\ open' = open \cup {s}
          /\ UNCHANGED <<cons, prod, subs, listed, wants, holder, announced,
                         swept>>
      BY <1>1 DEF Connect, history
    <2>2. TypeOK'
      BY <2>1 DEF TypeOK
    <2>3. HolderIsReachable' /\ HolderInv'
      BY <2>1 DEF HolderIsReachable, HolderInv, ConsumerSocket,
           ProducerSocket, GetConsumerMetaInfo, GetProducerMetaInfo, TypeOK
    <2>4. NamedSubscribersAreKnown' /\ ListedInv' /\ RoutedInv'
      BY <2>1 DEF NamedSubscribersAreKnown, ListedInv, RoutedInv,
           ProducerSocket, GetConsumerMetaInfo, GetProducerMetaInfo
    <2> QED BY <2>2, <2>3, <2>4
  <1>2. CASE UNCHANGED vars
    BY <1>2, Stutter
  <1>3. ASSUME NEW s \in Sockets, Unsubscribe(s) PROVE IndInv'
    BY <1>2, <1>3 DEF Unsubscribe
  <1>4. ASSUME NEW s \in Sockets, NEW c \in Consumers,
               NEW id \in Instances \cup {EchoedName, Null},
               RejectDuplicate(s, c, id)
        PROVE  IndInv'
    BY <1>4, DisconnectStep DEF RejectDuplicate
  <1> QED
    BY <1>1, <1>2, <1>3, <1>4, DisconnectStep, RegisterConsumerStep,
       RegisterProducerStep, ProduceStep, SubscribeStep, SweepConsumerStep,
       SweepProducerStep DEF Next

(* The invariant holds in every reachable state of the registry. *)
THEOREM RegistryInvariance == Spec => []IndInv
  <1>1. Init => IndInv
    BY RegistryInit
  <1>2. IndInv /\ [Next]_vars => IndInv'
    BY RegistryStep
  <1> QED BY <1>1, <1>2, PTL DEF Spec

(* The three tables of a realm agree: names are bound to sockets that are  *)
(* connected, the last taker of a name is reachable under it, and a        *)
(* producer that registered knows every consumer that named it, whatever   *)
(* order CONSUMER, PRODUCER, SUBSCRIBE, PRODUCE, disconnects and sweeps    *)
(* come in.                                                                *)
THEOREM TablesAgree == Spec => []RegistryIsConsistent
  <1>1. IndInv => RegistryIsConsistent
    BY DEF IndInv, RegistryIsConsistent
  <1> QED BY <1>1, RegistryInvariance, PTL

(* A subscription is routed until the idle sweep removes the producer it   *)
(* names: every PRODUCE that matches finds the consumer.                   *)
THEOREM SubscriptionsAreRouted == Spec => []WantedIsRouted
  <1>1. IndInv => WantedIsRouted
    <2> SUFFICES ASSUME IndInv, NEW x \in wants, x[1][2] \notin swept,
                        NEW e \in Events, NEW p \in Producers,
                        x[1] \in Matching(e, p)
                 PROVE  x[2] \in GenerateMessage(e, p)
      BY DEF WantedIsRouted
    <2>1. x[2] \in Consumers /\ x = <<x[1], x[2]>>
      BY DEF IndInv, TypeOK
    <2>2. x \in subs /\ x[1][2] \in GetConsumerMetaInfo(x[2]).subscribeTos
      BY DEF IndInv, RoutedInv
    <2>3. x[1][2] \in {p, AllPublishers}
      BY DEF Matching
    <2> QED BY <2>1, <2>2, <2>3 DEF GenerateMessage
  <1> QED BY <1>1, RegistryInvariance, PTL

=============================================================================
