------------------------------ MODULE Registry ------------------------------
(***************************************************************************)
(* The registry of one realm of the broker: who is connected under which   *)
(* name, who subscribed to whom, and what PRODUCE makes of that            *)
(* (lib/server.js: CONSUMER, PRODUCER, SUBSCRIBE, UNSUBSCRIBE, PRODUCE,     *)
(* disconnect and the idle sweep).                                         *)
(*                                                                         *)
(* The code keeps three tables that must agree: realm.consumers[c] with    *)
(* the producers c subscribed to, realm.producers[p] with its subscribers, *)
(* and realm.subscriptions[eventStr][c].  Each handler updates some of     *)
(* them, under conditions on what the others hold at that moment.          *)
(***************************************************************************)
EXTENDS FiniteSets

CONSTANTS Consumers,     \* names of consumers
          Producers,     \* names of producers
          Events,        \* names of events
          AllPublishers, \* Constants.ALL_PUBLISHERS
          AllEvents,     \* the event string of a subscription to everything
          Sockets,       \* ids of connections
          Instances,     \* ids that clients make unique per instance
          EchoedName,    \* the id of a client that sends its name as its id
          Null

VARIABLES
  open,      \* the sockets that are connected
  cons,      \* realm.consumers: name -> meta, or Null
  prod,      \* realm.producers: name -> meta, or Null
  subs,      \* realm.subscriptions: the pairs <<key, consumer>> it holds
  listed,    \* those whose own subscribeTos holds the key's producer
  wants,     \* history: what consumers subscribed to
  holder,    \* history: the socket that last took a consumer's name
  announced, \* history: the producers whose entry went through PRODUCER
  swept      \* history: the producers the idle sweep removed

state == <<open, cons, prod, subs, listed>>
history == <<wants, holder, announced, swept>>
vars == <<state, history>>

Keys == {<<e, p>> : e \in Events \cup {AllEvents}, p \in Producers}
          \cup {<<e, AllPublishers>> : e \in Events}
Names == Producers \cup {AllPublishers}
Ids == Instances \cup {EchoedName} \cup Sockets

(* An entry is `online' exactly while it has a socket; `bound' says that   *)
(* online was ever set, since the sweep asks for online === false.         *)
ConsumerMeta == [socket : Sockets \cup {Null}, id : Ids \cup {Null},
                 bound : BOOLEAN, subscribeTos : SUBSET Names]
ProducerMeta == [socket : Sockets \cup {Null}, bound : BOOLEAN,
                 subscribers : SUBSET Consumers]

(* undefined is no socket and no entry, and no producer may take the name  *)
(* that stands for all of them.                                            *)
ASSUME NullAssumption == Null \notin Sockets \cup ConsumerMeta \cup ProducerMeta
ASSUME AllPublishersAssumption == AllPublishers \notin Producers

Init ==
  /\ open = {}
  /\ cons = [c \in Consumers |-> Null]
  /\ prod = [p \in Producers |-> Null]
  /\ subs = {} /\ listed = {}
  /\ wants = {} /\ announced = {} /\ swept = {}
  /\ holder = [c \in Consumers |-> Null]

(* getConsumerMetaInfo and getProducerMetaInfo create what is missing.     *)
GetConsumerMetaInfo(c) ==
  IF cons[c] = Null
  THEN [socket |-> Null, id |-> Null, bound |-> FALSE, subscribeTos |-> {}]
  ELSE cons[c]

GetProducerMetaInfo(p) ==
  IF prod[p] = Null
  THEN [socket |-> Null, bound |-> FALSE, subscribers |-> {}]
  ELSE prod[p]

ConsumerSocket(c) == GetConsumerMetaInfo(c).socket
ProducerSocket(p) == GetProducerMetaInfo(p).socket

(* One consumer name and one producer name per connection, as the client   *)
(* library has it; what other clients get is the finding of                *)
(* DurableDelivery about two names.                                        *)
OneConsumer(s, c) == \A d \in Consumers : ConsumerSocket(d) = s => d = c
OneProducer(s, p) == \A q \in Producers : ProducerSocket(q) = s => q = p

(* A socket's id is new: no entry knows it.                                *)
Connect(s) ==
  /\ s \notin open
  /\ \A c \in Consumers : s \notin {ConsumerSocket(c), GetConsumerMetaInfo(c).id}
  /\ open' = open \cup {s}
  /\ UNCHANGED <<cons, prod, subs, listed, history>>

(* The disconnect handler gives up the names the socket still holds; the   *)
(* entries and the subscriptions stay.                                     *)
(* Mutant: the names stay bound. *)
FreedConsumersKept(s) == cons
FreedConsumers(s) ==
  [c \in Consumers |-> IF cons[c] # Null /\ cons[c].socket = s
                       THEN [cons[c] EXCEPT !.socket = Null] ELSE cons[c]]
FreedProducers(s) ==
  [p \in Producers |-> IF prod[p] # Null /\ prod[p].socket = s
                       THEN [prod[p] EXCEPT !.socket = Null] ELSE prod[p]]
HoldersBut(s) == [c \in Consumers |-> IF holder[c] = s THEN Null ELSE holder[c]]

Disconnect(s) ==
  /\ s \in open
  /\ open' = open \ {s}
  /\ cons' = FreedConsumers(s)
  /\ prod' = FreedProducers(s)
  /\ holder' = HoldersBut(s)
  /\ UNCHANGED <<subs, listed, wants, announced, swept>>

(* CONSUMER {name, id}.  Two instances with ids of their own are a         *)
(* duplicate: the newcomer is disconnected.  Otherwise a connected holder  *)
(* is disconnected, whose handler runs before setupConsumer.               *)
Distinct(c, id) ==
  /\ id \in Instances
  /\ cons[c].id \notin {Null, EchoedName}
  /\ id # cons[c].id

Displaces(s, c) ==
  cons[c] # Null /\ cons[c].socket \in open \ {s}

RejectDuplicate(s, c, id) ==
  /\ s \in open /\ OneConsumer(s, c)
  /\ Displaces(s, c) /\ Distinct(c, id)
  /\ Disconnect(s)

SetupConsumer(s, c, id) ==
  [GetConsumerMetaInfo(c) EXCEPT !.socket = s, !.bound = TRUE, !.id = id]

RegisterConsumer(s, c, id) ==
  LET held == IF Displaces(s, c) THEN cons[c].socket ELSE Null
  IN /\ s \in open /\ OneConsumer(s, c)
     /\ ~(Displaces(s, c) /\ Distinct(c, id))
     /\ open' = open \ {held}
     /\ cons' = [FreedConsumers(held) EXCEPT
                   ![c] = SetupConsumer(s, c, IF id = Null THEN s ELSE id)]
     /\ prod' = FreedProducers(held)
     /\ holder' = [HoldersBut(held) EXCEPT ![c] = s]
     /\ UNCHANGED <<subs, listed, wants, announced, swept>>

(* PRODUCER {name}: the last one to register holds the name.  Consumers    *)
(* whose subscriptions list the producer become its subscribers.           *)
(* Mutant: earlier subscriptions are not looked for. *)
GetSubscribersOfNobody(p) == {}
GetSubscribersByProducer(p) ==
  {c \in Consumers : \E k \in Keys : <<k, c>> \in listed /\ k[2] = p}

RegisterProducer(s, p) ==
  /\ s \in open /\ OneProducer(s, p)
  /\ prod' = [prod EXCEPT ![p] =
                [GetProducerMetaInfo(p) EXCEPT
                   !.socket = s, !.bound = TRUE,
                   !.subscribers = @ \cup GetSubscribersByProducer(p)]]
  /\ announced' = announced \cup {p}
  /\ UNCHANGED <<open, cons, subs, listed, wants, holder, swept>>

(* SUBSCRIBE.  The consumer's name is taken only if nobody holds it.  The  *)
(* subscription lists the producer only if the consumer did not subscribe  *)
(* to that producer before; a producer that is online gets a subscriber.   *)
Notified(k, c) ==
  {p \in Producers :
     /\ ProducerSocket(p) # Null
     /\ p = k[2] \/ k[2] = AllPublishers}

SubscribeMessage(s, k, c) ==
  LET meta  == GetConsumerMetaInfo(c)
      taken == IF meta.socket = Null THEN SetupConsumer(s, c, s) ELSE meta
      fresh == k[2] \notin meta.subscribeTos
  IN /\ s \in open /\ OneConsumer(s, c)
     /\ cons' = [cons EXCEPT ![c] =
                   [taken EXCEPT !.subscribeTos = @ \cup {k[2]}]]
     /\ subs' = subs \cup {<<k, c>>}
     /\ listed' = IF fresh THEN listed \cup {<<k, c>>} ELSE listed
     /\ prod' = [p \in Producers |->
                   IF p \in Notified(k, c)
                   THEN [prod[p] EXCEPT !.subscribers = @ \cup {c}]
                   ELSE IF p = k[2] THEN GetProducerMetaInfo(p) ELSE prod[p]]
     /\ wants' = wants \cup {<<k, c>>}
     /\ holder' = IF meta.socket = Null THEN [holder EXCEPT ![c] = s] ELSE holder
     /\ UNCHANGED <<open, announced, swept>>

(* UNSUBSCRIBE looks the socket's id up among entries that are keyed by    *)
(* consumer names, so it removes nothing.                                  *)
Unsubscribe(s) ==
  /\ s \in open
  /\ UNCHANGED vars

(* The consumers PRODUCE sends a message of p to: the three event strings  *)
(* it looks up, and the consumer's own subscribeTos.                       *)
Matching(e, p) == {<<e, p>>, <<AllEvents, p>>, <<e, AllPublishers>>}

GenerateMessage(e, p) ==
  {c \in Consumers :
     \E k \in Matching(e, p) :
        /\ <<k, c>> \in subs
        /\ GetConsumerMetaInfo(c).subscribeTos \cap {p, AllPublishers} # {}}

(* PRODUCE by a name nobody holds registers the name, without the          *)
(* exchange of subscribers that PRODUCER has.                              *)
Produce(s, p) ==
  /\ s \in open /\ OneProducer(s, p)
  /\ prod' = [prod EXCEPT ![p] =
                IF ProducerSocket(p) # Null THEN @
                ELSE [GetProducerMetaInfo(p) EXCEPT !.socket = s, !.bound = TRUE]]
  /\ announced' = IF ProducerSocket(p) = Null THEN announced \ {p} ELSE announced
  /\ UNCHANGED <<open, cons, subs, listed, wants, holder, swept>>

(* One entry of the idle sweep (opt-in).  Which entries are past the TTL   *)
(* is left open.  Evicting a producer deletes every subscription that      *)
(* lists it.                                                               *)
HasActiveLinks(links) == links # {}

SweepConsumer(c) ==
  /\ cons[c] # Null /\ cons[c].socket = Null /\ cons[c].bound
  /\ ~HasActiveLinks(cons[c].subscribeTos)
  /\ cons' = [cons EXCEPT ![c] = Null]
  /\ subs' = {x \in subs : x[2] # c}
  /\ listed' = {x \in listed : x[2] # c}
  /\ UNCHANGED <<open, prod, history>>

DeleteAllOfItsConsumers(p) ==
  {x \in subs : \E y \in listed : y[1][2] = p /\ y[2] = x[2]}
DeleteProducerFromSubscriptions(p) == {x \in listed : x[1][2] = p}

SweepProducer(p) ==
  /\ prod[p] # Null /\ prod[p].socket = Null /\ prod[p].bound
  /\ ~HasActiveLinks(prod[p].subscribers)
  /\ prod' = [prod EXCEPT ![p] = Null]
  /\ subs' = subs \ DeleteProducerFromSubscriptions(p)
  /\ listed' = listed \ DeleteProducerFromSubscriptions(p)
  /\ swept' = swept \cup {p} /\ announced' = announced \ {p}
  /\ UNCHANGED <<open, cons, wants, holder>>

Next ==
  \/ \E s \in Sockets : Connect(s) \/ Disconnect(s) \/ Unsubscribe(s)
  \/ \E s \in Sockets, c \in Consumers, id \in Instances \cup {EchoedName, Null} :
        RegisterConsumer(s, c, id) \/ RejectDuplicate(s, c, id)
  \/ \E s \in Sockets, p \in Producers : RegisterProducer(s, p) \/ Produce(s, p)
  \/ \E s \in Sockets, k \in Keys, c \in Consumers : SubscribeMessage(s, k, c)
  \/ \E c \in Consumers : SweepConsumer(c)
  \/ \E p \in Producers : SweepProducer(p)

Spec == Init /\ [][Next]_vars

-----------------------------------------------------------------------------

(* The tables hold what the handlers may put there, and an entry of        *)
(* subscriptions belongs to a consumer that is known.                      *)
TypeOK ==
  /\ open \subseteq Sockets
  /\ cons \in [Consumers -> ConsumerMeta \cup {Null}]
  /\ prod \in [Producers -> ProducerMeta \cup {Null}]
  /\ listed \subseteq subs /\ subs \subseteq Keys \X Consumers
  /\ \A x \in subs : cons[x[2]] # Null
  /\ wants \subseteq Keys \X Consumers
  /\ holder \in [Consumers -> Sockets \cup {Null}]
  /\ announced \subseteq Producers /\ swept \subseteq Producers

(* The socket that last took a consumer's name is the one the name is      *)
(* bound to while it is connected, and no name is bound to a socket that   *)
(* is gone: a displaced socket's handler, which runs in the middle of the  *)
(* newcomer's registration, takes nothing from the newcomer (CONSUMER,     *)
(* disconnect).                                                            *)
HolderIsReachable ==
  /\ \A c \in Consumers : ConsumerSocket(c) \in open \cup {Null}
  /\ \A p \in Producers : ProducerSocket(p) \in open \cup {Null}
  /\ \A c \in Consumers : holder[c] \in open => ConsumerSocket(c) = holder[c]

(* While no idle sweep removed the producer it names, what a consumer      *)
(* subscribed to is routed to it: every PRODUCE that matches finds the     *)
(* subscription and the consumer's subscribeTos, whatever disconnects,     *)
(* displacements and sweeps of consumers came in between (generateMessage, *)
(* sweepIdleRegistrations).                                                *)
WantedIsRouted ==
  \A x \in wants : x[1][2] \notin swept =>
     \A e \in Events, p \in Producers :
        x[1] \in Matching(e, p) => x[2] \in GenerateMessage(e, p)

(* A producer that registered has every consumer that named it among its   *)
(* subscribers, also those that came while it was away, and although a     *)
(* subscription lists its producer only the first time: its disconnect     *)
(* reaches them, and the sweep sees that it has links (PRODUCER,           *)
(* getSubscribersByProducer).                                              *)
NamedSubscribersAreKnown ==
  \A p \in announced \ swept, c \in Consumers :
     (ProducerSocket(p) # Null /\ p \in GetConsumerMetaInfo(c).subscribeTos)
        => c \in prod[p].subscribers

(* lib/server.js:3013-3014: "Even when enabled, entries with active        *)
(* subscriptions/subscribers are never evicted".  What a consumer          *)
(* subscribed to is still in the table of subscriptions.                   *)
SubscriptionsAreNeverEvicted == wants \subseteq subs

(* The tables agree with each other and with the sockets: the handlers and  *)
(* the sweep keep consumers, producers and subscriptions in step.           *)
RegistryIsConsistent ==
  TypeOK /\ HolderIsReachable /\ NamedSubscribersAreKnown
=============================================================================
