---------------------------- MODULE ClusterRelay ----------------------------
(***************************************************************************)
(* Routing of produced messages in a cluster (routeProducedMessage,        *)
(* generateMessage, relayProducedMessage and handleRelayedMessage in       *)
(* lib/server.js, publishMessage and onMessage in lib/cluster.js).  The    *)
(* broker a message is produced on routes it with full semantics: live     *)
(* sockets, the durable queue, one member per group.  Then it publishes    *)
(* the message to its peers, which deliver to their own live sockets only. *)
(*                                                                         *)
(* One realm and one event; the durable queue is the store all brokers     *)
(* share.  What happens between a delivery and its ACK, and the replay of  *)
(* the queue, are those of DurableDelivery: here both are one step.        *)
(***************************************************************************)
EXTENDS Naturals, Sequences, FiniteSets, SequencesExt

CONSTANTS
  RelayBrokers, Subscribers, Group,
  NoGroup, Nowhere,
  Profiles,        \* by subscriber: the options it subscribes with
  MaxSent,         \* bound: messages produced
  MaxMoves         \* bound: connections and disconnections

SubscriptionOptions == [durable : BOOLEAN, ack : BOOLEAN, group : {Group, NoGroup}]
ASSUME RelayAssumption ==
  /\ Profiles \in [Subscribers -> SubscriptionOptions]
  /\ Nowhere \notin RelayBrokers /\ MaxSent \in Nat /\ MaxMoves \in Nat

Messages == 1..MaxSent
Methods == {"normal", "broadcast", "group"}

VARIABLES
  known,      \* by broker: consumers it keeps a subscription of
  place,      \* by consumer: the broker of its socket
  stored,     \* <<consumer, message>>: the shared durable queue
  wires,      \* by broker: relayed messages on their way, in order
  counters,   \* by broker: groupCounters
  got,        \* by consumer and message: copies received live or by replay
  method,     \* by message: how it was produced, "none" if not yet
  staying,    \* by message: consumers online when it was produced and since
  absent,     \* by message: durable consumers that were offline then
  sent, moves

relayVars == <<known, place, stored, wires, counters, got, method, staying,
               absent, sent, moves>>

RelayInit ==
  /\ known = [b \in RelayBrokers |-> {}]
  /\ place = [c \in Subscribers |-> Nowhere]
  /\ stored = {}
  /\ wires = [b \in RelayBrokers |-> <<>>]
  /\ counters = [b \in RelayBrokers |-> 0]
  /\ got = [c \in Subscribers |-> [m \in Messages |-> 0]]
  /\ method = [m \in Messages |-> "none"]
  /\ staying = [m \in Messages |-> {}]
  /\ absent = [m \in Messages |-> {}]
  /\ sent = 0 /\ moves = 0

(* CONSUMER and SUBSCRIBE on a broker; the queue is replayed.              *)
Join(c, b) ==
  /\ place[c] = Nowhere /\ moves < MaxMoves
  /\ moves' = moves + 1
  /\ place' = [place EXCEPT ![c] = b]
  /\ known' = [known EXCEPT ![b] = @ \cup {c}]
  /\ got' = [got EXCEPT ![c] = [m \in Messages |->
               IF Profiles[c].durable /\ <<c, m>> \in stored THEN @[m] + 1 ELSE @[m]]]
  /\ stored' = {s \in stored : s[1] # c \/ ~Profiles[c].durable}
  /\ UNCHANGED <<wires, counters, method, staying, absent, sent>>

(* The broker keeps the subscription when the socket closes.               *)
Leave(c) ==
  /\ place[c] # Nowhere /\ moves < MaxMoves
  /\ moves' = moves + 1
  /\ place' = [place EXCEPT ![c] = Nowhere]
  /\ staying' = [m \in Messages |-> staying[m] \ {c}]
  /\ UNCHANGED <<known, stored, wires, counters, got, method, absent, sent>>

-----------------------------------------------------------------------------
(* generateMessage on broker b: the subscriptions it delivers to.          *)

Grouped(b) == {c \in known[b] : Profiles[c].group # NoGroup}
Ungrouped(b) == known[b] \ Grouped(b)
Live(b, cs) == {c \in cs : place[c] = b}

(* A relayed message never joins the selection of a group, and reaches     *)
(* live sockets only.                                                      *)
(* Mutant: peers select a member of their own. *)
BucketEverywhere(b, relay) == Grouped(b)
Bucket(b, relay) == IF relay THEN {} ELSE Grouped(b)

Direct(b, relay) == IF relay THEN Live(b, Ungrouped(b)) ELSE Ungrouped(b)

(* The member whose turn it is: among those online, if any.                *)
Turn(b, members) ==
  LET online == Live(b, members)
      candidates == SetToSeq(IF online # {} THEN online ELSE members)
  IN candidates[(counters[b] % Len(candidates)) + 1]

Selected(b, relay) ==
  LET members == Bucket(b, relay)
  IN IF members = {} THEN {} ELSE {Turn(b, members)}

(* deliverToSubscription: live, or durably queued, or dropped.  With       *)
(* ack_required a live delivery is queued until the client's ACK.          *)
Delivered(b, m, targets) ==
  /\ got' = [c \in Subscribers |->
       IF c \in Live(b, targets) THEN [got[c] EXCEPT ![m] = @ + 1] ELSE got[c]]
  /\ stored' = stored \cup
       {<<c, m>> : c \in {d \in targets \ Live(b, targets) : Profiles[d].durable}}

GenerateMessage(b, m, relay) ==
  /\ Delivered(b, m, Direct(b, relay) \cup Selected(b, relay))
  /\ counters' = IF Bucket(b, relay) = {} THEN counters
                 ELSE [counters EXCEPT ![b] = @ + 1]

(* broadcastConsumeMessage and broadcastToGroup: live sockets only.        *)
Broadcast(b, m, cs) ==
  /\ got' = [c \in Subscribers |->
       IF c \in Live(b, cs) THEN [got[c] EXCEPT ![m] = @ + 1] ELSE got[c]]
  /\ UNCHANGED <<stored, counters>>

Route(b, m, how, relay) ==
  \/ how = "normal" /\ GenerateMessage(b, m, relay)
  \/ how = "broadcast" /\ Broadcast(b, m, Subscribers)
  \/ how = "group" /\ Broadcast(b, m, Grouped(b))

(* onMessage: a broker ignores what it relayed itself.                     *)
(* Mutant: it handles its own relays too. *)
RelayedToAll(b) == RelayBrokers
RelayedTo(b) == RelayBrokers \ {b}

(* routeProducedMessage, relayProducedMessage *)
Produce(b, how) ==
  LET m == sent + 1 IN
  /\ sent < MaxSent
  /\ sent' = m
  /\ Route(b, m, how, FALSE)
  /\ method' = [method EXCEPT ![m] = how]
  /\ wires' = [p \in RelayBrokers |->
       IF p \in RelayedTo(b) THEN Append(wires[p], m) ELSE wires[p]]
  /\ staying' = [staying EXCEPT ![m] = {c \in Subscribers : place[c] # Nowhere}]
  /\ absent' = [absent EXCEPT ![m] =
       {c \in Subscribers : /\ place[c] = Nowhere /\ Profiles[c].durable
                            /\ \E p \in RelayBrokers : c \in known[p]}]
  /\ UNCHANGED <<known, place, moves>>

HandleRelayedMessage(b) ==
  LET m == Head(wires[b]) IN
  /\ wires[b] # <<>>
  /\ wires' = [wires EXCEPT ![b] = Tail(@)]
  /\ Route(b, m, method[m], TRUE)
  /\ UNCHANGED <<known, place, method, staying, absent, sent, moves>>

RelayNext ==
  \/ \E c \in Subscribers : Leave(c) \/ \E b \in RelayBrokers : Join(c, b)
  \/ \E b \in RelayBrokers :
       HandleRelayedMessage(b) \/ \E how \in Methods : Produce(b, how)

RelaySpec == RelayInit /\ [][RelayNext]_relayVars

-----------------------------------------------------------------------------

RelayTypeOK ==
  /\ known \in [RelayBrokers -> SUBSET Subscribers]
  /\ place \in [Subscribers -> RelayBrokers \cup {Nowhere}]
  /\ stored \subseteq Subscribers \X Messages
  /\ counters \in [RelayBrokers -> 0..MaxSent]
  /\ got \in [Subscribers -> [Messages -> 0..(MaxMoves + 1)]]
  /\ method \in [Messages -> Methods \cup {"none"}]

RelayQuiet == \A b \in RelayBrokers : wires[b] = <<>>
InGroup(c) == Profiles[c].group # NoGroup

(* README.md:179: "each message is delivered to exactly one member of the  *)
(* group".  However the members are spread over the brokers, no two of     *)
(* them ever hold a copy of a normal message, live or queued: the origin   *)
(* selects and the relays stay out (generateMessage).                      *)
OneMemberPerGroup ==
  \A m \in Messages : method[m] = "normal" =>
    Cardinality({c \in Subscribers : /\ InGroup(c)
                   /\ (got[c][m] > 0 \/ <<c, m>> \in stored)}) <= 1

(* README.md:204: "live messages are relayed so a producer on one node     *)
(* reaches subscribers on every node".  A subscriber outside groups that   *)
(* was connected when the message was produced, and stayed, has it once    *)
(* the relays are handled; one that is not durable never has it twice      *)
(* (relayProducedMessage, handleRelayedMessage, onMessage).                *)
LiveReachesEveryNode ==
  \A m \in 1..sent : \A c \in staying[m] :
    /\ method[m] = "normal" /\ ~InGroup(c) /\ RelayQuiet => got[c][m] >= 1
    /\ method[m] = "broadcast" /\ RelayQuiet => got[c][m] = 1
    /\ ~Profiles[c].durable => got[c][m] <= 1

(* docs/PERSISTENCE.md:116: "When the consumer is offline, messages for    *)
(* durable subscriptions are stored."  A durable subscriber outside groups *)
(* that was offline has the message queued, or has received it.            *)
OfflineIsStored ==
  \A m \in 1..sent : \A c \in absent[m] :
    method[m] = "normal" /\ ~InGroup(c) /\ RelayQuiet =>
      <<c, m>> \in stored \/ got[c][m] >= 1

(* The relay and the selection of group members together: each connected    *)
(* subscriber is reached from every broker, each group by one member.       *)
RelayReachesEach == OneMemberPerGroup /\ LiveReachesEveryNode
=============================================================================
