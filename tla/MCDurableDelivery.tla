------------------------- MODULE MCDurableDelivery -------------------------
(* DurableDelivery for TLC. *)
EXTENDS DurableDelivery, TLC

(* What clients subscribe with: all options, durable, durable with ACK. *)
Durable == {options \in Options : options.durable}
Reliable == {options \in Durable : options.ack}

(* Sockets, msgIds and replay slots are interchangeable. *)
Symmetry ==
    Permutations(Sockets) \cup Permutations(Ids) \cup Permutations(Calls)

(* Two faults of the store with one subscription, or one restart of the    *)
(* broker, with one subscription before it and the rest after it: not both *)
(* in one behaviour.                                                       *)
FaultsApart ==
    \/ /\ budget["failures"] = MaxFailures
       /\ \/ budget["restarts"] < MaxRestarts
          \/ budget["subscribes"] >= MaxSubscribes - 1
    \/ /\ budget["restarts"] = MaxRestarts
       /\ budget["subscribes"] >= MaxSubscribes - 1
=============================================================================
