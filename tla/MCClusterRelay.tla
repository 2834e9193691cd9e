--------------------------- MODULE MCClusterRelay ---------------------------
(* Subscribers of each kind for ClusterRelay. *)
EXTENDS ClusterRelay
CONSTANTS plain, durable, member1, member2

MCProfiles ==
  [c \in Subscribers |->
     [durable |-> c \in {durable, member1}, ack |-> c = durable,
      group |-> IF c \in {member1, member2} THEN Group ELSE NoGroup]]
=============================================================================
