---------------------------- MODULE MCSealedInbox ----------------------------
(* SealedInbox for TLC. *)
EXTENDS SealedInbox, TLC

Symmetry ==
    Permutations(Identities) \cup Permutations(Sockets) \cup Permutations(Blobs)
=============================================================================
