----------------------------- MODULE MCRegistry -----------------------------
EXTENDS Registry, TLC

\* Consumers, instances and sockets are interchangeable.
Symmetry == Permutations(Consumers) \cup Permutations(Sockets)
              \cup Permutations(Instances)
=============================================================================
