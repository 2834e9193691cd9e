------------------------------ MODULE MCLimits ------------------------------
EXTENDS Limits

\* A bucket for connections fills up in one tick, one for realms in six;
\* idle buckets are dropped after two or three.
MCBurst == [k \in Kinds |-> IF k = ConnKind THEN 1 ELSE 2]
MCCost == [k \in Kinds |-> IF k = ConnKind THEN 1 ELSE 3]
=============================================================================
