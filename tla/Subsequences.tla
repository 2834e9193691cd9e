---------------------------- MODULE Subsequences ----------------------------
(***************************************************************************)
(* Array.prototype.filter and `DELETE ... WHERE' on sequences, in closed   *)
(* form: what a sequence keeps when only some of its positions stay.       *)
(***************************************************************************)
EXTENDS Naturals, Sequences, FiniteSets

(* The position of P that has k positions of P up to itself.               *)
Nth(P, k) == CHOOSE n \in P : Cardinality({m \in P : m <= n}) = k
Picked(s, P) == [k \in 1..Cardinality(P) |-> s[Nth(P, k)]]
=============================================================================
