------------------------- MODULE PushAndSse_proofs --------------------------
(***************************************************************************)
(* Proofs about the two services that keep lists for clients that come and *)
(* go: the registry of push endpoints with its table (module Push), and    *)
(* the streams over HTTP with their replayed history (module Sse).  Both   *)
(* filter lists, hence the facts about Picked they share.  Facts about all *)
(* numbers are shown by a least counterexample.                            *)
(***************************************************************************)
EXTENDS Push, Sse, FiniteSetTheorems, SequenceTheorems, WellFoundedInduction, TLAPS

-----------------------------------------------------------------------------
(* Filtered lists *)

(* Every rank below the number of positions is that of one position. *)
LEMMA RanksAreTaken ==
  ASSUME NEW L \in Nat, NEW P \in SUBSET (1..L)
  PROVE  /\ IsFiniteSet(P) /\ Cardinality(P) \in Nat
         /\ \A k \in 1..Cardinality(P) :
              /\ Nth(P, k) \in P
              /\ Cardinality({m \in P : m <= Nth(P, k)}) = k
         /\ \A n \in P : \E k \in 1..Cardinality(P) : Nth(P, k) = n
         /\ \A j, k \in 1..Cardinality(P) : j < k <=> Nth(P, j) < Nth(P, k)
  <1> DEFINE upTo(n) == {m \in P : m <= n}
             rank == [n \in P |-> Cardinality(upTo(n))]
             N == Cardinality(P)
  <1>1. IsFiniteSet(P) /\ N \in Nat
    <2>1. IsFiniteSet(1..L)
      BY FS_Interval
    <2>2. IsFiniteSet(P)
      BY <2>1, FS_Subset
    <2> QED BY <2>2, FS_CardinalityType
  <1>2. \A n \in P : upTo(n) \subseteq P /\ n \in upTo(n) /\ n \in Nat
    OBVIOUS
  <1>3. \A n \in P : IsFiniteSet(upTo(n)) /\ Cardinality(upTo(n)) \in 1..N
    <2> SUFFICES ASSUME NEW n \in P
                 PROVE  IsFiniteSet(upTo(n)) /\ Cardinality(upTo(n)) \in 1..N
      OBVIOUS
    <2>1. IsFiniteSet(upTo(n)) /\ Cardinality(upTo(n)) <= N
      BY <1>1, <1>2, FS_Subset
    <2>2. Cardinality(upTo(n)) \in Nat
      BY <2>1, FS_CardinalityType
    <2>3. Cardinality(upTo(n)) # 0
      BY <1>2, <2>1, FS_EmptySet
    <2> HIDE DEF upTo, N
    <2> QED BY <1>1, <2>1, <2>2, <2>3
  <1>4. \A m, n \in P : m < n => Cardinality(upTo(m)) < Cardinality(upTo(n))
    <2> SUFFICES ASSUME NEW m \in P, NEW n \in P, m < n
                 PROVE  Cardinality(upTo(m)) < Cardinality(upTo(n))
      OBVIOUS
    <2>1. upTo(m) \subseteq upTo(n) /\ n \notin upTo(m) /\ n \in upTo(n)
      <3>1. \A x \in P : x \in Nat
        BY <1>2
      <3>2. \A x \in P : x <= m => x <= n
        BY <3>1
      <3>3. ~(n <= m) /\ n <= n
        BY <3>1
      <3> QED BY <3>2, <3>3
    <2>2. /\ Cardinality(upTo(m)) <= Cardinality(upTo(n))
          /\ Cardinality(upTo(m)) # Cardinality(upTo(n))
      BY <1>3, <2>1, FS_Subset
    <2>3. Cardinality(upTo(m)) \in 1..N /\ Cardinality(upTo(n)) \in 1..N
      BY <1>3
    <2> HIDE DEF upTo, N
    <2> QED BY <1>1, <2>2, <2>3
  <1>5. rank \in [P -> 1..N] /\ \A n \in P : rank[n] = Cardinality(upTo(n))
    BY <1>3
  <1>6. \A m, n \in P : rank[m] = rank[n] => m = n
    <2> SUFFICES ASSUME NEW m \in P, NEW n \in P, rank[m] = rank[n], m # n
                 PROVE  FALSE
      OBVIOUS
    <2>1. m < n \/ n < m
      BY <1>2
    <2>2. rank[m] \in 1..N /\ rank[n] \in 1..N /\ (rank[m] < rank[n] \/ rank[n] < rank[m])
      BY <1>4, <1>5, <2>1
    <2> HIDE DEF rank, N
    <2> QED BY <1>1, <2>2
  <1>7. rank \in Injection(P, 1..N)
    BY <1>5, <1>6 DEF Injection, IsInjective
  <1>8. rank \in Surjection(P, 1..N)
    <2>1. IsFiniteSet(1..N) /\ Cardinality(1..N) = N
      BY <1>1, FS_Interval
    <2> HIDE DEF rank, N
    <2>2. Cardinality(P) = N
      BY DEF N
    <2> QED BY <1>7, <2>1, <2>2, FS_Injection
  <1>9. \A k \in 1..N : \E n \in P : rank[n] = k
    BY <1>8 DEF Surjection
  <1>10. \A k \in 1..N : Nth(P, k) \in P /\ rank[Nth(P, k)] = k
    BY <1>5, <1>9 DEF Nth
  <1>11. \A n \in P : rank[n] \in 1..N /\ Nth(P, rank[n]) = n
    <2> TAKE n \in P
    <2>1. rank[n] \in 1..N
      BY <1>5
    <2>2. Nth(P, rank[n]) \in P /\ rank[Nth(P, rank[n])] = rank[n]
      BY <1>10, <2>1
    <2> HIDE DEF rank, N
    <2> QED BY <1>6, <2>1, <2>2
  <1>12. \A j, k \in 1..N : j < k <=> Nth(P, j) < Nth(P, k)
    <2> SUFFICES ASSUME NEW j \in 1..N, NEW k \in 1..N
                 PROVE  j < k <=> Nth(P, j) < Nth(P, k)
      OBVIOUS
    <2> DEFINE a == Nth(P, j)
               b == Nth(P, k)
    <2>1. a \in P /\ b \in P /\ a \in Nat /\ b \in Nat /\ rank[a] = j /\ rank[b] = k
      BY <1>2, <1>10
    <2>2. /\ a < b => rank[a] < rank[b]
          /\ b < a => rank[b] < rank[a]
      BY <1>4, <1>5, <2>1
    <2> HIDE DEF rank, a, b, N
    <2>3. j < k <=> a < b
      BY <1>1, <2>1, <2>2
    <2> QED BY <2>3 DEF a, b
  <1> QED BY <1>1, <1>5, <1>10, <1>11, <1>12

(* What is picked keeps its order and nothing comes twice. *)
LEMMA PickedFacts ==
  ASSUME NEW T, NEW s \in Seq(T), NEW P \in SUBSET (1..Len(s))
  PROVE  /\ Picked(s, P) \in Seq(T)
         /\ Len(Picked(s, P)) \in Nat /\ Len(Picked(s, P)) = Cardinality(P)
         /\ IsFiniteSet(P) /\ Cardinality(P) <= Len(s)
         /\ \A k \in 1..Len(Picked(s, P)) :
              Nth(P, k) \in P /\ Picked(s, P)[k] = s[Nth(P, k)]
         /\ \A n \in P : \E k \in 1..Len(Picked(s, P)) : Nth(P, k) = n
         /\ \A j, k \in 1..Len(Picked(s, P)) : j < k <=> Nth(P, j) < Nth(P, k)
  <1> DEFINE N == Cardinality(P)
             q == Picked(s, P)
  <1>1. Len(s) \in Nat /\ DOMAIN s = 1..Len(s)
    OBVIOUS
  <1>2. /\ IsFiniteSet(P) /\ N \in Nat
        /\ \A k \in 1..N : Nth(P, k) \in P
        /\ \A n \in P : \E k \in 1..N : Nth(P, k) = n
        /\ \A j, k \in 1..N : j < k <=> Nth(P, j) < Nth(P, k)
    BY <1>1, RanksAreTaken
  <1>3. q = [k \in 1..N |-> s[Nth(P, k)]]
    BY DEF Picked
  <1>4. \A k \in 1..N : s[Nth(P, k)] \in T
    <2> TAKE k \in 1..N
    <2>1. Nth(P, k) \in 1..Len(s)
      BY <1>2
    <2> QED BY <1>1, <2>1
  <1>5. Cardinality(P) <= Len(s)
    <2>1. IsFiniteSet(1..Len(s)) /\ Cardinality(1..Len(s)) = Len(s)
      <3>1. \A M \in Nat : IsFiniteSet(1..M) /\ Cardinality(1..M) = M
        BY FS_Interval
      <3> QED BY <1>1, <3>1
    <2> QED BY <2>1, FS_Subset
  <1> HIDE DEF N, q
  <1>6. q \in Seq(T) /\ Len(q) = N /\ \A k \in 1..N : q[k] = s[Nth(P, k)]
    BY <1>2, <1>3, <1>4
  <1> QED BY <1>2, <1>5, <1>6 DEF N, q

(* Natural numbers, if there are any, have a first one.                   *)
LEMMA FirstOfNaturals ==
  ASSUME NEW T \in SUBSET Nat, T # {}
  PROVE  \E x \in T : \A y \in T : x <= y
  <1> DEFINE R == OpToRel(<, Nat)
  <1>1. IsWellFoundedOn(R, Nat)
    BY NatLessThanWellFounded
  <1>2. PICK x \in T : \A y \in T : <<y, x>> \notin R
    <2> HIDE DEF R
    <2> QED BY <1>1, WFMin
  <1>3. \A y \in T : ~(y < x)
    BY <1>2 DEF OpToRel
  <1> QED BY <1>3

-----------------------------------------------------------------------------
(* Wakes.  A wake is skipped for an earlier one only while that one is     *)
(* remembered, and what is remembered was sent in the same absence.        *)

WakeInv ==
  /\ lastWake = [i \in Identities |-> lastWake[i]]
  /\ \A i \in Identities : lastWake[i] # {} => i \in woken
  /\ WakePerAbsence

(* fireWake, coalesceOk and resetCoalesce: whatever registers, expires, is *)
(* pruned or restarts in between, a message queued for an identity that is *)
(* away and has an endpoint has woken it in this absence.                  *)
THEOREM EveryAbsenceIsWoken == PushSpec => []WakePerAbsence
  <1>1. PushInit => WakeInv
    BY DEF PushInit, WakeInv, WakePerAbsence, Identities, Bounded
  <1>2. WakeInv /\ [PushNext]_pushVars => WakeInv'
    <2> SUFFICES ASSUME WakeInv, [PushNext]_pushVars PROVE WakeInv'
      OBVIOUS
    <2> DEFINE I == Identities
    <2>0. I' = I
      BY DEF PushNext, pushVars, PushTick, PushRestart, SignIn, SignOff, FireWake,
         DeliverNotifyPush, PushRegister, UrlChecked, PushUnregister, SendAnswered, PushStep,
         Identities, Bounded
    <2> HIDE DEF I
    <2>1. CASE UNCHANGED <<lastWake, due, woken>>
      BY <2>0, <2>1 DEF WakeInv, WakePerAbsence, I
    <2>2. ASSUME NEW i \in I, SignIn(i) PROVE WakeInv'
      <3>1. lastWake' = [lastWake EXCEPT ![i] = {}] /\ due' = due \ {i} /\ woken' = woken \ {i}
        BY <2>2 DEF SignIn, ResetCoalesce
      <3> QED BY <2>0, <3>1 DEF WakeInv, WakePerAbsence, I
    <2>3. ASSUME NEW i \in I, FireWake(i) PROVE WakeInv'
      <3>1. CASE lists[i] # <<>> /\ CoalesceOk(i)
        <4>1. /\ lastWake' = [lastWake EXCEPT ![i] = {pclock}] /\ due' = due \cup {i}
              /\ woken' = woken \cup {i}
          BY <2>3, <3>1 DEF FireWake
        <4> QED BY <2>0, <4>1 DEF WakeInv, WakePerAbsence, I
      <3>2. CASE lists[i] # <<>> /\ ~CoalesceOk(i)
        <4>1. UNCHANGED <<lastWake, woken>> /\ due' = due \cup {i}
          BY <2>3, <3>2 DEF FireWake
        <4>2. lastWake[i] # {}
          BY <3>2 DEF CoalesceOk
        <4> QED BY <2>0, <4>1, <4>2 DEF WakeInv, WakePerAbsence, I
      <3>3. CASE lists[i] = <<>>
        BY <2>1, <2>3, <3>3 DEF FireWake
      <3> QED BY <3>1, <3>2, <3>3
    <2>4. CASE PushRestart
      <3>1. lastWake' = [i \in I |-> {}] /\ UNCHANGED <<due, woken>>
        BY <2>4 DEF PushRestart, pushHistory, I
      <3> QED BY <2>0, <3>1 DEF WakeInv, WakePerAbsence, I
    <2> QED BY <2>1, <2>2, <2>3, <2>4 DEF PushNext, PushTick, SignOff, DeliverNotifyPush,
               PushRegister, UrlChecked, PushUnregister, SendAnswered, pushHistory, pushVars, I
  <1>3. WakeInv => WakePerAbsence
    BY DEF WakeInv
  <1> QED BY <1>1, <1>2, <1>3, PTL DEF PushSpec

-----------------------------------------------------------------------------
(* Endpoints.  What the registry holds in memory and what its table holds  *)
(* are each sound and mirror one another; the order of use, which decides  *)
(* what is swept and evicted, is that of the rows' times, so that a row    *)
(* whose identity is not in memory is past the TTL.                        *)

(* The table and the list are told apart from the state, so that the      *)
(* steps can speak of what was before them and of what is after.          *)
Row(I) == [id : I, token : Tokens, at : 0..MaxPushClock]
Use(I) == [id : I, at : 0..MaxPushClock]
HeldIn(I, l) == {x \in I \X Tokens : \E n \in DOMAIN l[x[1]] : l[x[1]][n].token = x[2]}
Stale(row, now) == Bounded /\ row.at + IdleTtl < now

Distinct(b) ==
  /\ b \in Seq(Endpoint)
  /\ \A m, n \in 1..Len(b) : b[m].token = b[n].token => m = n
(* The endpoints in memory: no token twice, and no more than the bound.   *)
ListsSound(I, l) ==
  /\ l \in [I -> Seq(Endpoint)]
  /\ \A i \in I : Distinct(l[i]) /\ Len(l[i]) <= MaxPerIdentity
(* The table: one row for a pair, in the order in which they were put.    *)
RowsSound(I, r, now) ==
  /\ r \in Seq(Row(I))
  /\ \A n \in 1..Len(r) : r[n].at <= now
  /\ \A m, n \in 1..Len(r) : Stored(r[m]) = Stored(r[n]) => m = n
  /\ \A m, n \in 1..Len(r) : m < n => r[m].at <= r[n].at
(* The order of use, by the time of the last use.                         *)
Uses(I, u, now) ==
  /\ u \in Seq(Use(I))
  /\ \A n \in 1..Len(u) : u[n].at <= now
  /\ \A m, n \in 1..Len(u) : u[m].id = u[n].id => m = n
(* Who is in the order of use is who has endpoints, ...                   *)
InUse(I, u, l) ==
  /\ \A n \in 1..Len(u) : l[u[n].id] # <<>>
  /\ \A i \in I : l[i] # <<>> => \E n \in 1..Len(u) : u[n].id = i
  /\ Bounded => Len(u) <= MaxIdentities
(* ... whose rows are in the table, where all else is past the TTL; ...   *)
Mirrored(I, l, r, now) ==
  /\ \A x \in HeldIn(I, l) : \E n \in 1..Len(r) : Stored(r[n]) = x
  /\ \A n \in 1..Len(r) : Stored(r[n]) \in HeldIn(I, l) \/ Stale(r[n], now)
(* ... and no row is later than the use of its identity.                  *)
Covered(r, u) ==
  \A n \in 1..Len(r), m \in 1..Len(u) : r[n].id = u[m].id => r[n].at <= u[m].at

EndpointsInv ==
  /\ registry \in {"wake", "notify"}
  /\ pclock \in 0..MaxPushClock
  /\ sends \subseteq Identities \X Tokens /\ checks \subseteq Identities \X Tokens
  /\ online \subseteq Identities
  /\ ListsSound(Identities, lists)
  /\ RowsSound(Identities, rows, pclock)
  /\ Uses(Identities, touch, pclock)
  /\ InUse(Identities, touch, lists)
  /\ Mirrored(Identities, lists, rows, pclock)
  /\ Covered(rows, touch)
  /\ HeldIn(Identities, lists) \cap dropped \subseteq overtaken
  /\ checks \cap dropped \subseteq overtaken

(* Rows that are kept (DELETE of the others) keep their order and         *)
(* soundness.                                                             *)
LEMMA RowsPicked ==
  ASSUME NEW I, NEW now, NEW r, RowsSound(I, r, now), NEW P \in SUBSET (1..Len(r))
  PROVE  /\ RowsSound(I, Picked(r, P), now)
         /\ \A k \in 1..Len(Picked(r, P)) : \E n \in P : Picked(r, P)[k] = r[n]
         /\ \A n \in P : \E k \in 1..Len(Picked(r, P)) : Picked(r, P)[k] = r[n]
  <1> DEFINE q == Picked(r, P)
             at(k) == Nth(P, k)
  <1>1. /\ q \in Seq(Row(I)) /\ Len(q) \in Nat
        /\ \A k \in 1..Len(q) : at(k) \in P /\ q[k] = r[at(k)]
        /\ \A n \in P : \E k \in 1..Len(q) : at(k) = n
        /\ \A j, k \in 1..Len(q) : j < k <=> at(j) < at(k)
    <2>1. r \in Seq(Row(I))
      BY DEF RowsSound
    <2> QED BY <2>1, PickedFacts
  <1> HIDE DEF q, at
  <1>2. \A j, k \in 1..Len(q) : Stored(q[j]) = Stored(q[k]) => j = k
    <2> SUFFICES ASSUME NEW j \in 1..Len(q), NEW k \in 1..Len(q),
                        Stored(q[j]) = Stored(q[k])
                 PROVE  j = k
      OBVIOUS
    <2>1. at(j) \in 1..Len(r) /\ at(k) \in 1..Len(r)
          /\ Stored(r[at(j)]) = Stored(r[at(k)])
      BY <1>1
    <2>2. at(j) = at(k)
      BY <2>1 DEF RowsSound
    <2>3. ~(j < k) /\ ~(k < j)
      BY <1>1, <2>1, <2>2
    <2> QED BY <1>1, <2>3
  <1>3. \A n \in 1..Len(q) : q[n].at <= now
    BY <1>1 DEF RowsSound
  <1>4. \A m, n \in 1..Len(q) : m < n => q[m].at <= q[n].at
    <2> SUFFICES ASSUME NEW m \in 1..Len(q), NEW n \in 1..Len(q), m < n
                 PROVE  q[m].at <= q[n].at
      OBVIOUS
    <2>1. at(m) \in 1..Len(r) /\ at(n) \in 1..Len(r) /\ at(m) < at(n)
      BY <1>1
    <2> QED BY <1>1, <2>1 DEF RowsSound
  <1>5. RowsSound(I, q, now)
    BY <1>1, <1>2, <1>3, <1>4 DEF RowsSound
  <1> QED BY <1>1, <1>5 DEF q

(* So does the order of use when identities leave it.                     *)
LEMMA UsesPicked ==
  ASSUME NEW I, NEW now, NEW u \in Seq(Use(I)),
         \A n \in 1..Len(u) : u[n].at <= now,
         \A m, n \in 1..Len(u) : u[m].id = u[n].id => m = n,
         NEW P \in SUBSET (1..Len(u))
  PROVE  /\ Picked(u, P) \in Seq(Use(I))
         /\ Len(Picked(u, P)) = Cardinality(P) /\ Len(Picked(u, P)) <= Len(u)
         /\ \A k \in 1..Len(Picked(u, P)) : Picked(u, P)[k].at <= now
         /\ \A j, k \in 1..Len(Picked(u, P)) :
              Picked(u, P)[j].id = Picked(u, P)[k].id => j = k
         /\ \A k \in 1..Len(Picked(u, P)) : \E n \in P : Picked(u, P)[k] = u[n]
         /\ \A n \in P : \E k \in 1..Len(Picked(u, P)) : Picked(u, P)[k] = u[n]
  <1> DEFINE q == Picked(u, P)
             at(k) == Nth(P, k)
  <1>1. /\ q \in Seq(Use(I)) /\ Len(q) \in Nat
        /\ Len(q) = Cardinality(P) /\ Cardinality(P) <= Len(u)
        /\ \A k \in 1..Len(q) : at(k) \in P /\ q[k] = u[at(k)]
        /\ \A n \in P : \E k \in 1..Len(q) : at(k) = n
        /\ \A j, k \in 1..Len(q) : j < k <=> at(j) < at(k)
    BY PickedFacts
  <1> HIDE DEF q, at
  <1>2. \A j, k \in 1..Len(q) : q[j].id = q[k].id => j = k
    <2> SUFFICES ASSUME NEW j \in 1..Len(q), NEW k \in 1..Len(q), q[j].id = q[k].id
                 PROVE  j = k
      OBVIOUS
    <2>1. at(j) \in 1..Len(u) /\ at(k) \in 1..Len(u) /\ u[at(j)].id = u[at(k)].id
      BY <1>1
    <2>2. at(j) = at(k)
      BY <2>1
    <2>3. ~(j < k) /\ ~(k < j)
      BY <1>1, <2>1, <2>2
    <2> QED BY <1>1, <2>3
  <1>3. \A n \in 1..Len(q) : q[n].at <= now
    BY <1>1
  <1>4. /\ q \in Seq(Use(I)) /\ Len(q) = Cardinality(P) /\ Len(q) <= Len(u)
        /\ \A k \in 1..Len(q) : \E n \in P : q[k] = u[n]
        /\ \A n \in P : \E k \in 1..Len(q) : q[k] = u[n]
    BY <1>1
  <1> QED BY <1>2, <1>3, <1>4 DEF q

Counted(f, l) ==
  IsFiniteSet({f[n] : n \in 1..l}) /\ Cardinality({f[n] : n \in 1..l}) = l

(* Who is named once by each of l entries is counted by them. *)
LEMMA DistinctCount ==
  ASSUME NEW l \in Nat, NEW f, \A m, n \in 1..l : f[m] = f[n] => m = n
  PROVE  Counted(f, l)
  <1> DEFINE S == {f[n] : n \in 1..l}
             g == [n \in 1..l |-> f[n]]
  <1>1. g \in Bijection(1..l, S)
    BY DEF Bijection, Injection, Surjection, IsInjective
  <1>2. IsFiniteSet(1..l) /\ Cardinality(1..l) = l
    BY FS_Interval
  <1>3. ExistsBijection(1..l, S)
    BY <1>1 DEF ExistsBijection
  <1> HIDE DEF S
  <1>4. IsFiniteSet(S) /\ Cardinality(S) = Cardinality(1..l)
    BY <1>2, <1>3, FS_Bijection
  <1> QED BY <1>2, <1>4 DEF S, Counted

(* What is appended comes last, and nothing else moves.                   *)
LEMMA AppendIs ==
  ASSUME NEW T, NEW p \in Seq(T), NEW e \in T
  PROVE  /\ Append(p, e) \in Seq(T) /\ Len(p) \in Nat /\ Len(Append(p, e)) = Len(p) + 1
         /\ \A k \in 1..Len(p) : Append(p, e)[k] = p[k]
         /\ Append(p, e)[Len(p) + 1] = e
  OBVIOUS

(* A function on the first n positions is a sequence of n.                *)
LEMMA FunctionIsSeq ==
  ASSUME NEW T, NEW n \in Nat, NEW f \in [1..n -> T]
  PROVE  f \in Seq(T) /\ Len(f) = n
  OBVIOUS

(* There are n positions up to n.                                         *)
LEMMA IntervalSize == \A n \in Nat : IsFiniteSet(1..n) /\ Cardinality(1..n) = n
  BY FS_Interval

(* INSERT OR REPLACE: the pair has one row, the last, and the others      *)
(* stay.                                                                  *)
LEMMA RowsPut ==
  ASSUME NEW I, NEW r, RowsSound(I, r, pclock), pclock \in 0..MaxPushClock,
         NEW i \in I, NEW t \in Tokens
  PROVE  /\ RowsSound(I, Put(r, i, t), pclock)
         /\ \A k \in 1..Len(Put(r, i, t)) :
              \/ Stored(Put(r, i, t)[k]) = <<i, t>>
              \/ \E n \in 1..Len(r) : Put(r, i, t)[k] = r[n] /\ Stored(r[n]) # <<i, t>>
         /\ \E k \in 1..Len(Put(r, i, t)) : Stored(Put(r, i, t)[k]) = <<i, t>>
         /\ \A n \in 1..Len(r) :
              Stored(r[n]) # <<i, t>> =>
                \E k \in 1..Len(Put(r, i, t)) : Put(r, i, t)[k] = r[n]
  <1> DEFINE P == {n \in 1..Len(r) : Stored(r[n]) # <<i, t>>}
             p == Picked(r, P)
             e == [id |-> i, token |-> t, at |-> pclock]
             q == Append(p, e)
  <1>1. r \in Seq(Row(I)) /\ DOMAIN r = 1..Len(r)
    BY DEF RowsSound
  <1>2. Put(r, i, t) = q
    BY <1>1 DEF Put
  <1>3. /\ RowsSound(I, p, pclock)
        /\ \A k \in 1..Len(p) : \E n \in P : p[k] = r[n]
        /\ \A n \in P : \E k \in 1..Len(p) : p[k] = r[n]
    <2>1. P \in SUBSET (1..Len(r))
      OBVIOUS
    <2> HIDE DEF P, e, q
    <2> QED BY <2>1, RowsPicked
  <1>4. e \in Row(I) /\ e.at = pclock /\ Stored(e) = <<i, t>>
    BY DEF Row, Stored
  <1> HIDE DEF p, e
  <1>5. /\ q \in Seq(Row(I)) /\ Len(p) \in Nat /\ Len(q) = Len(p) + 1
        /\ \A k \in 1..Len(p) : q[k] = p[k]
        /\ q[Len(p) + 1] = e
    BY <1>3, <1>4, AppendIs DEF RowsSound
  <1> HIDE DEF q
  <1>6. \A k \in 1..Len(q) : k \in 1..Len(p) \/ k = Len(p) + 1
    BY <1>5
  <1>7. \A k \in 1..Len(p) : k \in 1..Len(q) /\ k < Len(p) + 1
    BY <1>5
  <1>8. Len(p) + 1 \in 1..Len(q)
    BY <1>5
  <1>9. \A k \in 1..Len(p) : Stored(q[k]) # <<i, t>> /\ q[k].at <= pclock
    BY <1>3, <1>5 DEF RowsSound
  <1>10. Stored(q[Len(p) + 1]) = <<i, t>> /\ q[Len(p) + 1].at <= pclock
    BY <1>4, <1>5
  <1>11. RowsSound(I, q, pclock)
    <2>1. \A m, n \in 1..Len(q) : Stored(q[m]) = Stored(q[n]) => m = n
      <3> SUFFICES ASSUME NEW m \in 1..Len(q), NEW n \in 1..Len(q),
                          Stored(q[m]) = Stored(q[n])
                   PROVE  m = n
        OBVIOUS
      <3>1. CASE m \in 1..Len(p) /\ n \in 1..Len(p)
        BY <1>3, <1>5, <3>1 DEF RowsSound
      <3> QED BY <1>6, <1>9, <1>10, <3>1
    <2>2. \A m, n \in 1..Len(q) : m < n => q[m].at <= q[n].at
      <3> SUFFICES ASSUME NEW m \in 1..Len(q), NEW n \in 1..Len(q), m < n
                   PROVE  q[m].at <= q[n].at
        OBVIOUS
      <3>1. CASE m \in 1..Len(p) /\ n \in 1..Len(p)
        BY <1>3, <1>5, <3>1 DEF RowsSound
      <3>2. CASE n = Len(p) + 1
        <4>1. m \in 1..Len(p)
          BY <1>5, <3>2
        <4> QED BY <1>4, <1>5, <1>9, <3>2, <4>1
      <3>3. CASE m = Len(p) + 1
        BY <1>5, <3>3
      <3> QED BY <1>6, <3>1, <3>2, <3>3
    <2> QED BY <1>5, <1>6, <1>9, <1>10, <2>1, <2>2 DEF RowsSound
  <1>12. \A k \in 1..Len(q) :
           \/ Stored(q[k]) = <<i, t>>
           \/ \E n \in 1..Len(r) : q[k] = r[n] /\ Stored(r[n]) # <<i, t>>
    <2> SUFFICES ASSUME NEW k \in 1..Len(q)
                 PROVE  \/ Stored(q[k]) = <<i, t>>
                        \/ \E n \in 1..Len(r) : q[k] = r[n] /\ Stored(r[n]) # <<i, t>>
      OBVIOUS
    <2>1. CASE k \in 1..Len(p)
      <3>1. PICK n \in P : p[k] = r[n]
        BY <1>3, <2>1
      <3>2. q[k] = p[k]
        BY <1>5, <2>1
      <3> QED BY <3>1, <3>2
    <2>2. CASE k = Len(p) + 1
      BY <1>10, <2>2
    <2> QED BY <1>6, <2>1, <2>2
  <1>13. \A n \in 1..Len(r) : Stored(r[n]) # <<i, t>> => \E k \in 1..Len(q) : q[k] = r[n]
    BY <1>3, <1>5, <1>7
  <1> QED BY <1>2, <1>8, <1>10, <1>11, <1>12, <1>13

(* DELETE takes the rows of the pairs that are gone, and only those.      *)
LEMMA RowsDel ==
  ASSUME NEW I, NEW r, NEW now, RowsSound(I, r, now), NEW gone
  PROVE  /\ RowsSound(I, Del(r, gone), now)
         /\ \A k \in 1..Len(Del(r, gone)) :
              \E n \in 1..Len(r) : Del(r, gone)[k] = r[n] /\ Stored(r[n]) \notin gone
         /\ \A n \in 1..Len(r) :
              Stored(r[n]) \notin gone =>
                \E k \in 1..Len(Del(r, gone)) : Del(r, gone)[k] = r[n]
  <1> DEFINE P == {n \in 1..Len(r) : Stored(r[n]) \notin gone}
  <1>1. Del(r, gone) = Picked(r, P)
    <2>1. DOMAIN r = 1..Len(r)
      BY DEF RowsSound
    <2> QED BY <2>1 DEF Del
  <1>2. /\ RowsSound(I, Picked(r, P), now)
        /\ \A k \in 1..Len(Picked(r, P)) : \E n \in P : Picked(r, P)[k] = r[n]
        /\ \A n \in P : \E k \in 1..Len(Picked(r, P)) : Picked(r, P)[k] = r[n]
    <2>1. P \in SUBSET (1..Len(r))
      OBVIOUS
    <2> HIDE DEF P
    <2> QED BY <2>1, RowsPicked
  <1> QED BY <1>1, <1>2

KeepsOrder(w, u, gone, I, now) ==
  /\ Uses(I, w, now)
  /\ Len(w) <= Len(u)
  /\ \A n \in 1..Len(u) : u[n].id \in gone => Len(w) < Len(u)
  /\ \A k \in 1..Len(w) : \E n \in 1..Len(u) : w[k] = u[n] /\ u[n].id \notin gone
  /\ \A n \in 1..Len(u) : u[n].id \notin gone => \E k \in 1..Len(w) : w[k] = u[n]

(* Identities that are gone leave the order of use, the others keep       *)
(* theirs.                                                                *)
LEMMA UsesWithout ==
  ASSUME NEW I, NEW u, NEW now, Uses(I, u, now), NEW gone
  PROVE  KeepsOrder(Without(u, gone), u, gone, I, now)
  <1> DEFINE P == {n \in 1..Len(u) : u[n].id \notin gone}
  <1>1. Without(u, gone) = Picked(u, P)
    <2>1. DOMAIN u = 1..Len(u)
      BY DEF Uses
    <2> QED BY <2>1 DEF Without
  <1>2. /\ Picked(u, P) \in Seq(Use(I))
        /\ Len(Picked(u, P)) = Cardinality(P) /\ Len(Picked(u, P)) <= Len(u)
        /\ \A k \in 1..Len(Picked(u, P)) : Picked(u, P)[k].at <= now
        /\ \A j, k \in 1..Len(Picked(u, P)) :
             Picked(u, P)[j].id = Picked(u, P)[k].id => j = k
        /\ \A k \in 1..Len(Picked(u, P)) : \E n \in P : Picked(u, P)[k] = u[n]
        /\ \A n \in P : \E k \in 1..Len(Picked(u, P)) : Picked(u, P)[k] = u[n]
    <2>1. P \in SUBSET (1..Len(u))
      OBVIOUS
    <2> HIDE DEF P
    <2> QED BY <2>1, UsesPicked DEF Uses
  <1>3. \A n \in 1..Len(u) : u[n].id \in gone => Cardinality(P) < Len(u)
    <2> SUFFICES ASSUME NEW n \in 1..Len(u), u[n].id \in gone
                 PROVE  Cardinality(P) < Len(u)
      OBVIOUS
    <2>1. Len(u) \in Nat
      BY DEF Uses
    <2>2. IsFiniteSet(1..Len(u)) /\ Cardinality(1..Len(u)) = Len(u)
      BY <2>1, IntervalSize
    <2>3. P \subseteq 1..Len(u) /\ P # 1..Len(u)
      OBVIOUS
    <2>4. Cardinality(P) \in Nat /\ Cardinality(P) <= Len(u) /\ Cardinality(P) # Len(u)
      BY <2>1, <2>2, <2>3, FS_Subset, FS_CardinalityType
    <2> HIDE DEF P
    <2> QED BY <2>1, <2>4
  <1> QED BY <1>1, <1>2, <1>3 DEF Uses, KeepsOrder

(* A token that registers again keeps its place, a new one is the last.   *)
LEMMA RefreshedList ==
  ASSUME pclock \in 0..MaxPushClock, NEW t \in Tokens, NEW b, Distinct(b)
  PROVE  /\ Distinct(Refreshed(b, t))
         /\ \A n \in 1..Len(b) :
              n \in 1..Len(Refreshed(b, t)) /\ Refreshed(b, t)[n].token = b[n].token
         /\ \A n \in 1..Len(Refreshed(b, t)) :
              n \in 1..Len(b) \/ (n = Len(b) + 1 /\ Refreshed(b, t)[n].token = t)
         /\ \/ /\ Len(Refreshed(b, t)) = Len(b)
               /\ \E n \in 1..Len(b) : b[n].token = t
            \/ /\ Len(Refreshed(b, t)) = Len(b) + 1
               /\ Refreshed(b, t)[Len(b) + 1].token = t
  <1> DEFINE e == [token |-> t, at |-> pclock]
             full == Refreshed(b, t)
             l == Len(b)
  <1>1. /\ e \in Endpoint /\ e.token = t
        /\ b \in Seq(Endpoint) /\ l \in Nat /\ DOMAIN b = 1..l
        /\ \A m, n \in 1..l : b[m].token = b[n].token => m = n
    BY DEF Endpoint, Distinct
  <1>2. CASE \E n \in DOMAIN b : b[n].token = t
    <2>1. full = [n \in 1..l |-> IF b[n].token = t THEN e ELSE b[n]]
      BY <1>1, <1>2 DEF Refreshed
    <2>2. \A n \in 1..l : b[n] \in Endpoint
      BY <1>1
    <2> HIDE DEF e, full, l
    <2>3. full \in [1..l -> Endpoint] /\ \A n \in 1..l : full[n].token = b[n].token
      BY <1>1, <2>1, <2>2
    <2>4. full \in Seq(Endpoint) /\ Len(full) = l
      BY <1>1, <2>3, FunctionIsSeq
    <2>5. Distinct(full)
      BY <1>1, <2>3, <2>4 DEF Distinct
    <2> QED BY <1>1, <1>2, <2>3, <2>4, <2>5 DEF full, l
  <1>3. CASE ~\E n \in DOMAIN b : b[n].token = t
    <2>1. full = Append(b, e)
      BY <1>3 DEF Refreshed
    <2> HIDE DEF e, full
    <2>2. /\ full \in Seq(Endpoint) /\ Len(full) = l + 1
          /\ \A k \in 1..l : full[k] = b[k]
          /\ full[l + 1] = e
      BY <1>1, <2>1, AppendIs
    <2>3. \A n \in 1..Len(full) : n \in 1..l \/ n = l + 1
      BY <1>1, <2>2
    <2>4. \A n \in 1..l : n \in 1..Len(full) /\ b[n].token # t
      BY <1>1, <1>3, <2>2
    <2> HIDE DEF l
    <2>5. \A m, n \in 1..Len(full) : full[m].token = full[n].token => m = n
      BY <1>1, <2>2, <2>3, <2>4
    <2>6. Distinct(full)
      BY <2>2, <2>5 DEF Distinct
    <2> QED BY <1>1, <2>2, <2>3, <2>4, <2>6 DEF full, l
  <1> QED BY <1>2, <1>3

IsRest(list, full, over) ==
  /\ Distinct(list) /\ Len(list) = Len(full) - over
  /\ \A n \in 1..Len(list) : over + n \in 1..Len(full) /\ list[n] = full[over + n]
  /\ \A n \in 1..Len(full) :
       \/ n \in 1..over
       \/ n - over \in 1..Len(list) /\ list[n - over] = full[n]

(* The oldest endpoints leave the list from the front.                    *)
LEMMA TrimmedList ==
  ASSUME NEW full, Distinct(full), NEW over \in Nat, over < Len(full),
         NEW list, list = SubSeq(full, over + 1, Len(full))
  PROVE  IsRest(list, full, over)
  <1> DEFINE L == Len(full)
  <1>1. full \in Seq(Endpoint) /\ L \in Nat
        /\ \A m, n \in 1..L : full[m].token = full[n].token => m = n
    BY DEF Distinct
  <1>2. /\ list \in Seq(Endpoint) /\ Len(list) = L - over
        /\ \A n \in 1..(L - over) : list[n] = full[over + n]
    BY <1>1
  <1> HIDE DEF L
  <1>3. over < L
    BY DEF L
  <1>4. \A n \in 1..(L - over) : over + n \in 1..L
    BY <1>1, <1>3
  <1>5. \A m, n \in 1..Len(list) : list[m].token = list[n].token => m = n
    <2> SUFFICES ASSUME NEW m \in 1..Len(list), NEW n \in 1..Len(list),
                        list[m].token = list[n].token
                 PROVE  m = n
      OBVIOUS
    <2>0. /\ m \in 1..(L - over) /\ n \in 1..(L - over)
          /\ list[m] = full[over + m] /\ list[n] = full[over + n]
      BY <1>2
    <2>1. over + m = over + n
      <3>1. over + m \in 1..L /\ over + n \in 1..L
        BY <1>4, <2>0
      <3>2. full[over + m].token = full[over + n].token
        BY <2>0
      <3> QED BY <1>1, <3>1, <3>2
    <2>2. m \in Int /\ n \in Int
      BY <1>1, <1>2
    <2> QED BY <2>1, <2>2
  <1>6. \A n \in 1..L : n \notin 1..over => n - over \in 1..(L - over)
                                            /\ over + (n - over) = n
    BY <1>1, <1>3
  <1>7. Distinct(list)
    BY <1>2, <1>5 DEF Distinct
  <1> QED BY <1>2, <1>4, <1>6, <1>7 DEF L, IsRest

Over(full) == IF Len(full) > MaxPerIdentity THEN Len(full) - MaxPerIdentity ELSE 0

(* The list that a registration leaves. *)
IsEnrolled(list, full, b, t) ==
  /\ Distinct(list) /\ Len(list) <= MaxPerIdentity /\ list # <<>>
  /\ \E n \in 1..Len(list) : list[n].token = t
  /\ \A n \in 1..Len(list) :
       \/ list[n].token = t
       \/ \E m \in 1..Len(b) : b[m].token = list[n].token
  /\ \A n \in 1..Over(full) : \A m \in 1..Len(list) : full[n].token # list[m].token
  /\ \A m \in 1..Len(b) :
       \/ \E n \in 1..Len(list) : list[n].token = b[m].token
       \/ \E n \in 1..Over(full) : full[n].token = b[m].token

(* A registration leaves a list within MaxPerIdentity that has its token. *)
LEMMA EnrolledList ==
  ASSUME pclock \in 0..MaxPushClock, NEW t \in Tokens,
         NEW b, Distinct(b), Len(b) <= MaxPerIdentity,
         NEW full, full = Refreshed(b, t),
         NEW list, list = SubSeq(full, Over(full) + 1, Len(full))
  PROVE  IsEnrolled(list, full, b, t)
  <1> DEFINE L == Len(full)
             l == Len(b)
             over == Over(full)
  <1>1. /\ Distinct(full)
        /\ \A n \in 1..l : n \in 1..L /\ full[n].token = b[n].token
        /\ \A n \in 1..L : n \in 1..l \/ (n = l + 1 /\ full[n].token = t)
        /\ \/ L = l /\ \E n \in 1..l : b[n].token = t
           \/ L = l + 1 /\ full[l + 1].token = t
    BY RefreshedList
  <1>2. L \in Nat /\ l \in Nat /\ MaxPerIdentity \in Nat /\ MaxPerIdentity >= 1
    BY <1>1, PushAssumption DEF Distinct
  <1>3. l <= MaxPerIdentity /\ over = IF L > MaxPerIdentity THEN L - MaxPerIdentity ELSE 0
    BY DEF Over
  <1> HIDE DEF L, l, over
  <1>4. /\ over \in Nat
        /\ L = l => over = 0
        /\ L = l + 1 => over < L
        /\ L - over <= MaxPerIdentity
    BY <1>1, <1>2, <1>3
  <1>5. \E n \in 1..L : full[n].token = t /\ n \notin 1..over
    <2>1. CASE L = l /\ \E n \in 1..l : b[n].token = t
      <3>1. PICK n \in 1..l : b[n].token = t
        BY <2>1
      <3>2. n \notin 1..over
        BY <1>4, <2>1
      <3> QED BY <1>1, <3>1, <3>2
    <2>2. CASE L = l + 1 /\ full[l + 1].token = t
      <3>1. l + 1 \in 1..L /\ l + 1 \notin 1..over
        BY <1>2, <1>4, <2>2
      <3> QED BY <2>2, <3>1
    <2> QED BY <1>1, <2>1, <2>2
  <1>6. over < L
    BY <1>1, <1>2, <1>4, <1>5
  <1>7. /\ Distinct(list) /\ Len(list) = L - over
        /\ \A n \in 1..Len(list) : over + n \in 1..L /\ list[n] = full[over + n]
        /\ \A n \in 1..L :
             \/ n \in 1..over
             \/ n - over \in 1..Len(list) /\ list[n - over] = full[n]
    <2>1. over < Len(full) /\ list = SubSeq(full, over + 1, Len(full))
      BY <1>6 DEF L, over
    <2>2. Distinct(full) /\ over \in Nat
      BY <1>1, <1>4
    <2>3. IsRest(list, full, over)
      BY <2>1, <2>2, TrimmedList
    <2> QED BY <2>3 DEF L, IsRest
  <1>8. Len(list) <= MaxPerIdentity /\ Len(list) # 0 /\ Len(list) \in Nat
    <2>1. Len(list) = L - over
      BY <1>7
    <2>2. L - over \in Nat /\ L - over # 0 /\ L - over <= MaxPerIdentity
      BY <1>2, <1>4, <1>6
    <2> QED BY <2>1, <2>2
  <1>9. list # <<>>
    BY <1>8
  <1>10. \E n \in 1..Len(list) : list[n].token = t
    <2>1. PICK n \in 1..L : full[n].token = t /\ n \notin 1..over
      BY <1>5
    <2>2. n - over \in 1..Len(list) /\ list[n - over] = full[n]
      BY <1>7, <2>1
    <2> QED BY <2>1, <2>2
  <1>11. \A n \in 1..Len(list) :
           list[n].token = t \/ \E m \in 1..l : b[m].token = list[n].token
    <2> TAKE n \in 1..Len(list)
    <2>1. over + n \in 1..L /\ list[n] = full[over + n]
      BY <1>7
    <2>2. \/ full[over + n].token = t
          \/ full[over + n].token = b[over + n].token /\ over + n \in 1..l
      BY <1>1, <2>1
    <2> QED BY <2>1, <2>2
  <1>12. \A n \in 1..over : \A m \in 1..Len(list) : full[n].token # list[m].token
    <2> SUFFICES ASSUME NEW n \in 1..over, NEW m \in 1..Len(list),
                        full[n].token = list[m].token
                 PROVE  FALSE
      OBVIOUS
    <2>1. n \in 1..L
      BY <1>2, <1>4, <1>6
    <2>2. over + m \in 1..L /\ full[n].token = full[over + m].token
      BY <1>7
    <2>3. n = over + m
      BY <1>1, <2>1, <2>2 DEF Distinct, L
    <2>4. m \in Nat /\ m >= 1 /\ n <= over
      BY <1>4, <1>8
    <2> QED BY <1>4, <2>3, <2>4
  <1>13. \A m \in 1..l :
           \/ \E n \in 1..Len(list) : list[n].token = b[m].token
           \/ \E n \in 1..over : full[n].token = b[m].token
    <2> TAKE m \in 1..l
    <2>1. m \in 1..L /\ full[m].token = b[m].token
      BY <1>1
    <2>2. m \in 1..over \/ (m - over \in 1..Len(list) /\ list[m - over] = full[m])
      BY <1>7, <2>1
    <2> QED BY <2>1, <2>2
  <1> QED BY <1>7, <1>8, <1>9, <1>10, <1>11, <1>12, <1>13 DEF L, l, over, IsEnrolled

(* Memory and table before a step of the registry. *)
Memory ==
  /\ pclock \in 0..MaxPushClock
  /\ ListsSound(Identities, lists)
  /\ RowsSound(Identities, rows, pclock)
  /\ Uses(Identities, touch, pclock) /\ InUse(Identities, touch, lists)
  /\ Mirrored(Identities, lists, rows, pclock) /\ Covered(rows, touch)

(* An identity that was swept has only rows that are past the TTL. *)
LEMMA SweptIsStale ==
  ASSUME Memory
  PROVE  \A n \in 1..Len(rows) : rows[n].id \in Expired => Stale(rows[n], pclock)
  <1> SUFFICES ASSUME NEW n \in 1..Len(rows), rows[n].id \in Expired
               PROVE  Stale(rows[n], pclock)
    OBVIOUS
  <1>1. DOMAIN touch = 1..Len(touch)
    BY DEF Memory, Uses
  <1>2. PICK m \in 1..Len(touch) : touch[m].id = rows[n].id /\ Bounded
                                   /\ touch[m].at + IdleTtl < pclock
    BY <1>1 DEF Expired
  <1>3. rows[n].at <= touch[m].at
    BY <1>2 DEF Memory, Covered
  <1>4. rows[n].at \in Nat /\ touch[m].at \in Nat /\ pclock \in Nat /\ IdleTtl \in Nat
    <2>1. rows[n] \in Row(Identities) /\ touch[m] \in Use(Identities)
      BY DEF Memory, RowsSound, Uses
    <2> QED BY <2>1, PushAssumption DEF Row, Use, Memory
  <1> QED BY <1>2, <1>3, <1>4 DEF Stale

Live(j) == lists[j] # <<>> /\ j \notin Expired
Before(i) == IF Live(i) THEN lists[i] ELSE <<>>
Full(i, t) == Refreshed(Before(i), t)
Enrolled(i, t) == SubSeq(Full(i, t), Over(Full(i, t)) + 1, Len(Full(i, t)))
Order(i) == Append(Without(touch, Expired \cup {i}), [id |-> i, at |-> pclock])
Evicted(i) == LeastRecent(Order(i), i, {j \in Identities : Live(j)})
Lost(i, t) == {<<i, Full(i, t)[n].token>> : n \in 1..Over(Full(i, t))}
                \cup {x \in Evicted(i) \X Tokens : x[2] \in Held(x[1])}

(* TokenRegistry.register, in the terms above.                            *)
LEMMA EnrollIs ==
  ASSUME NEW i, NEW t, Enroll(i, t)
  PROVE  /\ lists' = [j \in Identities |->
                        IF j = i THEN Enrolled(i, t)
                        ELSE IF j \in Expired \cup Evicted(i) THEN <<>> ELSE lists[j]]
         /\ touch' = Without(Order(i), Evicted(i))
         /\ rows' = Put(Del(rows, Lost(i, t)), i, t)
  BY Zenon DEF Enroll, Live, Before, Full, Enrolled, Order, Evicted, Lost, Over

(* What a registration leaves of its own list. *)
LEMMA EnrolledIs ==
  ASSUME Memory, NEW i \in Identities, NEW t \in Tokens
  PROVE  /\ Distinct(Enrolled(i, t)) /\ Len(Enrolled(i, t)) <= MaxPerIdentity
         /\ Enrolled(i, t) # <<>>
         /\ \E n \in 1..Len(Enrolled(i, t)) : Enrolled(i, t)[n].token = t
         /\ \A n \in 1..Len(Enrolled(i, t)) :
              \/ Enrolled(i, t)[n].token = t
              \/ Live(i) /\ \E m \in 1..Len(lists[i]) :
                              lists[i][m].token = Enrolled(i, t)[n].token
         /\ \A n \in 1..Len(Enrolled(i, t)) : <<i, Enrolled(i, t)[n].token>> \notin Lost(i, t)
         /\ Live(i) => \A m \in 1..Len(lists[i]) :
              \/ \E n \in 1..Len(Enrolled(i, t)) : Enrolled(i, t)[n].token = lists[i][m].token
              \/ <<i, lists[i][m].token>> \in Lost(i, t)
  <1> DEFINE b == Before(i)
             full == Full(i, t)
             list == Enrolled(i, t)
  <1>1. Distinct(b) /\ Len(b) <= MaxPerIdentity
    <2>1. Distinct(lists[i]) /\ Len(lists[i]) <= MaxPerIdentity
      BY DEF Memory, ListsSound
    <2>2. Distinct(<<>>) /\ Len(<<>>) <= MaxPerIdentity
      BY PushAssumption DEF Distinct
    <2> QED BY <2>1, <2>2 DEF Before
  <1>2. full = Refreshed(b, t) /\ list = SubSeq(full, Over(full) + 1, Len(full))
    BY DEF Full, Enrolled
  <1>3. pclock \in 0..MaxPushClock
    BY DEF Memory
  <1> HIDE DEF b, full, list
  <1>4. /\ Distinct(list) /\ Len(list) <= MaxPerIdentity /\ list # <<>>
        /\ \E n \in 1..Len(list) : list[n].token = t
        /\ \A n \in 1..Len(list) :
             \/ list[n].token = t
             \/ \E m \in 1..Len(b) : b[m].token = list[n].token
        /\ \A n \in 1..Over(full) : \A m \in 1..Len(list) : full[n].token # list[m].token
        /\ \A m \in 1..Len(b) :
             \/ \E n \in 1..Len(list) : list[n].token = b[m].token
             \/ \E n \in 1..Over(full) : full[n].token = b[m].token
    <2>1. IsEnrolled(list, full, b, t)
      BY <1>1, <1>2, <1>3, EnrolledList
    <2> QED BY <2>1 DEF IsEnrolled
  <1>5. /\ Live(i) => b = lists[i]
        /\ ~Live(i) => b = <<>>
    BY DEF b, Before
  <1>6. \A x : <<i, x>> \in Lost(i, t) <=> \E n \in 1..Over(full) : full[n].token = x
    <2>1. i \notin Evicted(i)
      BY DEF Evicted, LeastRecent
    <2> QED BY <2>1 DEF Lost, full
  <1>7. \A n \in 1..Len(list) :
          \/ list[n].token = t
          \/ Live(i) /\ \E m \in 1..Len(lists[i]) : lists[i][m].token = list[n].token
    BY <1>4, <1>5
  <1>8. \A n \in 1..Len(list) : <<i, list[n].token>> \notin Lost(i, t)
    BY <1>4, <1>6
  <1>9. Live(i) => \A m \in 1..Len(lists[i]) :
          \/ \E n \in 1..Len(list) : list[n].token = lists[i][m].token
          \/ <<i, lists[i][m].token>> \in Lost(i, t)
    BY <1>4, <1>5, <1>6
  <1> QED BY <1>4, <1>7, <1>8, <1>9 DEF list

(* The order of use after the registration, before the eviction. *)
LEMMA OrderIs ==
  ASSUME Memory, NEW i \in Identities
  PROVE  /\ Uses(Identities, Order(i), pclock)
         /\ \E n \in 1..Len(Order(i)) : Order(i)[n] = [id |-> i, at |-> pclock]
         /\ \A n \in 1..Len(Order(i)) :
              \/ Order(i)[n] = [id |-> i, at |-> pclock]
              \/ \E m \in 1..Len(touch) :
                   /\ Order(i)[n] = touch[m] /\ touch[m].id # i
                   /\ touch[m].id \notin Expired
         /\ \A m \in 1..Len(touch) :
              touch[m].id \notin Expired \cup {i} =>
                \E n \in 1..Len(Order(i)) : Order(i)[n] = touch[m]
         /\ Len(Order(i)) \in Nat /\ Len(Order(i)) <= Len(touch) + 1
         /\ Order(i)[Len(Order(i))].id = i
  <1> DEFINE p == Without(touch, Expired \cup {i})
             e == [id |-> i, at |-> pclock]
             q == Order(i)
             l == Len(p)
  <1>1. /\ Uses(Identities, p, pclock) /\ l <= Len(touch)
        /\ \A k \in 1..l :
             \E n \in 1..Len(touch) : p[k] = touch[n] /\ touch[n].id \notin Expired \cup {i}
        /\ \A n \in 1..Len(touch) :
             touch[n].id \notin Expired \cup {i} => \E k \in 1..l : p[k] = touch[n]
    <2>1. Uses(Identities, touch, pclock)
      BY DEF Memory
    <2>2. \A gone : KeepsOrder(Without(touch, gone), touch, gone, Identities, pclock)
      BY <2>1, UsesWithout
    <2>3. KeepsOrder(p, touch, Expired \cup {i}, Identities, pclock)
      BY <2>2
    <2> HIDE DEF p
    <2> QED BY <2>3 DEF KeepsOrder
  <1>2. /\ e \in Use(Identities) /\ e.id = i /\ e.at = pclock
        /\ pclock \in Nat /\ Len(touch) \in Nat
    BY DEF Use, Memory, Uses
  <1>3. q = Append(p, e)
    BY DEF Order
  <1> HIDE DEF p, e, q
  <1>4. /\ q \in Seq(Use(Identities)) /\ l \in Nat /\ Len(q) = l + 1
        /\ \A k \in 1..l : q[k] = p[k]
        /\ q[l + 1] = e
    BY <1>1, <1>2, <1>3, AppendIs DEF Uses
  <1>5. \A k \in 1..Len(q) : k \in 1..l \/ k = l + 1
    BY <1>4
  <1>6. \A k \in 1..l : k \in 1..Len(q)
    BY <1>4
  <1>7. \A k \in 1..l : q[k].id # i /\ q[k].at <= pclock
    BY <1>1, <1>4 DEF Uses
  <1>8. Uses(Identities, q, pclock)
    <2>1. \A n \in 1..Len(q) : q[n].at <= pclock
      BY <1>2, <1>4, <1>5, <1>7
    <2>2. \A m, n \in 1..Len(q) : q[m].id = q[n].id => m = n
      <3> SUFFICES ASSUME NEW m \in 1..Len(q), NEW n \in 1..Len(q), q[m].id = q[n].id
                   PROVE  m = n
        OBVIOUS
      <3>1. CASE m \in 1..l /\ n \in 1..l
        BY <1>1, <1>4, <3>1 DEF Uses
      <3> QED BY <1>2, <1>4, <1>5, <1>7, <3>1
    <2> QED BY <1>4, <2>1, <2>2 DEF Uses
  <1>9. \E n \in 1..Len(q) : q[n] = e
    <2>1. l + 1 \in 1..Len(q)
      BY <1>4
    <2> QED BY <1>4, <2>1
  <1>10. \A n \in 1..Len(q) :
           \/ q[n] = e
           \/ \E m \in 1..Len(touch) :
                q[n] = touch[m] /\ touch[m].id # i /\ touch[m].id \notin Expired
    BY <1>1, <1>4, <1>5
  <1>11. \A m \in 1..Len(touch) :
           touch[m].id \notin Expired \cup {i} => \E n \in 1..Len(q) : q[n] = touch[m]
    BY <1>1, <1>4, <1>6
  <1>12. Len(q) \in Nat /\ Len(q) <= Len(touch) + 1
    <2>1. l <= Len(touch)
      BY <1>1
    <2> HIDE DEF l
    <2> QED BY <1>2, <1>4, <2>1
  <1>13. q[Len(q)].id = i
    BY <1>2, <1>4
  <1> QED BY <1>8, <1>9, <1>10, <1>11, <1>12, <1>13 DEF q, e

(* Who is in the order of use has endpoints.                              *)
LEMMA TouchIs ==
  ASSUME Memory
  PROVE  \A m \in 1..Len(touch) :
           /\ touch[m].id \in Identities /\ lists[touch[m].id] # <<>>
           /\ touch[m].at \in Nat /\ touch[m].at <= pclock
  <1> TAKE m \in 1..Len(touch)
  <1>1. touch \in Seq(Use(Identities)) /\ touch[m].at <= pclock
    BY DEF Memory, Uses
  <1>2. touch[m] \in Use(Identities)
    BY <1>1
  <1>3. touch[m].id \in Identities /\ touch[m].at \in Nat
    BY <1>2, PushAssumption DEF Use
  <1>4. lists[touch[m].id] # <<>>
    BY DEF Memory, InUse
  <1> QED BY <1>1, <1>3, <1>4

(* Beyond MaxIdentities one identity goes, and never the one that         *)
(* registers.                                                             *)
LEMMA EvictedIs ==
  ASSUME Memory, NEW i \in Identities
  PROVE  /\ i \notin Evicted(i)
         /\ \A j \in Evicted(i) : j \in Identities /\ Live(j)
         /\ Bounded => \/ Len(Order(i)) <= MaxIdentities
                       \/ \E n \in 1..Len(Order(i)) : Order(i)[n].id \in Evicted(i)
  <1> DEFINE q == Order(i)
             ids == {j \in Identities : Live(j)} \cup {i}
  <1>1. /\ Uses(Identities, q, pclock)
        /\ \E n \in 1..Len(q) : q[n] = [id |-> i, at |-> pclock]
        /\ \A n \in 1..Len(q) :
             \/ q[n] = [id |-> i, at |-> pclock]
             \/ \E m \in 1..Len(touch) :
                  q[n] = touch[m] /\ touch[m].id # i /\ touch[m].id \notin Expired
        /\ \A m \in 1..Len(touch) :
             touch[m].id \notin Expired \cup {i} => \E n \in 1..Len(q) : q[n] = touch[m]
        /\ Len(q) \in Nat /\ q[Len(q)].id = i
    BY OrderIs
  <1>2. Evicted(i) = IF Bounded /\ Cardinality(ids) > MaxIdentities
                     THEN {q[1].id} \ {i} ELSE {}
    BY DEF Evicted, LeastRecent
  <1> HIDE DEF q
  <1>3. \A n \in 1..Len(q) : q[n].id # i => q[n].id \in Identities /\ Live(q[n].id)
    <2> SUFFICES ASSUME NEW n \in 1..Len(q), q[n].id # i
                 PROVE  q[n].id \in Identities /\ Live(q[n].id)
      OBVIOUS
    <2>1. PICK m \in 1..Len(touch) : q[n] = touch[m] /\ touch[m].id \notin Expired
      BY <1>1
    <2>2. touch[m].id \in Identities /\ lists[touch[m].id] # <<>>
      BY TouchIs
    <2> QED BY <2>1, <2>2 DEF Live
  <1>4. ids = {q[n].id : n \in 1..Len(q)}
    <2>1. \A j \in ids : \E n \in 1..Len(q) : q[n].id = j
      <3> SUFFICES ASSUME NEW j \in ids
                   PROVE  \E n \in 1..Len(q) : q[n].id = j
        OBVIOUS
      <3>1. CASE j = i
        BY <1>1, <3>1
      <3>2. CASE j # i
        <4>1. j \in Identities /\ lists[j] # <<>> /\ j \notin Expired
          BY <3>2 DEF Live
        <4>2. PICK m \in 1..Len(touch) : touch[m].id = j
          BY <4>1 DEF Memory, InUse
        <4> QED BY <1>1, <3>2, <4>1, <4>2
      <3> QED BY <3>1, <3>2
    <2>2. \A n \in 1..Len(q) : q[n].id \in ids
      BY <1>3
    <2> HIDE DEF ids
    <2> QED BY <2>1, <2>2
  <1>5. Cardinality(ids) = Len(q)
    <2> DEFINE f == [n \in 1..Len(q) |-> q[n].id]
    <2>1. \A m, n \in 1..Len(q) : f[m] = f[n] => m = n
      BY <1>1 DEF Uses
    <2>2. {f[n] : n \in 1..Len(q)} = {q[n].id : n \in 1..Len(q)}
      OBVIOUS
    <2> HIDE DEF f, ids
    <2>3. Cardinality({f[n] : n \in 1..Len(q)}) = Len(q)
      <3>1. Len(q) \in Nat
        BY <1>1
      <3>2. Counted(f, Len(q))
        BY <2>1, <3>1, DistinctCount
      <3> QED BY <3>2 DEF Counted
    <2> QED BY <1>4, <2>2, <2>3
  <1>6. Len(q) >= 1
    BY <1>1
  <1>7. \A j \in Evicted(i) : j \in Identities /\ Live(j)
    <2> SUFFICES ASSUME NEW j \in Evicted(i)
                 PROVE  j \in Identities /\ Live(j)
      OBVIOUS
    <2>1. j = q[1].id /\ j # i
      BY <1>2
    <2>2. 1 \in 1..Len(q)
      BY <1>1, <1>6
    <2> QED BY <1>3, <2>1, <2>2
  <1>8. ASSUME Bounded, ~(Len(q) <= MaxIdentities)
        PROVE  \E n \in 1..Len(q) : q[n].id \in Evicted(i)
    <2>1. MaxIdentities \in Nat /\ MaxIdentities >= 1
      BY PushAssumption
    <2>2. Len(q) > MaxIdentities /\ 1 \in 1..Len(q) /\ Len(q) \in 1..Len(q) /\ 1 # Len(q)
      BY <1>1, <1>6, <1>8, <2>1
    <2>3. q[1].id # q[Len(q)].id
      BY <1>1, <2>2 DEF Uses
    <2>4. q[1].id \in Evicted(i)
      BY <1>1, <1>2, <1>5, <1>8, <2>2, <2>3
    <2> QED BY <2>2, <2>4
  <1>9. i \notin Evicted(i)
    BY <1>2
  <1> QED BY <1>7, <1>8, <1>9 DEF q

(* A registration leaves every identity of the order of use with          *)
(* endpoints.                                                             *)
LEMMA EnrollUses ==
  ASSUME Memory, NEW i \in Identities, NEW t \in Tokens, Enroll(i, t)
  PROVE  /\ ListsSound(Identities, lists')
         /\ Uses(Identities, touch', pclock) /\ InUse(Identities, touch', lists')

  <1>1. /\ lists' = [j \in Identities |->
                       IF j = i THEN Enrolled(i, t)
                       ELSE IF j \in Expired \cup Evicted(i) THEN <<>> ELSE lists[j]]
        /\ touch' = Without(Order(i), Evicted(i))
    BY EnrollIs
  <1>2. /\ Distinct(Enrolled(i, t)) /\ Len(Enrolled(i, t)) <= MaxPerIdentity
        /\ Enrolled(i, t) # <<>>
    BY EnrolledIs
  <1>3. ListsSound(Identities, lists')
    <2>1. \A j \in Identities : Distinct(lists[j]) /\ Len(lists[j]) <= MaxPerIdentity
      BY DEF Memory, ListsSound
    <2>2. Distinct(<<>>) /\ Len(<<>>) <= MaxPerIdentity
      BY PushAssumption DEF Distinct
    <2>3. \A j \in Identities : Distinct(lists'[j]) /\ Len(lists'[j]) <= MaxPerIdentity
      BY <1>1, <1>2, <2>1, <2>2
    <2>4. lists' \in [Identities -> Seq(Endpoint)]
      BY <1>1, <2>3 DEF Distinct
    <2> QED BY <2>3, <2>4 DEF ListsSound
  <1> DEFINE q == Order(i)
             w == touch'
  <1>4. /\ Uses(Identities, q, pclock)
        /\ \E n \in 1..Len(q) : q[n] = [id |-> i, at |-> pclock]
        /\ \A n \in 1..Len(q) :
             \/ q[n] = [id |-> i, at |-> pclock]
             \/ \E m \in 1..Len(touch) :
                  q[n] = touch[m] /\ touch[m].id # i /\ touch[m].id \notin Expired
        /\ \A m \in 1..Len(touch) :
             touch[m].id \notin Expired \cup {i} => \E n \in 1..Len(q) : q[n] = touch[m]
        /\ Len(q) \in Nat /\ Len(q) <= Len(touch) + 1
    BY OrderIs
  <1>5. KeepsOrder(w, q, Evicted(i), Identities, pclock)
    BY <1>1, <1>4, UsesWithout
  <1>6. /\ i \notin Evicted(i)
        /\ \A j \in Evicted(i) : j \in Identities /\ Live(j)
        /\ Bounded => \/ Len(q) <= MaxIdentities
                      \/ \E n \in 1..Len(q) : q[n].id \in Evicted(i)
    BY EvictedIs
  <1> HIDE DEF q, w
  <1>7. /\ Uses(Identities, w, pclock) /\ Len(w) <= Len(q)
        /\ \A n \in 1..Len(q) : q[n].id \in Evicted(i) => Len(w) < Len(q)
        /\ \A k \in 1..Len(w) : \E n \in 1..Len(q) : w[k] = q[n] /\ q[n].id \notin Evicted(i)
        /\ \A n \in 1..Len(q) : q[n].id \notin Evicted(i) => \E k \in 1..Len(w) : w[k] = q[n]
    BY <1>5 DEF KeepsOrder
  <1>8. \A k \in 1..Len(w) : lists'[w[k].id] # <<>>
    <2> SUFFICES ASSUME NEW k \in 1..Len(w)
                 PROVE  lists'[w[k].id] # <<>>
      OBVIOUS
    <2>1. PICK n \in 1..Len(q) : w[k] = q[n] /\ q[n].id \notin Evicted(i)
      BY <1>7
    <2>2. CASE w[k].id = i
      BY <1>1, <1>2, <2>2
    <2>3. CASE w[k].id # i
      <3>1. PICK m \in 1..Len(touch) : q[n] = touch[m] /\ touch[m].id \notin Expired
        BY <1>4, <2>1, <2>3
      <3>2. touch[m].id \in Identities /\ lists[touch[m].id] # <<>>
        BY TouchIs
      <3> QED BY <1>1, <2>1, <2>3, <3>1, <3>2
    <2> QED BY <2>2, <2>3
  <1>9. \A j \in Identities : lists'[j] # <<>> => \E k \in 1..Len(w) : w[k].id = j
    <2> SUFFICES ASSUME NEW j \in Identities, lists'[j] # <<>>
                 PROVE  \E k \in 1..Len(w) : w[k].id = j
      OBVIOUS
    <2>1. CASE j = i
      BY <1>4, <1>6, <1>7, <2>1
    <2>2. CASE j # i
      <3>1. j \notin Expired \cup Evicted(i) /\ lists[j] # <<>>
        BY <1>1, <2>2
      <3>2. PICK m \in 1..Len(touch) : touch[m].id = j
        BY <3>1 DEF Memory, InUse
      <3>3. PICK n \in 1..Len(q) : q[n] = touch[m]
        BY <1>4, <2>2, <3>1, <3>2
      <3> QED BY <1>7, <3>1, <3>2, <3>3
    <2> QED BY <2>1, <2>2
  <1>10. Bounded => Len(w) <= MaxIdentities
    <2>1. /\ MaxIdentities \in Nat /\ Len(w) \in Nat /\ Len(q) \in Nat /\ Len(touch) \in Nat
          /\ Len(q) <= Len(touch) + 1
          /\ Bounded => Len(touch) <= MaxIdentities
      BY <1>4, <1>7, PushAssumption DEF Memory, Uses, InUse
    <2>2. Bounded => Len(q) <= MaxIdentities \/ Len(w) < Len(q)
      BY <1>6, <1>7
    <2>3. Len(w) <= Len(q)
      BY <1>7
    <2> QED BY <2>1, <2>2, <2>3

  <1> QED BY <1>3, <1>7, <1>8, <1>9, <1>10 DEF InUse, w

(* What a list holds, by identity and endpoint. *)
HoldsBy(I, l) ==
  \A j \in I : \A u :
    <<j, u>> \in HeldIn(I, l) <=> \E n \in 1..Len(l[j]) : l[j][n].token = u
(* What is held for an identity is the tokens of its list.                *)
LEMMA HeldIs ==
  ASSUME NEW I, NEW l, ListsSound(I, l)
  PROVE  HoldsBy(I, l)
  <1> SUFFICES ASSUME NEW j \in I, NEW u
               PROVE  <<j, u>> \in HeldIn(I, l) <=> \E n \in 1..Len(l[j]) : l[j][n].token = u
    BY DEF HoldsBy
  <1>1. l[j] \in Seq(Endpoint) /\ DOMAIN l[j] = 1..Len(l[j])
    BY DEF ListsSound, Distinct
  <1>2. \A n \in 1..Len(l[j]) : l[j][n].token \in Tokens
    <2> TAKE n \in 1..Len(l[j])
    <2>1. l[j][n] \in Endpoint
      BY <1>1
    <2> QED BY <2>1 DEF Endpoint
  <1> QED BY <1>1, <1>2 DEF HeldIn

(* What is held is a pair of an identity and a token.                     *)
LEMMA HeldPairs ==
  ASSUME NEW I, NEW l, NEW x \in HeldIn(I, l)
  PROVE  x[1] \in I /\ x = <<x[1], x[2]>>
  BY DEF HeldIn

(* A row is of an identity, a token and a time that has come.             *)
LEMMA RowIs ==
  ASSUME NEW I, NEW r, NEW now, RowsSound(I, r, now), NEW n \in 1..Len(r)
  PROVE  r[n].id \in I /\ r[n].token \in Tokens /\ Stored(r[n]) = <<r[n].id, r[n].token>>
         /\ r[n].at \in Nat /\ r[n].at <= now
  <1>1. r \in Seq(Row(I)) /\ r[n].at <= now
    BY DEF RowsSound
  <1>2. r[n] \in Row(I)
    BY <1>1
  <1> QED BY <1>1, <1>2, PushAssumption DEF Row, Stored

(* The rows after a registration: those that were not lost, and its own. *)
LEMMA EnrollRows ==
  ASSUME Memory, NEW i \in Identities, NEW t \in Tokens, Enroll(i, t)
  PROVE  /\ RowsSound(Identities, rows', pclock)
         /\ \A k \in 1..Len(rows') :
              \/ Stored(rows'[k]) = <<i, t>>
              \/ \E n \in 1..Len(rows) : rows'[k] = rows[n] /\ Stored(rows[n]) \notin Lost(i, t)
         /\ \E k \in 1..Len(rows') : Stored(rows'[k]) = <<i, t>>
         /\ \A n \in 1..Len(rows) :
              Stored(rows[n]) \notin Lost(i, t) =>
                \E k \in 1..Len(rows') : Stored(rows'[k]) = Stored(rows[n])
  <1> DEFINE d == Del(rows, Lost(i, t))
  <1>1. rows' = Put(d, i, t)
    BY EnrollIs
  <1>2. /\ RowsSound(Identities, d, pclock)
        /\ \A k \in 1..Len(d) :
             \E n \in 1..Len(rows) : d[k] = rows[n] /\ Stored(rows[n]) \notin Lost(i, t)
        /\ \A n \in 1..Len(rows) :
             Stored(rows[n]) \notin Lost(i, t) => \E k \in 1..Len(d) : d[k] = rows[n]
    <2>1. RowsSound(Identities, rows, pclock)
      BY DEF Memory
    <2> QED BY <2>1, RowsDel
  <1> HIDE DEF d
  <1>3. pclock \in 0..MaxPushClock
    BY DEF Memory
  <1>4. /\ RowsSound(Identities, Put(d, i, t), pclock)
        /\ \A k \in 1..Len(Put(d, i, t)) :
             \/ Stored(Put(d, i, t)[k]) = <<i, t>>
             \/ \E n \in 1..Len(d) : Put(d, i, t)[k] = d[n] /\ Stored(d[n]) # <<i, t>>
        /\ \E k \in 1..Len(Put(d, i, t)) : Stored(Put(d, i, t)[k]) = <<i, t>>
        /\ \A n \in 1..Len(d) :
             Stored(d[n]) # <<i, t>> =>
               \E k \in 1..Len(Put(d, i, t)) : Put(d, i, t)[k] = d[n]
    BY <1>2, <1>3, RowsPut
  <1>5. \A k \in 1..Len(rows') :
          \/ Stored(rows'[k]) = <<i, t>>
          \/ \E n \in 1..Len(rows) : rows'[k] = rows[n] /\ Stored(rows[n]) \notin Lost(i, t)
    BY <1>1, <1>2, <1>4
  <1>6. \A n \in 1..Len(rows) :
          Stored(rows[n]) \notin Lost(i, t) =>
            \E k \in 1..Len(rows') : Stored(rows'[k]) = Stored(rows[n])
    <2> SUFFICES ASSUME NEW n \in 1..Len(rows), Stored(rows[n]) \notin Lost(i, t)
                 PROVE  \E k \in 1..Len(rows') : Stored(rows'[k]) = Stored(rows[n])
      OBVIOUS
    <2>1. PICK m \in 1..Len(d) : d[m] = rows[n]
      BY <1>2
    <2>2. CASE Stored(d[m]) = <<i, t>>
      BY <1>1, <1>4, <2>1, <2>2
    <2>3. CASE Stored(d[m]) # <<i, t>>
      BY <1>1, <1>4, <2>1, <2>3
    <2> QED BY <2>2, <2>3
  <1> QED BY <1>1, <1>4, <1>5, <1>6

(* After a registration memory and table agree on the endpoints.          *)
LEMMA EnrollMirrors ==
  ASSUME Memory, NEW i \in Identities, NEW t \in Tokens, Enroll(i, t)
  PROVE  /\ Mirrored(Identities, lists', rows', pclock)
         /\ Covered(rows', touch')
         /\ HeldIn(Identities, lists') \subseteq HeldIn(Identities, lists) \cup {<<i, t>>}
  <1> DEFINE list == Enrolled(i, t)
             lost == Lost(i, t)
  <1>1. /\ lists' = [j \in Identities |->
                       IF j = i THEN list
                       ELSE IF j \in Expired \cup Evicted(i) THEN <<>> ELSE lists[j]]
        /\ touch' = Without(Order(i), Evicted(i))
    BY EnrollIs
  <1>2. /\ \E n \in 1..Len(list) : list[n].token = t
        /\ \A n \in 1..Len(list) :
             \/ list[n].token = t
             \/ Live(i) /\ \E m \in 1..Len(lists[i]) : lists[i][m].token = list[n].token
        /\ \A n \in 1..Len(list) : <<i, list[n].token>> \notin lost
        /\ Live(i) => \A m \in 1..Len(lists[i]) :
             \/ \E n \in 1..Len(list) : list[n].token = lists[i][m].token
             \/ <<i, lists[i][m].token>> \in lost
    BY EnrolledIs
  <1>3. /\ RowsSound(Identities, rows', pclock)
        /\ \A k \in 1..Len(rows') :
             \/ Stored(rows'[k]) = <<i, t>>
             \/ \E n \in 1..Len(rows) : rows'[k] = rows[n] /\ Stored(rows[n]) \notin lost
        /\ \E k \in 1..Len(rows') : Stored(rows'[k]) = <<i, t>>
        /\ \A n \in 1..Len(rows) :
             Stored(rows[n]) \notin lost =>
               \E k \in 1..Len(rows') : Stored(rows'[k]) = Stored(rows[n])
    BY EnrollRows
  <1>4. /\ ListsSound(Identities, lists')
        /\ Uses(Identities, touch', pclock)
    BY EnrollUses
  <1>5. /\ i \notin Evicted(i)
        /\ \A j \in Evicted(i) : j \in Identities /\ Live(j)
    BY EvictedIs
  <1>6. \A j \in Identities, u \in Tokens :
          j # i => (<<j, u>> \in lost <=> j \in Evicted(i) /\ u \in Held(j))
    BY DEF Lost
  <1> HIDE DEF list, lost
  <1>7. ListsSound(Identities, lists) /\ RowsSound(Identities, rows, pclock)
        /\ Mirrored(Identities, lists, rows, pclock)
    BY DEF Memory
  <1>8. /\ \A j \in Identities : \A u :
             <<j, u>> \in HeldIn(Identities, lists) <=>
               \E n \in 1..Len(lists[j]) : lists[j][n].token = u
        /\ \A j \in Identities : \A u :
             <<j, u>> \in HeldIn(Identities, lists') <=>
               \E n \in 1..Len(lists'[j]) : lists'[j][n].token = u
    <2>1. HoldsBy(Identities, lists)
      BY <1>7, HeldIs
    <2>2. HoldsBy(Identities, lists')
      BY <1>4, HeldIs
    <2> QED BY <2>1, <2>2 DEF HoldsBy
  <1>9. \A j \in Identities : \A u : u \in Held(j) <=> <<j, u>> \in HeldIn(Identities, lists)
    <2> SUFFICES ASSUME NEW j \in Identities, NEW u
                 PROVE  u \in Held(j) <=> <<j, u>> \in HeldIn(Identities, lists)
      OBVIOUS
    <2>1. DOMAIN lists[j] = 1..Len(lists[j])
      BY <1>7 DEF ListsSound, Distinct
    <2> QED BY <1>8, <2>1 DEF Held
  <1>10. \A j \in Identities : lists[j] = <<>> => \A u : <<j, u>> \notin HeldIn(Identities, lists)
    BY <1>8
  <1>11. ASSUME NEW x \in HeldIn(Identities, lists')
         PROVE  /\ x \in HeldIn(Identities, lists) \cup {<<i, t>>}
                /\ \E k \in 1..Len(rows') : Stored(rows'[k]) = x
    <2>1. x[1] \in Identities /\ x = <<x[1], x[2]>>
      BY HeldPairs
    <2>2. PICK n \in 1..Len(lists'[x[1]]) : lists'[x[1]][n].token = x[2]
      BY <1>8, <2>1
    <2>3. CASE x[1] = i
      <3>1. lists'[x[1]] = list
        BY <1>1, <2>1, <2>3
      <3>2. x \notin lost
        BY <1>2, <2>1, <2>2, <2>3, <3>1
      <3>3. x = <<i, t>> \/ x \in HeldIn(Identities, lists)
        BY <1>2, <1>8, <2>1, <2>2, <2>3, <3>1
      <3>4. CASE x = <<i, t>>
        BY <1>3, <3>4
      <3>5. CASE x \in HeldIn(Identities, lists)
        <4>1. PICK m \in 1..Len(rows) : Stored(rows[m]) = x
          BY <1>7, <3>5 DEF Mirrored
        <4> QED BY <1>3, <3>2, <3>5, <4>1
      <3> QED BY <3>3, <3>4, <3>5
    <2>4. CASE x[1] # i
      <3>1. x[1] \notin Expired \cup Evicted(i) /\ lists'[x[1]] = lists[x[1]]
        BY <1>1, <2>1, <2>2, <2>4
      <3>2. x \in HeldIn(Identities, lists)
        BY <1>8, <2>1, <2>2, <3>1
      <3>3. PICK m \in 1..Len(rows) : Stored(rows[m]) = x
        BY <1>7, <3>2 DEF Mirrored
      <3>4. x[2] \in Tokens
        BY <3>2 DEF HeldIn
      <3>5. x \notin lost
        BY <1>6, <2>1, <2>4, <3>1, <3>4
      <3> QED BY <1>3, <3>2, <3>3, <3>5
    <2> QED BY <2>3, <2>4
  <1>12. ASSUME NEW k \in 1..Len(rows')
         PROVE  Stored(rows'[k]) \in HeldIn(Identities, lists') \/ Stale(rows'[k], pclock)
    <2>1. CASE Stored(rows'[k]) = <<i, t>>
      <3>1. lists'[i] = list
        BY <1>1
      <3> QED BY <1>2, <1>8, <2>1, <3>1
    <2>2. CASE \E n \in 1..Len(rows) : rows'[k] = rows[n] /\ Stored(rows[n]) \notin lost
      <3>1. PICK n \in 1..Len(rows) : rows'[k] = rows[n] /\ Stored(rows[n]) \notin lost
        BY <2>2
      <3> DEFINE j == rows[n].id
                 u == rows[n].token
      <3>2. j \in Identities /\ u \in Tokens /\ Stored(rows[n]) = <<j, u>>
        BY <1>7, RowIs
      <3>3. j \in Expired => Stale(rows[n], pclock)
        BY SweptIsStale
      <3> HIDE DEF j, u
      <3>4. ASSUME j \notin Expired, <<j, u>> \in HeldIn(Identities, lists)
            PROVE  <<j, u>> \in HeldIn(Identities, lists')
        <4>1. CASE j = i
          <5>1. lists'[i] = list
            BY <1>1
          <5>2. Live(i)
            BY <1>10, <3>2, <3>4, <4>1 DEF Live
          <5>3. PICK m \in 1..Len(lists[i]) : lists[i][m].token = u
            BY <1>8, <3>2, <3>4, <4>1
          <5>4. PICK p \in 1..Len(list) : list[p].token = u
            BY <1>2, <3>1, <3>2, <4>1, <5>2, <5>3
          <5> QED BY <1>8, <3>2, <4>1, <5>1, <5>4
        <4>2. CASE j # i
          <5>1. u \in Held(j)
            BY <1>9, <3>2, <3>4
          <5>2. j \notin Evicted(i)
            BY <1>6, <3>1, <3>2, <4>2, <5>1
          <5>3. lists'[j] = lists[j]
            BY <1>1, <3>2, <3>4, <4>2, <5>2
          <5> QED BY <1>8, <3>2, <3>4, <5>3
        <4> QED BY <4>1, <4>2
      <3>5. <<j, u>> \in HeldIn(Identities, lists) \/ Stale(rows[n], pclock)
        BY <1>7, <3>2 DEF Mirrored
      <3> QED BY <3>1, <3>2, <3>3, <3>4, <3>5
    <2> QED BY <1>3, <2>1, <2>2
  <1>13. Mirrored(Identities, lists', rows', pclock)
    BY <1>11, <1>12 DEF Mirrored
  <1>14. ASSUME NEW k \in 1..Len(rows'), NEW m \in 1..Len(touch'), rows'[k].id = touch'[m].id
         PROVE  rows'[k].at <= touch'[m].at
    <2> DEFINE q == Order(i)
    <2>1. /\ Uses(Identities, q, pclock)
          /\ \A n \in 1..Len(q) :
               \/ q[n] = [id |-> i, at |-> pclock]
               \/ \E p \in 1..Len(touch) :
                    q[n] = touch[p] /\ touch[p].id # i /\ touch[p].id \notin Expired
      BY OrderIs
    <2>2. KeepsOrder(touch', q, Evicted(i), Identities, pclock)
      BY <1>1, <2>1, UsesWithout
    <2> HIDE DEF q
    <2>3. PICK n \in 1..Len(q) : touch'[m] = q[n]
      BY <2>2 DEF KeepsOrder
    <2>4. CASE q[n] = [id |-> i, at |-> pclock]
      BY <1>3, <2>3, <2>4, RowIs
    <2>5. CASE \E p \in 1..Len(touch) : q[n] = touch[p] /\ touch[p].id # i
      <3>1. PICK p \in 1..Len(touch) : q[n] = touch[p] /\ touch[p].id # i
        BY <2>5
      <3>2. rows'[k].id # i
        BY <1>14, <2>3, <3>1
      <3>3. Stored(rows'[k]) # <<i, t>>
        BY <3>2 DEF Stored
      <3>4. PICK l \in 1..Len(rows) : rows'[k] = rows[l]
        BY <1>3, <3>3
      <3> QED BY <1>14, <2>3, <3>1, <3>4 DEF Memory, Covered
    <2> QED BY <2>1, <2>4, <2>5
  <1>15. Covered(rows', touch')
    BY <1>14 DEF Covered
  <1> QED BY <1>11, <1>13, <1>15

Sound(I, l, u, r, now) ==
  /\ ListsSound(I, l) /\ RowsSound(I, r, now)
  /\ Uses(I, u, now) /\ InUse(I, u, l)
  /\ Mirrored(I, l, r, now) /\ Covered(r, u)

(* A registration keeps memory and table sound, and adds its endpoint alone. *)
LEMMA EnrollKeeps ==
  ASSUME Memory, NEW i \in Identities, NEW t \in Tokens, Enroll(i, t)
  PROVE  /\ Sound(Identities, lists', touch', rows', pclock)
         /\ HeldIn(Identities, lists') \subseteq HeldIn(Identities, lists) \cup {<<i, t>>}
  <1>1. /\ ListsSound(Identities, lists')
        /\ Uses(Identities, touch', pclock) /\ InUse(Identities, touch', lists')
    BY EnrollUses
  <1>2. RowsSound(Identities, rows', pclock)
    BY EnrollRows
  <1>3. /\ Mirrored(Identities, lists', rows', pclock)
        /\ Covered(rows', touch')
        /\ HeldIn(Identities, lists') \subseteq HeldIn(Identities, lists) \cup {<<i, t>>}
    BY EnrollMirrors
  <1> QED BY <1>1, <1>2, <1>3 DEF Sound

(* What is left of a list without the endpoints of one token. *)
IsKept(q, b, t) ==
  /\ Distinct(q) /\ Len(q) <= Len(b)
  /\ \A k \in 1..Len(q) : q[k].token # t /\ \E n \in 1..Len(b) : q[k] = b[n]
  /\ \A n \in 1..Len(b) : b[n].token # t => \E k \in 1..Len(q) : q[k] = b[n]

(* A list without one token has the others, in their order.               *)
LEMMA KeptList ==
  ASSUME NEW b, Distinct(b), NEW t
  PROVE  IsKept(Picked(b, {n \in DOMAIN b : b[n].token # t}), b, t)
  <1> DEFINE P == {n \in DOMAIN b : b[n].token # t}
             q == Picked(b, P)
             at(k) == Nth(P, k)
  <1>1. b \in Seq(Endpoint) /\ DOMAIN b = 1..Len(b)
        /\ \A m, n \in 1..Len(b) : b[m].token = b[n].token => m = n
    BY DEF Distinct
  <1>2. P \in SUBSET (1..Len(b))
    BY <1>1
  <1>3. \A n \in 1..Len(b) : n \in P <=> b[n].token # t
    BY <1>1
  <1> HIDE DEF P
  <1>4. /\ q \in Seq(Endpoint) /\ Len(q) \in Nat
        /\ Len(q) = Cardinality(P) /\ Cardinality(P) <= Len(b)
        /\ \A k \in 1..Len(q) : at(k) \in P /\ q[k] = b[at(k)]
        /\ \A n \in P : \E k \in 1..Len(q) : at(k) = n
        /\ \A j, k \in 1..Len(q) : j < k <=> at(j) < at(k)
    BY <1>1, <1>2, PickedFacts
  <1> HIDE DEF q, at
  <1>5. \A j, k \in 1..Len(q) : q[j].token = q[k].token => j = k
    <2> SUFFICES ASSUME NEW j \in 1..Len(q), NEW k \in 1..Len(q), q[j].token = q[k].token
                 PROVE  j = k
      OBVIOUS
    <2>1. at(j) \in 1..Len(b) /\ at(k) \in 1..Len(b) /\ b[at(j)].token = b[at(k)].token
      BY <1>2, <1>4
    <2>2. at(j) = at(k)
      BY <1>1, <2>1
    <2>3. ~(j < k) /\ ~(k < j)
      BY <1>4, <2>1, <2>2
    <2> QED BY <1>4, <2>3
  <1>6. Distinct(q) /\ Len(q) <= Len(b)
    BY <1>4, <1>5 DEF Distinct
  <1>7. \A k \in 1..Len(q) : q[k].token # t /\ \E n \in 1..Len(b) : q[k] = b[n]
    BY <1>2, <1>3, <1>4
  <1>8. \A n \in 1..Len(b) : b[n].token # t => \E k \in 1..Len(q) : q[k] = b[n]
    BY <1>3, <1>4
  <1> QED BY <1>6, <1>7, <1>8 DEF IsKept, q, P

(* A registration that ends takes its endpoint out of memory and table. *)
LEMMA UnenrollKeeps ==
  ASSUME Memory, NEW i \in Identities, NEW t \in Tokens, Unenroll(i, t)
  PROVE  /\ Sound(Identities, lists', touch', rows', pclock)
         /\ HeldIn(Identities, lists') \subseteq HeldIn(Identities, lists) \ {<<i, t>>}
  <1> DEFINE b == lists[i]
             kept == Picked(b, {n \in DOMAIN b : b[n].token # t})
  <1>1. Sound(Identities, lists, touch, rows, pclock) /\ HoldsBy(Identities, lists)
    BY HeldIs DEF Memory, Sound
  <1>2. CASE b = <<>>
    <2>1. lists' = lists /\ touch' = touch /\ rows' = rows
      BY <1>2 DEF Unenroll, pushMemory
    <2>2. <<i, t>> \notin HeldIn(Identities, lists)
      BY <1>1, <1>2 DEF HoldsBy
    <2> QED BY <1>1, <2>1, <2>2
  <1>3. CASE b # <<>>
    <2>1. /\ lists' = [lists EXCEPT ![i] = kept]
          /\ touch' = IF kept # <<>> THEN touch ELSE Without(touch, {i})
          /\ rows' = Del(rows, {<<i, t>>})
      BY <1>3 DEF Unenroll
    <2>2. Distinct(b) /\ Len(b) <= MaxPerIdentity /\ lists \in [Identities -> Seq(Endpoint)]
      BY <1>1 DEF Sound, ListsSound
    <2>3. IsKept(kept, b, t)
      BY <2>2, KeptList
    <2> HIDE DEF kept
    <2>4. lists' = [j \in Identities |-> IF j = i THEN kept ELSE lists[j]]
      BY <2>1, <2>2
    <2>5. ListsSound(Identities, lists')
      <3>1. Distinct(kept) /\ Len(kept) <= MaxPerIdentity
        <4>1. Len(kept) \in Nat /\ Len(b) \in Nat /\ MaxPerIdentity \in Nat
              /\ Len(kept) <= Len(b)
          BY <2>2, <2>3, PushAssumption DEF IsKept, Distinct
        <4> QED BY <2>2, <2>3, <4>1 DEF IsKept
      <3>2. \A j \in Identities : Distinct(lists'[j]) /\ Len(lists'[j]) <= MaxPerIdentity
        BY <1>1, <2>4, <3>1 DEF Sound, ListsSound
      <3>3. lists' \in [Identities -> Seq(Endpoint)]
        BY <2>4, <3>2 DEF Distinct
      <3> QED BY <3>2, <3>3 DEF ListsSound
    <2>6. HoldsBy(Identities, lists')
      BY <2>5, HeldIs
    <2>7. \A j \in Identities : \A u :
            <<j, u>> \in HeldIn(Identities, lists') <=>
              <<j, u>> \in HeldIn(Identities, lists) /\ <<j, u>> # <<i, t>>
      <3> SUFFICES ASSUME NEW j \in Identities, NEW u
                   PROVE  <<j, u>> \in HeldIn(Identities, lists') <=>
                            <<j, u>> \in HeldIn(Identities, lists) /\ <<j, u>> # <<i, t>>
        OBVIOUS
      <3>1. /\ <<j, u>> \in HeldIn(Identities, lists) <=>
                 \E n \in 1..Len(lists[j]) : lists[j][n].token = u
            /\ <<j, u>> \in HeldIn(Identities, lists') <=>
                 \E n \in 1..Len(lists'[j]) : lists'[j][n].token = u
        <4>1. <<j, u>> \in HeldIn(Identities, lists) <=>
                 \E n \in 1..Len(lists[j]) : lists[j][n].token = u
          BY <1>1 DEF HoldsBy
        <4>2. <<j, u>> \in HeldIn(Identities, lists') <=>
                 \E n \in 1..Len(lists'[j]) : lists'[j][n].token = u
          BY <2>6 DEF HoldsBy
        <4> QED BY <4>1, <4>2
      <3>2. CASE j # i
        BY <2>4, <3>1, <3>2
      <3>3. CASE j = i
        <4>1. lists'[j] = kept /\ lists[j] = b
          BY <2>4, <3>3
        <4>2. (\E n \in 1..Len(kept) : kept[n].token = u) <=>
              (\E n \in 1..Len(b) : b[n].token = u) /\ u # t
          BY <2>3 DEF IsKept
        <4> HIDE DEF b
        <4> QED BY <3>1, <3>3, <4>1, <4>2
      <3> QED BY <3>2, <3>3
    <2>8. HeldIn(Identities, lists') \subseteq HeldIn(Identities, lists) \ {<<i, t>>}
      <3> SUFFICES ASSUME NEW x \in HeldIn(Identities, lists')
                   PROVE  x \in HeldIn(Identities, lists) \ {<<i, t>>}
        OBVIOUS
      <3>1. x[1] \in Identities /\ x = <<x[1], x[2]>>
        BY HeldPairs
      <3> QED BY <2>7, <3>1
    <2>9. /\ RowsSound(Identities, rows', pclock)
          /\ \A k \in 1..Len(rows') :
               \E n \in 1..Len(rows) : rows'[k] = rows[n] /\ Stored(rows[n]) # <<i, t>>
          /\ \A n \in 1..Len(rows) :
               Stored(rows[n]) # <<i, t>> => \E k \in 1..Len(rows') : rows'[k] = rows[n]
      <3>1. RowsSound(Identities, rows, pclock)
        BY <1>1 DEF Sound
      <3> DEFINE gone == {<<i, t>>}
      <3>2. \A x : x \in gone <=> x = <<i, t>>
        OBVIOUS
      <3>3. rows' = Del(rows, gone)
        BY <2>1
      <3> HIDE DEF gone
      <3> DEFINE d == Del(rows, gone)
      <3>4. /\ RowsSound(Identities, d, pclock)
            /\ \A k \in 1..Len(d) :
                 \E n \in 1..Len(rows) : d[k] = rows[n] /\ Stored(rows[n]) \notin gone
            /\ \A n \in 1..Len(rows) :
                 Stored(rows[n]) \notin gone => \E k \in 1..Len(d) : d[k] = rows[n]
        BY <3>1, RowsDel
      <3>5. d = rows'
        BY <3>3
      <3> HIDE DEF d
      <3> QED BY <3>2, <3>4, <3>5
    <2>10. Mirrored(Identities, lists', rows', pclock)
      <3>1. ASSUME NEW x \in HeldIn(Identities, lists')
            PROVE  \E k \in 1..Len(rows') : Stored(rows'[k]) = x
        <4>1. x \in HeldIn(Identities, lists) /\ x # <<i, t>>
          BY <2>8
        <4>2. PICK n \in 1..Len(rows) : Stored(rows[n]) = x
          BY <1>1, <4>1 DEF Sound, Mirrored
        <4> QED BY <2>9, <4>1, <4>2
      <3>2. ASSUME NEW k \in 1..Len(rows')
            PROVE  Stored(rows'[k]) \in HeldIn(Identities, lists') \/ Stale(rows'[k], pclock)
        <4>1. PICK n \in 1..Len(rows) : rows'[k] = rows[n] /\ Stored(rows[n]) # <<i, t>>
          BY <2>9
        <4>2. Stored(rows[n]) \in HeldIn(Identities, lists) \/ Stale(rows[n], pclock)
          BY <1>1 DEF Sound, Mirrored
        <4>3. rows[n].id \in Identities /\ Stored(rows[n]) = <<rows[n].id, rows[n].token>>
          BY <1>1, RowIs DEF Sound
        <4> QED BY <2>7, <4>1, <4>2, <4>3
      <3> QED BY <3>1, <3>2 DEF Mirrored
    <2>11. /\ Uses(Identities, touch', pclock)
           /\ \A k \in 1..Len(touch') : \E n \in 1..Len(touch) : touch'[k] = touch[n]
           /\ Len(touch') <= Len(touch)
           /\ \A n \in 1..Len(touch) :
                touch[n].id # i => \E k \in 1..Len(touch') : touch'[k] = touch[n]
           /\ kept # <<>> => touch' = touch
           /\ kept = <<>> => \A k \in 1..Len(touch') : touch'[k].id # i
      <3>1. Uses(Identities, touch, pclock)
        BY <1>1 DEF Sound
      <3>2. CASE kept # <<>>
        <4>1. Len(touch) <= Len(touch)
          BY <3>1 DEF Uses
        <4> QED BY <2>1, <3>1, <3>2, <4>1
      <3>3. CASE kept = <<>>
        <4>1. KeepsOrder(touch', touch, {i}, Identities, pclock)
          BY <2>1, <3>1, <3>3, UsesWithout
        <4> QED BY <3>3, <4>1 DEF KeepsOrder
      <3> QED BY <3>2, <3>3
    <2>12. InUse(Identities, touch', lists')
      <3>1. \A k \in 1..Len(touch') : lists'[touch'[k].id] # <<>>
        <4> SUFFICES ASSUME NEW k \in 1..Len(touch')
                     PROVE  lists'[touch'[k].id] # <<>>
          OBVIOUS
        <4>1. PICK n \in 1..Len(touch) : touch'[k] = touch[n]
          BY <2>11
        <4>2. touch[n].id \in Identities /\ lists[touch[n].id] # <<>>
          BY TouchIs
        <4>3. CASE touch[n].id = i
          BY <2>4, <2>11, <4>1, <4>3
        <4>4. CASE touch[n].id # i
          BY <2>4, <4>1, <4>2, <4>4
        <4> QED BY <4>3, <4>4
      <3>2. \A j \in Identities : lists'[j] # <<>> => \E k \in 1..Len(touch') : touch'[k].id = j
        <4> SUFFICES ASSUME NEW j \in Identities, lists'[j] # <<>>
                     PROVE  \E k \in 1..Len(touch') : touch'[k].id = j
          OBVIOUS
        <4>1. lists[j] # <<>> /\ (j = i => kept # <<>>)
          BY <1>3, <2>4
        <4>2. PICK n \in 1..Len(touch) : touch[n].id = j
          BY <1>1, <4>1 DEF Sound, InUse
        <4> QED BY <2>11, <4>1, <4>2
      <3>3. Bounded => Len(touch') <= MaxIdentities
        <4>1. Len(touch') \in Nat /\ Len(touch) \in Nat /\ MaxIdentities \in Nat
          BY <1>1, <2>11, PushAssumption DEF Sound, Uses
        <4>2. Bounded => Len(touch) <= MaxIdentities
          BY <1>1 DEF Sound, InUse
        <4> QED BY <2>11, <4>1, <4>2
      <3> QED BY <3>1, <3>2, <3>3 DEF InUse
    <2>13. Covered(rows', touch')
      <3> SUFFICES ASSUME NEW k \in 1..Len(rows'), NEW m \in 1..Len(touch'),
                          rows'[k].id = touch'[m].id
                   PROVE  rows'[k].at <= touch'[m].at
        BY DEF Covered
      <3>1. PICK n \in 1..Len(rows) : rows'[k] = rows[n]
        BY <2>9
      <3>2. PICK p \in 1..Len(touch) : touch'[m] = touch[p]
        BY <2>11
      <3> QED BY <1>1, <3>1, <3>2 DEF Sound, Covered
    <2> QED BY <2>5, <2>8, <2>9, <2>10, <2>11, <2>12, <2>13 DEF Sound
  <1> QED BY <1>2, <1>3

(* Every row has a last one of its identity, at or after it. *)
LEMMA LastRow ==
  ASSUME NEW I, NEW r, NEW now, RowsSound(I, r, now), NEW k \in 1..Len(r)
  PROVE  \E n \in LastOfEach(r) : r[n].id = r[k].id
  <1>1. Len(r) \in Nat /\ DOMAIN r = 1..Len(r)
    BY DEF RowsSound
  <1> DEFINE T == {d \in Nat : \E n \in 1..Len(r) : r[n].id = r[k].id /\ n + d = Len(r)}
  <1>2. Len(r) - k \in T
    BY <1>1
  <1>3. PICK d \in T : \A e \in T : d <= e
    <2>1. T \in SUBSET Nat /\ T # {}
      BY <1>2
    <2> HIDE DEF T
    <2> QED BY <2>1, FirstOfNaturals
  <1>4. PICK n \in 1..Len(r) : r[n].id = r[k].id /\ n + d = Len(r)
    BY <1>3
  <1>5. \A m \in 1..Len(r) : m > n => r[m].id # r[n].id
    <2> SUFFICES ASSUME NEW m \in 1..Len(r), m > n, r[m].id = r[n].id
                 PROVE  FALSE
      OBVIOUS
    <2>1. d \in Nat
      BY <1>3
    <2>2. Len(r) - m \in Nat /\ m + (Len(r) - m) = Len(r)
      <3> DEFINE L == Len(r)
      <3>1. L \in Nat /\ m \in 1..L
        BY <1>1
      <3> HIDE DEF L
      <3>2. L - m \in Nat /\ m + (L - m) = L
        BY <3>1
      <3> QED BY <3>2 DEF L
    <2>3. Len(r) - m \in T
      BY <1>4, <2>2
    <2> HIDE DEF T
    <2>4. d <= Len(r) - m
      BY <1>3, <2>3
    <2> QED BY <1>1, <1>4, <2>1, <2>4
  <1>6. n \in LastOfEach(r)
    BY <1>1, <1>5 DEF LastOfEach
  <1> QED BY <1>4, <1>6

UsesOf(table) ==
  Picked([n \in DOMAIN table |-> [id |-> table[n].id, at |-> table[n].at]], LastOfEach(table))

(* The order of use that is read from the table: the last row of each. *)
IsOrderOf(u, r, I, now) ==
  /\ Uses(I, u, now) /\ Covered(r, u)
  /\ \A m \in 1..Len(u) : \E n \in 1..Len(r) : u[m].id = r[n].id
  /\ \A n \in 1..Len(r) : \E m \in 1..Len(u) : u[m].id = r[n].id

(* _hydrate reads an order of use that is sound and covers the rows.      *)
LEMMA OrderIsRead ==
  ASSUME NEW I, NEW r, NEW now, RowsSound(I, r, now)
  PROVE  IsOrderOf(UsesOf(r), r, I, now)
  <1> DEFINE all == [n \in DOMAIN r |-> [id |-> r[n].id, at |-> r[n].at]]
             P == LastOfEach(r)
             u == Picked(all, P)
             at(k) == Nth(P, k)
  <1>1. /\ r \in Seq(Row(I)) /\ Len(r) \in Nat /\ DOMAIN r = 1..Len(r)
        /\ \A n \in 1..Len(r) : r[n] \in Row(I)
        /\ \A n \in 1..Len(r) : r[n].at <= now
        /\ \A m, n \in 1..Len(r) : m < n => r[m].at <= r[n].at
    BY DEF RowsSound
  <1>2. /\ all \in Seq(Use(I)) /\ Len(all) = Len(r)
        /\ \A n \in 1..Len(r) : all[n].id = r[n].id /\ all[n].at = r[n].at
    <2>1. all \in [1..Len(r) -> Use(I)]
      BY <1>1 DEF Row, Use
    <2>2. all \in Seq(Use(I)) /\ Len(all) = Len(r)
      BY <1>1, <2>1, FunctionIsSeq
    <2> QED BY <1>1, <2>2
  <1>3. /\ P \in SUBSET (1..Len(r))
        /\ \A n \in P : \A m \in 1..Len(r) : m > n => r[m].id # r[n].id
    BY <1>1 DEF LastOfEach
  <1> HIDE DEF all, P
  <1>4. /\ u \in Seq(Use(I)) /\ Len(u) \in Nat
        /\ \A k \in 1..Len(u) : at(k) \in P /\ u[k] = all[at(k)]
        /\ \A n \in P : \E k \in 1..Len(u) : at(k) = n
        /\ \A j, k \in 1..Len(u) : j < k <=> at(j) < at(k)
    <2>1. P \in SUBSET (1..Len(all))
      BY <1>2, <1>3
    <2>2. all \in Seq(Use(I))
      BY <1>2
    <2> QED BY <2>1, <2>2, PickedFacts
  <1> HIDE DEF u, at
  <1>5. \A k \in 1..Len(u) : /\ at(k) \in 1..Len(r)
                             /\ u[k].id = r[at(k)].id /\ u[k].at = r[at(k)].at
    BY <1>2, <1>3, <1>4
  <1>6. \A j, k \in 1..Len(u) : u[j].id = u[k].id => j = k
    <2> SUFFICES ASSUME NEW j \in 1..Len(u), NEW k \in 1..Len(u), u[j].id = u[k].id
                 PROVE  j = k
      OBVIOUS
    <2>1. /\ at(j) \in P /\ at(k) \in P /\ at(j) \in 1..Len(r) /\ at(k) \in 1..Len(r)
          /\ r[at(j)].id = r[at(k)].id
      BY <1>4, <1>5
    <2>2. ~(at(j) < at(k)) /\ ~(at(k) < at(j))
      BY <1>3, <2>1
    <2>3. ~(j < k) /\ ~(k < j)
      BY <1>4, <2>2
    <2> QED BY <1>4, <2>3
  <1>7. Uses(I, u, now)
    <2>1. \A k \in 1..Len(u) : u[k].at <= now
      BY <1>1, <1>5
    <2> QED BY <1>4, <1>6, <2>1 DEF Uses
  <1>8. Covered(r, u)
    <2> SUFFICES ASSUME NEW n \in 1..Len(r), NEW m \in 1..Len(u), r[n].id = u[m].id
                 PROVE  r[n].at <= u[m].at
      BY DEF Covered
    <2>1. /\ at(m) \in P /\ at(m) \in 1..Len(r)
          /\ u[m].id = r[at(m)].id /\ u[m].at = r[at(m)].at
      BY <1>4, <1>5
    <2>2. ~(n > at(m))
      BY <1>3, <2>1
    <2>3. n = at(m) \/ n < at(m)
      BY <1>1, <2>1, <2>2
    <2>4. CASE n = at(m)
      <3>1. r[n].at \in Nat
        BY <1>1, PushAssumption DEF Row
      <3> QED BY <2>1, <2>4, <3>1
    <2>5. CASE n < at(m)
      BY <1>1, <2>1, <2>5
    <2> QED BY <2>3, <2>4, <2>5
  <1>9. \A n \in 1..Len(r) : \E m \in 1..Len(u) : u[m].id = r[n].id
    <2> SUFFICES ASSUME NEW n \in 1..Len(r)
                 PROVE  \E m \in 1..Len(u) : u[m].id = r[n].id
      OBVIOUS
    <2>1. PICK k \in P : r[k].id = r[n].id
      BY LastRow DEF P
    <2>2. PICK m \in 1..Len(u) : at(m) = k
      BY <1>4
    <2> QED BY <1>5, <2>1, <2>2
  <1>10. \A m \in 1..Len(u) : \E n \in 1..Len(r) : u[m].id = r[n].id
    BY <1>5
  <1>11. IsOrderOf(u, r, I, now)
    BY <1>7, <1>8, <1>9, <1>10 DEF IsOrderOf
  <1> QED BY <1>11 DEF u, all, P, UsesOf

(* The rows a restart keeps: those that are not past the TTL. *)
LEMMA FreshAre ==
  ASSUME Memory
  PROVE  /\ RowsSound(Identities, FreshRows, pclock)
         /\ \A k \in 1..Len(FreshRows) : Stored(FreshRows[k]) \in HeldIn(Identities, lists)
  <1> DEFINE P == {n \in 1..Len(rows) : Bounded => rows[n].at + IdleTtl >= pclock}
  <1>1. RowsSound(Identities, rows, pclock) /\ DOMAIN rows = 1..Len(rows)
    BY DEF Memory, RowsSound
  <1>2. FreshRows = Picked(rows, P)
    BY <1>1 DEF FreshRows
  <1>3. /\ P \in SUBSET (1..Len(rows))
        /\ \A n \in P : Stored(rows[n]) \in HeldIn(Identities, lists)
    <2>1. \A n \in P : n \in 1..Len(rows) /\ (Bounded => rows[n].at + IdleTtl >= pclock)
      OBVIOUS
    <2>2. ASSUME NEW n \in P
          PROVE  Stored(rows[n]) \in HeldIn(Identities, lists)
      <3>1. rows[n].at \in Nat /\ IdleTtl \in Nat /\ pclock \in Nat
        BY <1>1, <2>1, RowIs, PushAssumption DEF Memory
      <3>2. ~Stale(rows[n], pclock)
        BY <2>1, <3>1 DEF Stale
      <3> QED BY <2>1, <3>2 DEF Memory, Mirrored
    <2> QED BY <2>2
  <1> HIDE DEF P
  <1>4. /\ RowsSound(Identities, Picked(rows, P), pclock)
        /\ \A k \in 1..Len(Picked(rows, P)) : \E n \in P : Picked(rows, P)[k] = rows[n]
    BY <1>1, <1>3, RowsPicked
  <1> QED BY <1>2, <1>3, <1>4

(* A list that is read from the rows of its identity. *)
IsRead(l, r, i) ==
  /\ Distinct(l) /\ Len(l) <= MaxPerIdentity
  /\ \A n \in 1..Len(l) : \E k \in 1..Len(r) : Stored(r[k]) = <<i, l[n].token>>
  /\ \A k \in 1..Len(r) : r[k].id = i => \E n \in 1..Len(l) : l[n].token = r[k].token

(* _hydrate reads the rows of an identity, which are within its bound.    *)
LEMMA ListIsRead ==
  ASSUME Memory, NEW i \in Identities
  PROVE  IsRead(Hydrated(i), FreshRows, i)
  <1> DEFINE r == FreshRows
             mine == RowsOf(r, i)
             all == [n \in DOMAIN mine |-> [token |-> mine[n].token, at |-> mine[n].at]]
             P == {n \in 1..Len(r) : r[n].id = i}
             b == lists[i]
  <1>1. /\ RowsSound(Identities, r, pclock)
        /\ \A k \in 1..Len(r) : Stored(r[k]) \in HeldIn(Identities, lists)
    BY FreshAre
  <1>2. Hydrated(i) = SubSeq(all, IF Len(all) > MaxPerIdentity
                                  THEN Len(all) - MaxPerIdentity + 1 ELSE 1, Len(all))
    BY DEF Hydrated
  <1> HIDE DEF r
  <1>3. /\ RowsSound(Identities, mine, pclock)
        /\ \A k \in 1..Len(mine) : \E n \in 1..Len(r) : mine[k] = r[n] /\ r[n].id = i
        /\ \A n \in 1..Len(r) : r[n].id = i => \E k \in 1..Len(mine) : mine[k] = r[n]
    <2>1. DOMAIN r = 1..Len(r)
      BY <1>1 DEF RowsSound
    <2>2. mine = Picked(r, P)
      BY <2>1 DEF RowsOf
    <2>3. P \in SUBSET (1..Len(r)) /\ \A n \in 1..Len(r) : n \in P <=> r[n].id = i
      OBVIOUS
    <2> HIDE DEF P, mine
    <2>4. /\ RowsSound(Identities, Picked(r, P), pclock)
          /\ \A k \in 1..Len(Picked(r, P)) : \E n \in P : Picked(r, P)[k] = r[n]
          /\ \A n \in P : \E k \in 1..Len(Picked(r, P)) : Picked(r, P)[k] = r[n]
      BY <1>1, <2>3, RowsPicked
    <2> QED BY <2>2, <2>3, <2>4
  <1> HIDE DEF mine
  <1>4. /\ mine \in Seq(Row(Identities)) /\ Len(mine) \in Nat /\ DOMAIN mine = 1..Len(mine)
        /\ \A k \in 1..Len(mine) : mine[k] \in Row(Identities) /\ mine[k].id = i
        /\ \A m, n \in 1..Len(mine) : Stored(mine[m]) = Stored(mine[n]) => m = n
    <2>1. /\ mine \in Seq(Row(Identities)) /\ Len(mine) \in Nat /\ DOMAIN mine = 1..Len(mine)
          /\ \A m, n \in 1..Len(mine) : Stored(mine[m]) = Stored(mine[n]) => m = n
      BY <1>3 DEF RowsSound
    <2>2. \A k \in 1..Len(mine) : mine[k] \in Row(Identities)
      BY <2>1
    <2> QED BY <1>3, <2>1, <2>2
  <1>5. \A m, n \in 1..Len(mine) : mine[m].token = mine[n].token => m = n
    BY <1>4 DEF Stored
  <1>6. Len(mine) <= MaxPerIdentity
    <2> DEFINE tok == [n \in 1..Len(mine) |-> mine[n].token]
               held == [n \in 1..Len(b) |-> b[n].token]
               A == {tok[n] : n \in 1..Len(mine)}
               B == {held[n] : n \in 1..Len(b)}
    <2>1. Distinct(b) /\ Len(b) <= MaxPerIdentity /\ Len(b) \in Nat
      BY DEF Memory, ListsSound, Distinct
    <2>2. IsFiniteSet(A) /\ Cardinality(A) = Len(mine)
      <3>1. \A m, n \in 1..Len(mine) : tok[m] = tok[n] => m = n
        BY <1>5
      <3> HIDE DEF tok
      <3>2. Counted(tok, Len(mine))
        BY <1>4, <3>1, DistinctCount
      <3> QED BY <3>2 DEF Counted
    <2>3. IsFiniteSet(B) /\ Cardinality(B) = Len(b)
      <3>1. \A m, n \in 1..Len(b) : held[m] = held[n] => m = n
        BY <2>1 DEF Distinct
      <3> HIDE DEF held, b
      <3>2. Counted(held, Len(b))
        BY <2>1, <3>1, DistinctCount
      <3> QED BY <3>2 DEF Counted
    <2>4. A \subseteq B
      <3> SUFFICES ASSUME NEW k \in 1..Len(mine)
                   PROVE  \E n \in 1..Len(b) : b[n].token = mine[k].token
        OBVIOUS
      <3>1. PICK n \in 1..Len(r) : mine[k] = r[n] /\ r[n].id = i
        BY <1>3
      <3>2. <<i, mine[k].token>> \in HeldIn(Identities, lists)
        BY <1>1, <3>1 DEF Stored
      <3>3. HoldsBy(Identities, lists)
        BY HeldIs DEF Memory
      <3> QED BY <3>2, <3>3 DEF HoldsBy
    <2> HIDE DEF A, B, b
    <2>5. Cardinality(A) <= Cardinality(B)
      BY <2>3, <2>4, FS_Subset
    <2> QED BY <1>4, <2>1, <2>2, <2>3, <2>5, PushAssumption
  <1>7. /\ all \in Seq(Endpoint) /\ Len(all) = Len(mine)
        /\ \A n \in 1..Len(mine) : all[n].token = mine[n].token
    <2>1. all \in [1..Len(mine) -> Endpoint]
      BY <1>4 DEF Row, Endpoint
    <2>2. all \in Seq(Endpoint) /\ Len(all) = Len(mine)
      BY <1>4, <2>1, FunctionIsSeq
    <2> QED BY <1>4, <2>2
  <1> HIDE DEF all
  <1>8. Hydrated(i) = all
    <2>1. Hydrated(i) = SubSeq(all, 1, Len(all))
      <3>1. ~(Len(all) > MaxPerIdentity)
        BY <1>4, <1>6, <1>7, PushAssumption
      <3> QED BY <1>2, <3>1
    <2> QED BY <1>4, <1>7, <2>1
  <1>9. Distinct(all) /\ Len(all) <= MaxPerIdentity
    BY <1>5, <1>6, <1>7 DEF Distinct
  <1>10. \A n \in 1..Len(all) : \E k \in 1..Len(r) : Stored(r[k]) = <<i, all[n].token>>
    <2> SUFFICES ASSUME NEW n \in 1..Len(all)
                 PROVE  \E k \in 1..Len(r) : Stored(r[k]) = <<i, all[n].token>>
      OBVIOUS
    <2>1. n \in 1..Len(mine) /\ all[n].token = mine[n].token
      BY <1>7
    <2>2. PICK k \in 1..Len(r) : mine[n] = r[k] /\ r[k].id = i
      BY <1>3, <2>1
    <2> QED BY <2>1, <2>2 DEF Stored
  <1>11. \A k \in 1..Len(r) : r[k].id = i => \E n \in 1..Len(all) : all[n].token = r[k].token
    BY <1>3, <1>7
  <1>12. IsRead(all, r, i)
    BY <1>9, <1>10, <1>11 DEF IsRead
  <1> QED BY <1>8, <1>12 DEF r

(* What a restart reads is sound, and holds nothing that was not held. *)
LEMMA RestartKeeps ==
  ASSUME Memory, lists' = [i \in Identities |-> Hydrated(i)],
         touch' = HydratedTouch, rows' = FreshRows
  PROVE  /\ Sound(Identities, lists', touch', rows', pclock)
         /\ HeldIn(Identities, lists') \subseteq HeldIn(Identities, lists)
  <1>1. /\ RowsSound(Identities, rows', pclock)
        /\ \A k \in 1..Len(rows') : Stored(rows'[k]) \in HeldIn(Identities, lists)
    BY FreshAre
  <1>2. \A i \in Identities : IsRead(lists'[i], rows', i)
    BY ListIsRead
  <1>3. ListsSound(Identities, lists')
    <2>1. \A i \in Identities : Distinct(lists'[i]) /\ Len(lists'[i]) <= MaxPerIdentity
      BY <1>2 DEF IsRead
    <2>2. lists' \in [Identities -> Seq(Endpoint)]
      BY <2>1 DEF Distinct
    <2> QED BY <2>1, <2>2 DEF ListsSound
  <1>4. HoldsBy(Identities, lists')
    BY <1>3, HeldIs
  <1>5. IsOrderOf(touch', rows', Identities, pclock)
    <2>1. HydratedTouch = UsesOf(FreshRows)
      BY DEF HydratedTouch, UsesOf
    <2> QED BY <1>1, <2>1, OrderIsRead
  <1>6. \A k \in 1..Len(rows') : rows'[k].id \in Identities
    BY <1>1, RowIs
  <1>7. \A x \in HeldIn(Identities, lists') : \E k \in 1..Len(rows') : Stored(rows'[k]) = x
    <2> SUFFICES ASSUME NEW x \in HeldIn(Identities, lists')
                 PROVE  \E k \in 1..Len(rows') : Stored(rows'[k]) = x
      OBVIOUS
    <2>1. x[1] \in Identities /\ x = <<x[1], x[2]>>
      BY HeldPairs
    <2>2. PICK n \in 1..Len(lists'[x[1]]) : lists'[x[1]][n].token = x[2]
      BY <1>4, <2>1 DEF HoldsBy
    <2>3. IsRead(lists'[x[1]], rows', x[1])
      BY <1>2, <2>1
    <2>4. \E k \in 1..Len(rows') : Stored(rows'[k]) = <<x[1], lists'[x[1]][n].token>>
      BY <2>3 DEF IsRead
    <2> QED BY <2>1, <2>2, <2>4
  <1>8. \A k \in 1..Len(rows') : Stored(rows'[k]) \in HeldIn(Identities, lists')
    <2> SUFFICES ASSUME NEW k \in 1..Len(rows')
                 PROVE  Stored(rows'[k]) \in HeldIn(Identities, lists')
      OBVIOUS
    <2> DEFINE j == rows'[k].id
               u == rows'[k].token
    <2>1. j \in Identities /\ Stored(rows'[k]) = <<j, u>>
      BY <1>1, RowIs
    <2>2. IsRead(lists'[j], rows', j)
      BY <1>2, <2>1
    <2>3. \E n \in 1..Len(lists'[j]) : lists'[j][n].token = u
      BY <2>2 DEF IsRead
    <2> HIDE DEF j, u
    <2> QED BY <1>4, <2>1, <2>3 DEF HoldsBy
  <1>9. Mirrored(Identities, lists', rows', pclock)
    BY <1>7, <1>8 DEF Mirrored
  <1>10. \A x \in HeldIn(Identities, lists') : x \in HeldIn(Identities, lists)
    BY <1>1, <1>7
  <1>11. InUse(Identities, touch', lists')
    <2>1. \A m \in 1..Len(touch') : touch'[m].id \in Identities /\ lists'[touch'[m].id] # <<>>
      <3> SUFFICES ASSUME NEW m \in 1..Len(touch')
                   PROVE  touch'[m].id \in Identities /\ lists'[touch'[m].id] # <<>>
        OBVIOUS
      <3>1. PICK n \in 1..Len(rows') : touch'[m].id = rows'[n].id
        BY <1>5 DEF IsOrderOf
      <3>2. IsRead(lists'[rows'[n].id], rows', rows'[n].id)
        BY <1>2, <1>6
      <3>3. \E k \in 1..Len(lists'[rows'[n].id]) : TRUE
        BY <3>2 DEF IsRead
      <3> QED BY <1>6, <3>1, <3>3
    <2>2. \A j \in Identities : lists'[j] # <<>> => \E m \in 1..Len(touch') : touch'[m].id = j
      <3> SUFFICES ASSUME NEW j \in Identities, lists'[j] # <<>>
                   PROVE  \E m \in 1..Len(touch') : touch'[m].id = j
        OBVIOUS
      <3>1. IsRead(lists'[j], rows', j)
        BY <1>2
      <3>2. 1 \in 1..Len(lists'[j])
        <4>1. lists'[j] \in Seq(Endpoint)
          BY <3>1 DEF IsRead, Distinct
        <4> QED BY <4>1
      <3>3. PICK k \in 1..Len(rows') : Stored(rows'[k]) = <<j, lists'[j][1].token>>
        BY <3>1, <3>2 DEF IsRead
      <3>4. rows'[k].id = j
        BY <3>3 DEF Stored
      <3> QED BY <1>5, <3>4 DEF IsOrderOf
    <2>3. Bounded => Len(touch') <= MaxIdentities
      <3> DEFINE new == [n \in 1..Len(touch') |-> touch'[n].id]
                 old == [n \in 1..Len(touch) |-> touch[n].id]
                 A == {new[n] : n \in 1..Len(touch')}
                 B == {old[n] : n \in 1..Len(touch)}
                 a == Len(touch')
                 b == Len(touch)
      <3>1. /\ a \in Nat /\ \A m, n \in 1..a : touch'[m].id = touch'[n].id => m = n
        BY <1>5 DEF IsOrderOf, Uses
      <3>2. /\ b \in Nat /\ \A m, n \in 1..b : touch[m].id = touch[n].id => m = n
        BY DEF Memory, Uses
      <3>3. IsFiniteSet(A) /\ Cardinality(A) = a
        <4>1. \A m, n \in 1..a : new[m] = new[n] => m = n
          BY <3>1
        <4> HIDE DEF new, a
        <4>2. Counted(new, a)
          BY <3>1, <4>1, DistinctCount
        <4> QED BY <4>2 DEF Counted, a
      <3>4. IsFiniteSet(B) /\ Cardinality(B) = b
        <4>1. \A m, n \in 1..b : old[m] = old[n] => m = n
          BY <3>2
        <4> HIDE DEF old, b
        <4>2. Counted(old, b)
          BY <3>2, <4>1, DistinctCount
        <4> QED BY <4>2 DEF Counted, b
      <3>5. A \subseteq B
        <4> SUFFICES ASSUME NEW m \in 1..Len(touch')
                     PROVE  \E n \in 1..Len(touch) : touch[n].id = touch'[m].id
          OBVIOUS
        <4>1. PICK n \in 1..Len(rows') : touch'[m].id = rows'[n].id
          BY <1>5 DEF IsOrderOf
        <4>2. <<rows'[n].id, rows'[n].token>> \in HeldIn(Identities, lists)
          BY <1>1 DEF Stored
        <4>3. HoldsBy(Identities, lists)
          BY HeldIs DEF Memory
        <4>4. lists[rows'[n].id] # <<>>
          BY <1>6, <4>2, <4>3 DEF HoldsBy
        <4> QED BY <1>6, <4>1, <4>4 DEF Memory, InUse
      <3> HIDE DEF A, B
      <3>6. Cardinality(A) <= Cardinality(B)
        BY <3>4, <3>5, FS_Subset
      <3>7. Bounded => b <= MaxIdentities
        BY DEF Memory, InUse
      <3> HIDE DEF a, b
      <3>8. Bounded => a <= MaxIdentities
        BY <3>1, <3>2, <3>3, <3>4, <3>6, <3>7, PushAssumption
      <3> QED BY <3>8 DEF a
    <2> QED BY <2>1, <2>2, <2>3 DEF InUse
  <1> QED BY <1>1, <1>3, <1>5, <1>9, <1>10, <1>11 DEF Sound, IsOrderOf

(* Memory and table that are sound keep the invariant.                    *)
LEMMA FromSound ==
  ASSUME EndpointsInv, registry' = registry, pclock' = pclock,
         Sound(Identities, lists', touch', rows', pclock),
         sends' \subseteq Identities \X Tokens, checks' \subseteq Identities \X Tokens,
         online' \subseteq Identities,
         HeldIn(Identities, lists') \cap dropped' \subseteq overtaken',
         checks' \cap dropped' \subseteq overtaken'
  PROVE  EndpointsInv'
  <1>1. Identities' = Identities /\ Bounded' = Bounded
    BY DEF Identities, Bounded
  <1>2. /\ ListsSound(Identities, lists')
        /\ RowsSound(Identities, rows', pclock)
        /\ Uses(Identities, touch', pclock)
        /\ InUse(Identities, touch', lists')
        /\ Covered(rows', touch')
    BY DEF Sound
  <1>3. ListsSound(Identities, lists)' /\ RowsSound(Identities, rows, pclock)'
        /\ Uses(Identities, touch, pclock)' /\ Covered(rows, touch)'
    BY <1>1, <1>2 DEF ListsSound, RowsSound, Uses, Covered, Row, Use, Stored
  <1>4. InUse(Identities, touch, lists)'
    BY <1>1, <1>2 DEF InUse
  <1>5. Mirrored(Identities, lists, rows, pclock)'
    BY <1>1 DEF Sound, Mirrored, HeldIn, Stale, Stored
  <1>6. HeldIn(Identities, lists)' = HeldIn(Identities, lists')
    BY <1>1 DEF HeldIn
  <1> QED BY <1>1, <1>3, <1>4, <1>5, <1>6 DEF EndpointsInv

(* Time passes: an endpoint may only become stale.                        *)
LEMMA TickKeepsEndpoints ==
  ASSUME EndpointsInv, PushTick
  PROVE  EndpointsInv'
  <1>1. /\ Identities' = Identities /\ Bounded' = Bounded
        /\ lists' = lists /\ rows' = rows /\ touch' = touch
        /\ pclock \in Nat /\ pclock' = pclock + 1 /\ pclock' \in 0..MaxPushClock
    BY PushAssumption DEF PushTick, Identities, Bounded, pushMemory, EndpointsInv
  <1>2. Memory
    BY DEF EndpointsInv, Memory
  <1>3. \A n \in 1..Len(rows) : rows[n].at \in Nat /\ rows[n].at <= pclock
    BY <1>2, RowIs DEF Memory
  <1>4. \A n \in 1..Len(touch) : touch[n].at \in Nat /\ touch[n].at <= pclock
    BY <1>2, TouchIs
  <1>5. RowsSound(Identities, rows, pclock)'
    <2>1. \A n \in 1..Len(rows) : rows[n].at <= pclock'
      BY <1>1, <1>3
    <2> QED BY <1>1, <1>2, <2>1 DEF Memory, RowsSound, Row, Stored
  <1>6. Uses(Identities, touch, pclock)'
    <2>1. \A n \in 1..Len(touch) : touch[n].at <= pclock'
      BY <1>1, <1>4
    <2> QED BY <1>1, <1>2, <2>1 DEF Memory, Uses, Use
  <1>7. Mirrored(Identities, lists, rows, pclock)'
    <2>1. ASSUME NEW n \in 1..Len(rows), Stale(rows[n], pclock)
          PROVE  Stale(rows[n], pclock)'
      <3>1. Bounded /\ rows[n].at + IdleTtl < pclock /\ rows[n].at \in Nat /\ IdleTtl \in Nat
        BY <1>3, <2>1, PushAssumption DEF Stale
      <3>2. rows[n].at + IdleTtl < pclock'
        BY <1>1, <3>1
      <3> QED BY <1>1, <3>1, <3>2 DEF Stale
    <2>2. HeldIn(Identities, lists)' = HeldIn(Identities, lists)
      BY <1>1 DEF HeldIn
    <2>3. \A n \in 1..Len(rows) : Stored(rows[n])' = Stored(rows[n])
      BY <1>1 DEF Stored
    <2> QED BY <1>1, <1>2, <2>1, <2>2, <2>3 DEF Memory, Mirrored
  <1>8. ListsSound(Identities, lists)' /\ InUse(Identities, touch, lists)' /\ Covered(rows, touch)'
    BY <1>1, <1>2 DEF Memory, ListsSound, InUse, Covered, Distinct
  <1>9. /\ UNCHANGED <<registry, sends, checks, online, dropped, overtaken>>
        /\ HeldIn(Identities, lists)' = HeldIn(Identities, lists)
    BY <1>1 DEF PushTick, pushHistory, HeldIn
  <1> QED BY <1>1, <1>5, <1>6, <1>7, <1>8, <1>9 DEF EndpointsInv

(* The broker restarts and reads the table (_hydrate).                    *)
LEMMA RestartKeepsEndpoints ==
  ASSUME EndpointsInv, PushRestart
  PROVE  EndpointsInv'
  <1>1. /\ registry' = registry /\ pclock' = pclock
        /\ lists' = [i \in Identities |-> Hydrated(i)]
        /\ touch' = HydratedTouch /\ rows' = FreshRows
        /\ online' = {} /\ checks' = {} /\ sends' = {}
        /\ dropped' = dropped /\ overtaken' = overtaken
    BY DEF PushRestart, PushStep, pushHistory
  <1>2. Memory
    BY DEF EndpointsInv, Memory
  <1>3. /\ Sound(Identities, lists', touch', rows', pclock)
        /\ HeldIn(Identities, lists') \subseteq HeldIn(Identities, lists)
    BY <1>1, <1>2, RestartKeeps
  <1>4. HeldIn(Identities, lists) \cap dropped \subseteq overtaken
    BY DEF EndpointsInv
  <1>5. HeldIn(Identities, lists') \cap dropped' \subseteq overtaken'
    BY <1>1, <1>3, <1>4
  <1> QED BY <1>1, <1>3, <1>5, FromSound

(* Steps that leave memory and table as they are. *)
LEMMA OthersKeepEndpoints ==
  ASSUME EndpointsInv, UNCHANGED <<registry, pclock, pushMemory, dropped, overtaken>>,
         sends' \subseteq Identities \X Tokens,
         checks' \subseteq checks, online' \subseteq Identities
  PROVE  EndpointsInv'
  <1>1. lists' = lists /\ touch' = touch /\ rows' = rows
    BY DEF pushMemory
  <1>2. Sound(Identities, lists', touch', rows', pclock)
    BY <1>1 DEF EndpointsInv, Sound
  <1>3. /\ HeldIn(Identities, lists') \cap dropped' \subseteq overtaken'
        /\ checks' \cap dropped' \subseteq overtaken'
        /\ checks' \subseteq Identities \X Tokens
    BY <1>1 DEF EndpointsInv
  <1> QED BY <1>2, <1>3, FromSound

(* Only tokens are held.                                                  *)
LEMMA HeldIsOfTokens ==
  ASSUME EndpointsInv, NEW i \in Identities
  PROVE  Held(i) \subseteq Tokens
  <1>1. lists[i] \in Seq(Endpoint) /\ DOMAIN lists[i] = 1..Len(lists[i])
    BY DEF EndpointsInv, ListsSound, Distinct
  <1>2. \A n \in DOMAIN lists[i] : lists[i][n] \in Endpoint
    BY <1>1
  <1> QED BY <1>2 DEF Held, Endpoint

(* Signing in and off, fireWake and deliverNotifyPush leave the registry. *)
LEMMA WakesKeepEndpoints ==
  ASSUME EndpointsInv, NEW i \in Identities,
         SignIn(i) \/ SignOff(i) \/ FireWake(i) \/ DeliverNotifyPush(i)
  PROVE  EndpointsInv'
  <1>1. /\ sends \subseteq Identities \X Tokens /\ checks \subseteq Identities \X Tokens
        /\ online \subseteq Identities /\ Held(i) \subseteq Tokens
    BY HeldIsOfTokens DEF EndpointsInv
  <1>2. CASE SignIn(i)
    <2>1. /\ UNCHANGED <<registry, pclock, pushMemory, dropped, overtaken>>
          /\ sends' = sends /\ checks' = checks /\ online' = online \cup {i}
      BY <1>2 DEF SignIn
    <2> QED BY <1>1, <2>1, OthersKeepEndpoints
  <1>3. CASE SignOff(i)
    <2>1. /\ UNCHANGED <<registry, pclock, pushMemory, dropped, overtaken>>
          /\ sends' = sends /\ checks' = checks /\ online' = online \ {i}
      BY <1>3 DEF SignOff, pushHistory
    <2> QED BY <1>1, <2>1, OthersKeepEndpoints
  <1>4. CASE FireWake(i)
    <2>1. /\ UNCHANGED <<registry, pclock, pushMemory, dropped, overtaken>>
          /\ sends' = sends \/ sends' = sends \cup {<<i, t>> : t \in Held(i)}
          /\ checks' = checks /\ online' = online
      BY <1>4 DEF FireWake, PushStep
    <2> QED BY <1>1, <2>1, OthersKeepEndpoints
  <1>5. CASE DeliverNotifyPush(i)
    <2>1. /\ UNCHANGED <<registry, pclock, pushMemory, dropped, overtaken>>
          /\ \E reached \in SUBSET Held(i) : sends' = sends \cup {<<i, t>> : t \in reached}
          /\ checks' = checks /\ online' = online
      BY <1>5 DEF DeliverNotifyPush, PushStep, pushHistory
    <2> QED BY <1>1, <2>1, OthersKeepEndpoints
  <1> QED BY <1>2, <1>3, <1>4, <1>5

(* PUSH_REGISTER, its answer, PUSH_UNREGISTER and the pruning of an       *)
(* endpoint.                                                              *)
LEMMA RegistrationKeepsEndpoints ==
  ASSUME EndpointsInv, NEW i \in Identities, NEW t \in Tokens,
         PushRegister(i, t) \/ UrlChecked(i, t) \/ PushUnregister(i, t) \/ SendAnswered(i, t)
  PROVE  EndpointsInv'
  <1> DEFINE held == HeldIn(Identities, lists)
             heldNext == HeldIn(Identities, lists')
  <1>1. /\ Memory /\ Sound(Identities, lists, touch, rows, pclock)
        /\ sends \subseteq Identities \X Tokens /\ checks \subseteq Identities \X Tokens
        /\ online \subseteq Identities
        /\ held \cap dropped \subseteq overtaken /\ checks \cap dropped \subseteq overtaken
    BY DEF EndpointsInv, Memory, Sound
  <1>2. pushMemory' = pushMemory =>
          Sound(Identities, lists', touch', rows', pclock) /\ heldNext = held
    BY <1>1 DEF pushMemory
  <1>3. Enroll(i, t) => /\ Sound(Identities, lists', touch', rows', pclock)
                        /\ heldNext \subseteq held \cup {<<i, t>>}
    BY <1>1, EnrollKeeps
  <1>4. Unenroll(i, t) => /\ Sound(Identities, lists', touch', rows', pclock)
                          /\ heldNext \subseteq held \ {<<i, t>>}
    BY <1>1, UnenrollKeeps
  <1> HIDE DEF held, heldNext
  <1> DEFINE Kept == /\ registry' = registry /\ pclock' = pclock
                     /\ Sound(Identities, lists', touch', rows', pclock)
                     /\ sends' \subseteq Identities \X Tokens
                     /\ checks' \subseteq Identities \X Tokens
                     /\ online' \subseteq Identities
                     /\ heldNext \cap dropped' \subseteq overtaken'
                     /\ checks' \cap dropped' \subseteq overtaken'
  <1>5. CASE PushRegister(i, t)
    <2>1. /\ registry' = registry /\ pclock' = pclock /\ online' = online /\ sends' = sends
          /\ dropped' = dropped \ {<<i, t>>} /\ overtaken' = overtaken \ {<<i, t>>}
          /\ \/ checks' = checks \cup {<<i, t>>} /\ pushMemory' = pushMemory
             \/ checks' = checks /\ Enroll(i, t)
      BY <1>5 DEF PushRegister, PushStep
    <2>2. Kept
      BY <1>1, <1>2, <1>3, <2>1
    <2> QED BY <2>2, FromSound DEF heldNext
  <1>6. CASE UrlChecked(i, t)
    <2>1. /\ registry' = registry /\ pclock' = pclock /\ online' = online /\ sends' = sends
          /\ dropped' = dropped /\ overtaken' = overtaken
          /\ <<i, t>> \in checks /\ checks' = checks \ {<<i, t>>}
          /\ pushMemory' = pushMemory \/ Enroll(i, t)
      BY <1>6 DEF UrlChecked, pushHistory
    <2>2. Kept
      BY <1>1, <1>2, <1>3, <2>1
    <2> QED BY <2>2, FromSound DEF heldNext
  <1>7. CASE PushUnregister(i, t)
    <2>1. /\ registry' = registry /\ pclock' = pclock /\ online' = online /\ sends' = sends
          /\ checks' = checks /\ dropped' = dropped \cup {<<i, t>>}
          /\ overtaken' = IF <<i, t>> \in checks THEN overtaken \cup {<<i, t>>} ELSE overtaken
          /\ Unenroll(i, t)
      BY <1>7 DEF PushUnregister, PushStep
    <2>2. Kept
      BY <1>1, <1>4, <2>1
    <2> QED BY <2>2, FromSound DEF heldNext
  <1>8. CASE SendAnswered(i, t)
    <2>1. /\ registry' = registry /\ pclock' = pclock /\ online' = online
          /\ sends' = sends \ {<<i, t>>} /\ checks' = checks
          /\ dropped' = dropped /\ overtaken' = overtaken
          /\ pushMemory' = pushMemory \/ Unenroll(i, t)
      BY <1>8 DEF SendAnswered, pushHistory
    <2>2. Kept
      BY <1>1, <1>2, <1>4, <2>1
    <2> QED BY <2>2, FromSound DEF heldNext
  <1> QED BY <1>5, <1>6, <1>7, <1>8

(* Nothing is registered when the broker starts the first time.           *)
LEMMA EndpointsInitially == PushInit => EndpointsInv
  <1> SUFFICES ASSUME PushInit PROVE EndpointsInv
    OBVIOUS
  <1>1. /\ registry \in {"wake", "notify"} /\ pclock = 0 /\ online = {}
        /\ lists = [i \in Identities |-> <<>>] /\ touch = <<>> /\ rows = <<>>
        /\ checks = {} /\ sends = {} /\ dropped = {} /\ overtaken = {}
    BY DEF PushInit
  <1>2. pclock \in 0..MaxPushClock
    BY <1>1, PushAssumption
  <1>3. ListsSound(Identities, lists)
    <2>1. Distinct(<<>>) /\ Len(<<>>) <= MaxPerIdentity
      BY PushAssumption DEF Distinct
    <2>2. <<>> \in Seq(Endpoint)
      OBVIOUS
    <2> QED BY <1>1, <2>1, <2>2 DEF ListsSound
  <1>4. HeldIn(Identities, lists) = {}
    <2>1. HoldsBy(Identities, lists)
      BY <1>3, HeldIs
    <2>2. \A j \in Identities : Len(lists[j]) = 0
      BY <1>1
    <2>3. ASSUME NEW x \in HeldIn(Identities, lists) PROVE FALSE
      <3>1. x[1] \in Identities /\ x = <<x[1], x[2]>>
        BY HeldPairs
      <3>2. \E n \in 1..Len(lists[x[1]]) : TRUE
        BY <2>1, <3>1 DEF HoldsBy
      <3> QED BY <2>2, <3>1, <3>2
    <2> QED BY <2>3
  <1>5. /\ RowsSound(Identities, rows, pclock) /\ Uses(Identities, touch, pclock)
        /\ Covered(rows, touch)
    BY <1>1 DEF RowsSound, Uses, Covered
  <1>6. InUse(Identities, touch, lists)
    <2>1. Len(touch) = 0 /\ \A j \in Identities : lists[j] = <<>>
      BY <1>1
    <2> QED BY <2>1, PushAssumption DEF InUse
  <1>7. Mirrored(Identities, lists, rows, pclock)
    <2>1. Len(rows) = 0
      BY <1>1
    <2> QED BY <1>4, <2>1 DEF Mirrored
  <1> QED BY <1>1, <1>2, <1>3, <1>4, <1>5, <1>6, <1>7 DEF EndpointsInv

(* Every step keeps what memory and table hold of the endpoints.          *)
LEMMA EndpointsStep ==
  ASSUME EndpointsInv, [PushNext]_pushVars
  PROVE  EndpointsInv'
  <1>1. CASE UNCHANGED pushVars
    <2>1. /\ UNCHANGED <<registry, pclock, pushMemory, dropped, overtaken>>
          /\ sends' = sends /\ checks' = checks /\ online' = online
      BY <1>1 DEF pushVars, pushMemory
    <2>2. sends \subseteq Identities \X Tokens /\ online \subseteq Identities
      BY DEF EndpointsInv
    <2> QED BY <2>1, <2>2, OthersKeepEndpoints
  <1>2. CASE PushTick
    BY <1>2, TickKeepsEndpoints
  <1>3. CASE PushRestart
    BY <1>3, RestartKeepsEndpoints
  <1>4. CASE \E i \in Identities : SignIn(i) \/ SignOff(i) \/ FireWake(i) \/ DeliverNotifyPush(i)
    BY <1>4, WakesKeepEndpoints
  <1>5. CASE \E i \in Identities, t \in Tokens :
               \/ PushRegister(i, t) \/ UrlChecked(i, t)
               \/ PushUnregister(i, t) \/ SendAnswered(i, t)
    BY <1>5, RegistrationKeepsEndpoints
  <1> QED BY <1>1, <1>2, <1>3, <1>4, <1>5 DEF PushNext

(* The invariant says what the registry promises.                         *)
LEMMA EndpointsSound == EndpointsInv => EndpointsAreKept
  <1> SUFFICES ASSUME EndpointsInv PROVE EndpointsAreKept
    OBVIOUS
  <1>1. /\ ListsSound(Identities, lists) /\ Uses(Identities, touch, pclock)
        /\ RowsSound(Identities, rows, pclock)
        /\ InUse(Identities, touch, lists) /\ Mirrored(Identities, lists, rows, pclock)
        /\ Memory
    BY DEF EndpointsInv, Memory
  <1>2. \A i \in Identities : /\ lists[i] \in Seq(Endpoint)
                              /\ DOMAIN lists[i] = 1..Len(lists[i]) /\ Len(lists[i]) \in Nat
    BY <1>1 DEF ListsSound, Distinct
  <1>3. HeldAll = HeldIn(Identities, lists)
    <2>1. \A i \in Identities : \A u :
            u \in Held(i) <=> \E n \in DOMAIN lists[i] : lists[i][n].token = u
      BY DEF Held
    <2> QED BY <2>1 DEF HeldAll, HeldIn
  <1>4. \A i \in Identities : Cardinality(Held(i)) = Len(lists[i])
    <2> SUFFICES ASSUME NEW i \in Identities
                 PROVE  Cardinality(Held(i)) = Len(lists[i])
      OBVIOUS
    <2> DEFINE f == [n \in 1..Len(lists[i]) |-> lists[i][n].token]
               L == Len(lists[i])
    <2>1. L \in Nat /\ \A m, n \in 1..L : f[m] = f[n] => m = n
      BY <1>1, <1>2 DEF ListsSound, Distinct
    <2>2. Held(i) = {f[n] : n \in 1..L}
      BY <1>2 DEF Held
    <2> HIDE DEF f, L
    <2>3. Counted(f, L)
      BY <2>1, DistinctCount
    <2>4. Cardinality(Held(i)) = L
      BY <2>2, <2>3 DEF Counted
    <2> QED BY <2>4 DEF L
  <1>5. {touch[n].id : n \in DOMAIN touch} = {i \in Identities : lists[i] # <<>>}
    <2>1. DOMAIN touch = 1..Len(touch)
      BY <1>1 DEF Uses
    <2>2. \A m \in 1..Len(touch) : touch[m].id \in Identities /\ lists[touch[m].id] # <<>>
      BY <1>1, TouchIs
    <2>3. \A i \in Identities : lists[i] # <<>> => \E n \in 1..Len(touch) : touch[n].id = i
      BY <1>1 DEF InUse
    <2> QED BY <2>1, <2>2, <2>3
  <1>6. PushTypeOK
    BY <1>1, <1>4, <1>5 DEF PushTypeOK, ListsSound, InUse, EndpointsInv
  <1>7. RestartFindsTheEndpoints
    <2>1. DOMAIN rows = 1..Len(rows)
      BY <1>1 DEF RowsSound
    <2>2. HeldAll \subseteq {Stored(rows[n]) : n \in DOMAIN rows}
      BY <1>1, <1>3, <2>1 DEF Mirrored
    <2>3. \A n \in DOMAIN rows :
            Stored(rows[n]) \in HeldAll \/ (Bounded /\ rows[n].at + IdleTtl < pclock)
      BY <1>1, <1>3, <2>1 DEF Mirrored, Stale
    <2> QED BY <2>2, <2>3 DEF RestartFindsTheEndpoints
  <1>8. UnregisteredStaysOut
    BY <1>3 DEF UnregisteredStaysOut, EndpointsInv
  <1> QED BY <1>6, <1>7, <1>8 DEF EndpointsAreKept

(* The registry keeps the endpoints of its devices: what it holds in memory *)
(* is of its type and within its bounds, a restart finds it again, and an   *)
(* endpoint that was unregistered stays out (TokenRegistry,                 *)
(* NotifyPushStore).                                                        *)
THEOREM EndpointsStay == PushSpec => []EndpointsAreKept
  <1>1. PushInit => EndpointsInv
    BY EndpointsInitially
  <1>2. EndpointsInv /\ [PushNext]_pushVars => EndpointsInv'
    BY EndpointsStep
  <1>3. EndpointsInv => EndpointsAreKept
    BY EndpointsSound
  <1> QED BY <1>1, <1>2, <1>3, PTL DEF PushSpec

-----------------------------------------------------------------------------
(* Streams over HTTP.  The count that the caps are compared with is kept   *)
(* apart from the streams themselves; it is theirs because every step that *)
(* takes streams off the registry counts down as many.                     *)

Registered == {c \in Clients : sinks[c].registered}

(* A request whose token is being validated is not in the registry yet. *)
SinksInv ==
  /\ sinks = [c \in Clients |-> sinks[c]]
  /\ \A c \in Clients : {"phase", "registered"} \subseteq DOMAIN sinks[c]
  /\ \A c \in Clients : sinks[c].phase = "validating" => ~sinks[c].registered

CapInv ==
  /\ IsFiniteSet(Registered)
  /\ CapsCountStreams
  /\ sinkCount <= SseCap

(* Streams leave the registry, and the count goes down by as many.        *)
LEMMA StreamsLeave ==
  ASSUME CapInv, Registered' \subseteq Registered,
         sinkCount' = sinkCount - Cardinality(Registered \ Registered')
  PROVE  CapInv'
  <1>1. IsFiniteSet(Registered) /\ IsFiniteSet(Registered')
    BY FS_Subset DEF CapInv
  <1>2. Registered \cap Registered' = Registered'
    OBVIOUS
  <1>3. Cardinality(Registered \ Registered')
          = Cardinality(Registered) - Cardinality(Registered')
    BY <1>1, <1>2, FS_Difference
  <1>4. Cardinality(Registered) \in Nat /\ Cardinality(Registered') \in Nat
    BY <1>1, FS_CardinalityType
  <1>5. /\ CapsCountStreams <=> sinkCount = Cardinality(Registered)
        /\ CapsCountStreams' <=> sinkCount' = Cardinality(Registered')
    BY DEF CapsCountStreams, Registered
  <1>6. Cardinality(Registered') <= Cardinality(Registered)
    BY <1>1, FS_Subset
  <1>7. SseCap \in Nat
    BY SseAssumption
  <1> HIDE DEF Registered
  <1> QED BY <1>1, <1>3, <1>4, <1>5, <1>6, <1>7 DEF CapInv

(* ... one at a time, where removeSseSink is called for one. *)
LEMMA StreamLeaves ==
  ASSUME CapInv, NEW c \in Registered, Registered' = Registered \ {c},
         sinkCount' = sinkCount - 1
  PROVE  CapInv'
  <1>1. Registered \ Registered' = {c}
    OBVIOUS
  <1>2. Cardinality(Registered \ Registered') = 1
    BY <1>1, FS_Singleton
  <1> QED BY <1>2, StreamsLeave

(* The registry and its count are left alone.                             *)
LEMMA StreamsStay ==
  ASSUME CapInv, Registered' = Registered, sinkCount' = sinkCount
  PROVE  CapInv'
  BY DEF CapInv, CapsCountStreams, Registered

(* A stream opens below the cap, and is counted.                          *)
LEMMA StreamOpens ==
  ASSUME CapInv, NEW c \in Clients \ Registered, sinkCount < SseCap,
         Registered' = Registered \cup {c}, sinkCount' = sinkCount + 1
  PROVE  CapInv'
  <1>1. IsFiniteSet(Registered) /\ sinkCount = Cardinality(Registered)
    BY DEF CapInv, CapsCountStreams, Registered
  <1>2. /\ IsFiniteSet(Registered')
        /\ Cardinality(Registered') = Cardinality(Registered) + 1
    BY <1>1, FS_AddElement
  <1>3. Cardinality(Registered) \in Nat /\ SseCap \in Nat
    BY <1>1, FS_CardinalityType, SseAssumption
  <1>4. CapsCountStreams' <=> sinkCount' = Cardinality(Registered')
    BY DEF CapsCountStreams, Registered
  <1> QED BY <1>1, <1>2, <1>3, <1>4 DEF CapInv

(* A write to a stream leaves it registered, or drops it. *)
LEMMA WriteDrops ==
  ASSUME SinksInv, NEW c \in Clients, NEW f
  PROVE  LET s == WriteSseSink(sinks[c], f)
         IN  /\ {"phase", "registered"} \subseteq DOMAIN s
             /\ s.registered => sinks[c].registered
             /\ s.phase = "validating" => ~s.registered
  <1> DEFINE s == sinks[c]
  <1>1. /\ {"phase", "registered"} \subseteq DOMAIN s
        /\ s.phase = "validating" => ~s.registered
    BY DEF SinksInv
  <1> HIDE DEF s
  <1>2. /\ {"phase", "registered"} \subseteq DOMAIN DropSseSink(s)
        /\ ~DropSseSink(s).registered
    BY <1>1 DEF DropSseSink, RemoveSseSink
  <1>3. LET t == [s EXCEPT !.sent = Append(@, f), !.queued = @ + 1]
        IN  /\ {"phase", "registered"} \subseteq DOMAIN t
            /\ t.registered = s.registered /\ t.phase = s.phase
    BY <1>1
  <1>4. LET t == [s EXCEPT !.buffer = Append(@, f)]
        IN  /\ {"phase", "registered"} \subseteq DOMAIN t
            /\ t.registered = s.registered /\ t.phase = s.phase
    BY <1>1
  <1>5. /\ {"phase", "registered"} \subseteq DOMAIN WriteSseSink(s, f)
        /\ WriteSseSink(s, f).registered => s.registered
        /\ WriteSseSink(s, f).phase = "validating" =>
             ~WriteSseSink(s, f).registered
    BY <1>1, <1>2, <1>3, <1>4 DEF WriteSseSink, WriteSseChunk
  <1> QED BY <1>5 DEF s

(* Every step that writes one stream leaves the others as they are. *)
LEMMA OneStream ==
  ASSUME SinksInv, NEW c \in Clients, NEW s,
         sinks' = [sinks EXCEPT ![c] = s],
         {"phase", "registered"} \subseteq DOMAIN s,
         s.phase = "validating" => ~s.registered
  PROVE  /\ SinksInv'
         /\ sinks'[c] = s
         /\ s.registered => Registered' = Registered \cup {c}
         /\ ~s.registered => Registered' = Registered \ {c}
  <1>1. sinks' = [d \in Clients |-> IF d = c THEN s ELSE sinks[d]]
    BY DEF SinksInv
  <1>2. SinksInv'
    BY <1>1 DEF SinksInv
  <1> QED BY <1>1, <1>2 DEF Registered

(* A request that is refused, or has been cleaned up after, leaves nothing.*)
LEMMA StreamCloses ==
  ASSUME SinksInv, NEW c \in Clients, sinks' = [sinks EXCEPT ![c] = Closed]
  PROVE  SinksInv' /\ Registered' = Registered \ {c}
  <1>1. {"phase", "registered"} \subseteq DOMAIN Closed /\ ~Closed.registered
    BY DEF Closed
  <1> QED BY <1>1, OneStream

(* `proceed' opens a stream only below the cap. *)
LEMMA ProceedStep ==
  ASSUME SinksInv, CapInv, NEW c \in Clients, ~sinks[c].registered, NEW s,
         {"phase", "registered"} \subseteq DOMAIN s, Proceed(c, s)
  PROVE  SinksInv' /\ CapInv'
  <1>1. sinkCount \in Nat /\ SseCap \in Nat
    BY FS_CardinalityType, SseAssumption DEF CapInv, CapsCountStreams, Registered
  <1>2. c \notin Registered
    BY DEF Registered
  <1>3. CASE sinkCount >= SseCap
    <2>1. sinks' = [sinks EXCEPT ![c] = Closed] /\ sinkCount' = sinkCount
      BY <1>3 DEF Proceed
    <2>2. SinksInv' /\ Registered' = Registered \ {c}
      BY <2>1, StreamCloses
    <2> QED BY <1>2, <2>1, <2>2, StreamsStay
  <1>4. CASE ~(sinkCount >= SseCap)
    <2>1. sinks' = [sinks EXCEPT ![c] = Opened(s)] /\ sinkCount' = sinkCount + 1
      BY <1>4 DEF Proceed
    <2>2. /\ {"phase", "registered"} \subseteq DOMAIN Opened(s)
          /\ Opened(s).registered /\ Opened(s).phase # "validating"
      BY DEF Opened
    <2>3. SinksInv' /\ Registered' = Registered \cup {c}
      BY <2>1, <2>2, OneStream
    <2> QED BY <1>1, <1>2, <1>4, <2>1, <2>3, StreamOpens
  <1> QED BY <1>3, <1>4

(* Every step keeps the count that of the registered streams.             *)
LEMMA SseStep ==
  ASSUME SinksInv, CapInv, [SseNext]_sseVars
  PROVE  SinksInv' /\ CapInv'
  <1>1. UNCHANGED <<sinks, sinkCount>> => SinksInv' /\ CapInv'
    BY DEF SinksInv, CapInv, CapsCountStreams, Registered
  <1>2. ASSUME NEW g \in BOOLEAN, SsePublish(g)
        PROVE  SinksInv' /\ CapInv'
    <2>1. PICK f : /\ sinks' = [c \in Clients |-> WriteSseSink(sinks[c], f)]
                   /\ sinkCount' = CountAfter(sinks')
      BY <1>2 DEF SsePublish
    <2>2. \A c \in Clients :
            /\ {"phase", "registered"} \subseteq DOMAIN sinks'[c]
            /\ sinks'[c].registered => sinks[c].registered
            /\ sinks'[c].phase = "validating" => ~sinks'[c].registered
      BY <2>1, WriteDrops
    <2>3. SinksInv'
      BY <2>1, <2>2 DEF SinksInv
    <2>4. Registered' \subseteq Registered
      BY <2>2 DEF Registered
    <2>5. sinkCount' = sinkCount - Cardinality(Registered \ Registered')
      <3>1. {c \in Clients : sinks[c].registered /\ ~sinks'[c].registered}
              = Registered \ Registered'
        BY DEF Registered
      <3> QED BY <2>1, <3>1 DEF CountAfter
    <2> QED BY <2>3, <2>4, <2>5, StreamsLeave
  <1>3. ASSUME NEW c \in Clients, NEW t \in SseTickets, SubscribeByTicket(c, t)
        PROVE  SinksInv' /\ CapInv'
    <2>1. ~sinks[c].registered /\ Proceed(c, Requested(c))
      BY <1>3 DEF SubscribeByTicket, Closed
    <2>2. {"phase", "registered"} \subseteq DOMAIN Requested(c)
      BY DEF Requested, Closed
    <2> QED BY <2>1, <2>2, ProceedStep
  <1>4. ASSUME NEW c \in Clients, SubscribeByToken(c)
        PROVE  SinksInv' /\ CapInv'
    <2> DEFINE s == [Requested(c) EXCEPT !.phase = "validating"]
    <2>1. /\ sinks' = [sinks EXCEPT ![c] = s] /\ sinkCount' = sinkCount
          /\ ~sinks[c].registered
      BY <1>4 DEF SubscribeByToken, Closed
    <2>2. {"phase", "registered"} \subseteq DOMAIN s /\ ~s.registered
      BY DEF Requested, Closed
    <2> HIDE DEF s
    <2>3. SinksInv' /\ Registered' = Registered \ {c}
      BY <2>1, <2>2, OneStream
    <2> QED BY <2>1, <2>3, StreamsStay DEF Registered
  <1>5. ASSUME NEW c \in Clients, TokenValidated(c)
        PROVE  SinksInv' /\ CapInv'
    <2>1. ~sinks[c].registered /\ {"phase", "registered"} \subseteq DOMAIN sinks[c]
      BY <1>5 DEF TokenValidated, SinksInv
    <2>2. CASE Proceed(c, sinks[c])
      BY <2>1, <2>2, ProceedStep
    <2>3. CASE sinks' = [sinks EXCEPT ![c] = Closed] /\ sinkCount' = sinkCount
      <3>1. SinksInv' /\ Registered' = Registered \ {c}
        BY <2>3, StreamCloses
      <3> QED BY <2>1, <2>3, <3>1, StreamsStay DEF Registered
    <2> QED BY <1>5, <2>2, <2>3 DEF TokenValidated
  <1>6. ASSUME NEW c \in Clients, ReplaySseHistory(c)
        PROVE  SinksInv' /\ CapInv'
    <2>1. /\ sinks[c].registered
          /\ {"phase", "registered"} \subseteq DOMAIN sinks[c]
          /\ sinkCount' = CountAfter(sinks')
      BY <1>6 DEF ReplaySseHistory, SinksInv
    <2>2. PICK written :
            sinks' = [sinks EXCEPT ![c] =
                        [sinks[c] EXCEPT
                           !.buffer = <<>>,
                           !.sent = written.sent, !.queued = written.queued,
                           !.registered = written.registered,
                           !.phase = IF written.registered THEN "live"
                                                           ELSE written.phase]]
      BY <1>6 DEF ReplaySseHistory
    <2> DEFINE s == sinks'[c]
    <2>3. /\ sinks' = [sinks EXCEPT ![c] = s]
          /\ {"phase", "registered"} \subseteq DOMAIN s
          /\ s.phase = "validating" => ~s.registered
      BY <2>1, <2>2 DEF SinksInv
    <2> HIDE DEF s
    <2>4. SinksInv' /\ Registered' \subseteq Registered
      <3>1. c \in Registered
        BY <2>1 DEF Registered
      <3> QED BY <2>3, <3>1, OneStream
    <2>5. sinkCount' = sinkCount - Cardinality(Registered \ Registered')
      <3>1. {d \in Clients : sinks[d].registered /\ ~sinks'[d].registered}
              = Registered \ Registered'
        BY DEF Registered
      <3> QED BY <2>1, <3>1 DEF CountAfter
    <2> QED BY <2>4, <2>5, StreamsLeave
  <1>7. ASSUME NEW c \in Clients, Flush(c) \/ Receive(c) \/ Depart(c)
        PROVE  SinksInv' /\ CapInv'
    <2> DEFINE s == sinks'[c]
    <2>1. /\ sinks' = [sinks EXCEPT ![c] = s] /\ sinkCount' = sinkCount
          /\ {"phase", "registered"} \subseteq DOMAIN s
          /\ s.registered = sinks[c].registered /\ s.phase = sinks[c].phase
      BY <1>7 DEF Flush, Receive, Depart, SinksInv
    <2>2. s.phase = "validating" => ~s.registered
      BY <2>1 DEF SinksInv
    <2> HIDE DEF s
    <2>3. SinksInv' /\ Registered' = Registered
      <3>1. c \in Registered <=> s.registered
        BY <2>1 DEF Registered
      <3>2. /\ SinksInv'
            /\ s.registered => Registered' = Registered \cup {c}
            /\ ~s.registered => Registered' = Registered \ {c}
        BY <2>1, <2>2, OneStream
      <3>3. CASE s.registered
        BY <3>1, <3>2, <3>3
      <3>4. CASE ~s.registered
        BY <3>1, <3>2, <3>4
      <3> QED BY <3>2, <3>3, <3>4
    <2> QED BY <2>1, <2>3, StreamsStay
  <1>8. ASSUME NEW c \in Clients, Cleanup(c)
        PROVE  SinksInv' /\ CapInv'
    <2>1. {"phase", "registered"} \subseteq DOMAIN sinks[c]
      BY DEF SinksInv
    <2>2. CASE sinks[c].registered
      <3>1. /\ sinks' = [sinks EXCEPT ![c] = RemoveSseSink(sinks[c])]
            /\ sinkCount' = sinkCount - 1
        BY <1>8, <2>2 DEF Cleanup, Uncounted
      <3>2. /\ {"phase", "registered"} \subseteq DOMAIN RemoveSseSink(sinks[c])
            /\ ~RemoveSseSink(sinks[c]).registered
        BY <2>1 DEF RemoveSseSink
      <3>3. SinksInv' /\ Registered' = Registered \ {c}
        BY <3>1, <3>2, OneStream
      <3>4. c \in Registered
        BY <2>2 DEF Registered
      <3> QED BY <3>1, <3>3, <3>4, StreamLeaves
    <2>3. CASE ~sinks[c].registered
      <3>1. sinks' = [sinks EXCEPT ![c] = Closed] /\ sinkCount' = sinkCount
        BY <1>8, <2>3 DEF Cleanup, Uncounted
      <3>2. SinksInv' /\ Registered' = Registered \ {c}
        BY <3>1, StreamCloses
      <3> QED BY <2>3, <3>1, <3>2, StreamsStay DEF Registered
    <2> QED BY <2>2, <2>3
  <1>9. CASE \/ SseTick
             \/ \E row \in adding : ZAdd(row)
             \/ \E t \in SseTickets : IssueSseTicket(t) \/ SweepSseTickets(t)
             \/ UNCHANGED sseVars
    BY <1>1, <1>9 DEF SseTick, ZAdd, IssueSseTicket, SweepSseTickets, sseVars
  <1> QED
    BY <1>2, <1>3, <1>4, <1>5, <1>6, <1>7, <1>8, <1>9 DEF SseNext

(* removeSseSink runs for every event of a connection and for every slow   *)
(* reader, yet the count that SSE_MAX_PER_REALM and SSE_MAX_PER_IP are     *)
(* compared with is the number of open streams, and so they bound it.      *)
THEOREM StreamsAreCounted == SseSpec => [](CapsCountStreams /\ sinkCount <= SseCap)
  <1>1. SseInit => SinksInv /\ CapInv
    <2> SUFFICES ASSUME SseInit PROVE SinksInv /\ CapInv
      OBVIOUS
    <2>1. sinks = [c \in Clients |-> Closed] /\ sinkCount = 0
      BY DEF SseInit
    <2>2. SinksInv
      BY <2>1 DEF SinksInv, Closed
    <2>3. Registered = {}
      BY <2>1 DEF Registered, Closed
    <2>4. CapsCountStreams <=> sinkCount = Cardinality(Registered)
      BY DEF CapsCountStreams, Registered
    <2>5. SseCap \in Nat
      BY SseAssumption
    <2> QED BY <2>1, <2>2, <2>3, <2>4, <2>5, FS_EmptySet DEF CapInv
  <1>2. SinksInv /\ CapInv /\ [SseNext]_sseVars => (SinksInv /\ CapInv)'
    BY SseStep
  <1>3. CapInv => CapsCountStreams /\ sinkCount <= SseCap
    BY DEF CapInv
  <1> QED BY <1>1, <1>2, <1>3, PTL DEF SseSpec

-----------------------------------------------------------------------------
(* Streams without a gap.  What a client has received, what was written to *)
(* its connection and what the history holds are related frame by frame:   *)
(* up to each guaranteed frame a client has got or is sent, it has all     *)
(* those from its first one on.  The history has a row of each guaranteed  *)
(* frame, in order, so the replay goes on where the client is.             *)

SinkType ==
  [phase : {"none", "validating", "replaying", "live", "ended"}, there : BOOLEAN,
   registered : BOOLEAN, resume : Nat, buffer : Seq(Nat), sent : Seq(Nat),
   read : Nat, queued : Nat]
HistoryRow == [frame : Nat, score : Nat]

Within(q, n) == \A k \in 1..Len(q) : q[k] \in 1..n
OnlyOnce(q) == \A j, k \in 1..Len(q) : q[j] = q[k] => j = k

(* The history: no frame twice, neither indexed nor on its way. *)
HistorySound(h, a, n) ==
  /\ h \in Seq(HistoryRow) /\ a \subseteq HistoryRow
  /\ \A k \in 1..Len(h) : h[k].frame \in 1..n
  /\ \A row \in a : row.frame \in 1..n
  /\ \A j, k \in 1..Len(h) : h[j].frame = h[k].frame => j = k
  /\ \A k \in 1..Len(h), row \in a : h[k].frame # row.frame
  /\ \A r1, r2 \in a : r1.frame = r2.frame => r1 = r2

(* A store that writes in one step has every guaranteed frame, in order. *)
HistoryWhole(h, p) ==
  /\ \A j, k \in 1..Len(h) : j < k => h[j].frame < h[k].frame
  /\ \A k \in 1..Len(h) : p[h[k].frame]
  /\ \A f \in 1..Len(p) : p[f] => \E k \in 1..Len(h) : h[k].frame = f

(* One connection: before its stream is live nothing is written to it. *)
SinkSound(s, n) ==
  /\ s \in SinkType
  /\ Within(s.sent, n) /\ Within(s.buffer, n)
  /\ OnlyOnce(s.sent) /\ OnlyOnce(s.buffer)
  /\ s.phase \in {"validating", "replaying"} => s.sent = <<>> /\ s.read = 0 /\ s.queued = 0
  /\ s.registered => s.phase \in {"replaying", "live"}
  /\ s.read <= Len(s.sent)

Seen(g) == {g[k] : k \in 1..Len(g)}
Written(s, n) == {s.sent[k] : k \in 1..n}
FirstFrame(g, s) == IF g # <<>> THEN g[1] ELSE s.sent[1]
Every(p, a, b, F) == \A f \in a..b : p[f] => f \in F

(* What a client has received, and its connection, leave no gap. *)
Received(p, g, s) ==
  /\ g \in Seq(Nat) /\ Within(g, Len(p))
  /\ \A k \in 1..Len(s.sent) : k <= s.read => s.sent[k] \in Seen(g)
  /\ g = <<>> => s.read = 0
  /\ s.phase \in {"validating", "replaying"} => s.resume = IF g = <<>> THEN 0 ELSE g[Len(g)]
  /\ s.phase = "replaying" => g # <<>>
  /\ \A k \in 1..Len(s.buffer) : s.buffer[k] > s.resume
Followed(p, g, s) ==
  /\ g # <<>> /\ p[g[Len(g)]] => Every(p, g[1], g[Len(g)], Seen(g))
  /\ \A k \in 1..Len(s.sent) :
       p[s.sent[k]] => Every(p, FirstFrame(g, s), s.sent[k], Seen(g) \cup Written(s, k))
  /\ s.phase = "live" /\ s.registered /\ (g # <<>> \/ s.sent # <<>>) =>
       Every(p, FirstFrame(g, s), Len(p), Seen(g) \cup Written(s, Len(s.sent)))

(* The states of a sink while frames are written to it, one by one. *)
Writes(g, s, fs, m) ==
  g = [n \in 0..m |-> IF n = 0 THEN s ELSE WriteSseChunk(g[n - 1], fs[n])]

(* There is such a history of writes, by a least counterexample.          *)
LEMMA WritesExist ==
  ASSUME NEW s, NEW fs, NEW m \in Nat
  PROVE  \E g : Writes(g, s, fs, m)
  <1> DEFINE T == {x \in Nat : ~\E g : Writes(g, s, fs, x)}
  <1> SUFFICES ASSUME T # {} PROVE FALSE
    OBVIOUS
  <1>1. PICK x \in T : \A y \in T : x <= y
    <2>1. T \in SUBSET Nat
      OBVIOUS
    <2> HIDE DEF T
    <2> QED BY <2>1, FirstOfNaturals
  <1>2. x \in Nat /\ ~\E g : Writes(g, s, fs, x)
    BY <1>1
  <1>3. CASE x = 0
    <2> DEFINE g == [n \in 0..0 |-> s]
    <2>1. Writes(g, s, fs, 0)
      BY DEF Writes
    <2> QED BY <1>2, <1>3, <2>1
  <1>4. CASE x # 0
    <2>1. x - 1 \in Nat /\ ~(x <= x - 1)
      BY <1>2, <1>4
    <2>2. PICK h : Writes(h, s, fs, x - 1)
      BY <1>1, <2>1
    <2> DEFINE g == [n \in 0..x |-> IF n < x THEN h[n] ELSE WriteSseChunk(h[x - 1], fs[x])]
    <2>3. \A n \in 0..(x - 1) : h[n] = IF n = 0 THEN s ELSE WriteSseChunk(h[n - 1], fs[n])
      BY <2>2 DEF Writes
    <2>4. \A n \in 0..x : g[n] = IF n = 0 THEN s ELSE WriteSseChunk(g[n - 1], fs[n])
      <3> SUFFICES ASSUME NEW n \in 0..x
                   PROVE  g[n] = IF n = 0 THEN s ELSE WriteSseChunk(g[n - 1], fs[n])
        OBVIOUS
      <3>1. CASE n < x
        <4>1. n \in 0..(x - 1) /\ g[n] = h[n]
          BY <1>2, <3>1
        <4>2. CASE n = 0
          BY <2>3, <4>1, <4>2
        <4>3. CASE n # 0
          <5>1. n - 1 \in 0..x /\ n - 1 < x
            BY <1>2, <3>1, <4>3
          <5>2. g[n - 1] = h[n - 1]
            BY <5>1
          <5> QED BY <2>3, <4>1, <4>3, <5>2
        <4> QED BY <4>2, <4>3
      <3>2. CASE ~(n < x)
        <4>1. n = x /\ x - 1 \in 0..x /\ x - 1 < x
          BY <1>2, <1>4, <3>2
        <4>2. g[x - 1] = h[x - 1]
          BY <4>1
        <4>3. g[n] = WriteSseChunk(h[x - 1], fs[x])
          BY <3>2, <4>1
        <4> QED BY <1>4, <4>1, <4>2, <4>3
      <3> QED BY <3>1, <3>2
    <2>5. g = [n \in 0..x |-> g[n]]
      OBVIOUS
    <2> HIDE DEF g
    <2>6. Writes(g, s, fs, x)
      BY <2>4, <2>5 DEF Writes
    <2> QED BY <1>2, <2>6
  <1> QED BY <1>3, <1>4

(* WriteAll is the last state of the history of its writes.               *)
LEMMA WriteAllIs ==
  ASSUME NEW s, NEW T, NEW fs \in Seq(T)
  PROVE  \E g : Writes(g, s, fs, Len(fs)) /\ WriteAll(s, fs) = g[Len(fs)]
  <1> DEFINE G == CHOOSE g : Writes(g, s, fs, Len(fs))
  <1>1. Len(fs) \in Nat
    OBVIOUS
  <1>2. Writes(G, s, fs, Len(fs))
    BY <1>1, WritesExist
  <1>3. WriteAll(s, fs) = G[Len(fs)]
    BY DEF WriteAll, Writes
  <1> QED BY <1>2, <1>3

(* One write: refused, dropping the reader, or done. *)
WriteOutcome(t, s, f) ==
  /\ t \in SinkType
  /\ t.there = s.there /\ t.resume = s.resume /\ t.buffer = s.buffer /\ t.read = s.read
  /\ \/ ~s.registered /\ t = s
     \/ ~t.registered /\ t.phase = "ended" /\ t.sent = s.sent
     \/ /\ s.registered /\ t.registered /\ t.phase = s.phase
        /\ t.sent = Append(s.sent, f)

(* writeSseChunk: nothing, a drop, or one frame more.                     *)
LEMMA ChunkOutcome ==
  ASSUME NEW s \in SinkType, NEW f \in Nat
  PROVE  WriteOutcome(WriteSseChunk(s, f), s, f)
  <1>1. s.sent \in Seq(Nat) /\ s.queued \in Nat
    BY DEF SinkType
  <1>2. DropSseSink(s) = [s EXCEPT !.registered = FALSE, !.phase = "ended"]
    BY DEF DropSseSink, RemoveSseSink, SinkType
  <1>3. CASE ~s.registered
    BY <1>3 DEF WriteSseChunk, WriteOutcome
  <1>4. CASE s.registered /\ s.queued + 1 > PendingMax
    <2>1. WriteSseChunk(s, f) = [s EXCEPT !.registered = FALSE, !.phase = "ended"]
      BY <1>2, <1>4 DEF WriteSseChunk
    <2> QED BY <2>1 DEF WriteOutcome, SinkType
  <1>5. CASE s.registered /\ ~(s.queued + 1 > PendingMax)
    <2>1. WriteSseChunk(s, f) =
            [s EXCEPT !.sent = Append(s.sent, f), !.queued = s.queued + 1]
      BY <1>5 DEF WriteSseChunk
    <2>2. Append(s.sent, f) \in Seq(Nat) /\ s.queued + 1 \in Nat
      BY <1>1
    <2> QED BY <1>5, <2>1, <2>2 DEF WriteOutcome, SinkType
  <1> QED BY <1>3, <1>4, <1>5

(* Writes one after the other: a first part of the frames, all of them to a *)
(* reader that is not dropped.                                              *)
AllOutcome(t, s, fs, n) ==
  /\ t \in SinkType
  /\ t.there = s.there /\ t.resume = s.resume /\ t.buffer = s.buffer /\ t.read = s.read
  /\ \A k \in 1..Len(t.sent) : t.sent[k] = fs[k]
  /\ Len(t.sent) <= n
  /\ \/ ~t.registered /\ t.phase = "ended"
     \/ t.registered /\ t.phase = s.phase /\ Len(t.sent) = n

(* One write more after those before it.                                  *)
LEMMA NextOutcome ==
  ASSUME NEW fs \in Seq(Nat), NEW n \in 1..Len(fs), NEW s, NEW u, NEW t,
         AllOutcome(u, s, fs, n - 1), WriteOutcome(t, u, fs[n])
  PROVE  AllOutcome(t, s, fs, n)
  <1>1. /\ u \in SinkType /\ u.sent \in Seq(Nat) /\ Len(u.sent) \in Nat /\ n \in Nat
        /\ fs[n] \in Nat
    BY DEF AllOutcome, SinkType
  <1>2. /\ \A k \in 1..Len(u.sent) : u.sent[k] = fs[k]
        /\ Len(u.sent) <= n - 1
        /\ \/ ~u.registered /\ u.phase = "ended"
           \/ u.registered /\ u.phase = s.phase /\ Len(u.sent) = n - 1
    BY DEF AllOutcome
  <1>3. /\ t \in SinkType
        /\ t.there = s.there /\ t.resume = s.resume /\ t.buffer = s.buffer /\ t.read = s.read
    BY DEF AllOutcome, WriteOutcome
  <1>4. CASE ~u.registered /\ t = u
    <2>1. Len(t.sent) <= n
      BY <1>1, <1>2, <1>4
    <2> QED BY <1>2, <1>3, <1>4, <2>1 DEF AllOutcome
  <1>5. CASE ~t.registered /\ t.phase = "ended" /\ t.sent = u.sent
    <2>1. Len(t.sent) <= n
      BY <1>1, <1>2, <1>5
    <2> QED BY <1>2, <1>3, <1>5, <2>1 DEF AllOutcome
  <1>6. CASE u.registered /\ t.registered /\ t.phase = u.phase /\ t.sent = Append(u.sent, fs[n])
    <2>1. Len(u.sent) = n - 1 /\ u.phase = s.phase
      BY <1>2, <1>6
    <2> DEFINE q == u.sent
               l == Len(q)
    <2>2. /\ q \in Seq(Nat) /\ t.sent = Append(q, fs[n]) /\ l = n - 1
      BY <1>1, <1>6, <2>1
    <2>3. /\ Len(t.sent) = l + 1 /\ t.sent[l + 1] = fs[n]
          /\ \A k \in 1..l : t.sent[k] = q[k]
      <3> HIDE DEF q
      <3> QED BY <1>1, <2>2
    <2> HIDE DEF q, l
    <2>4. Len(t.sent) = n
      BY <1>1, <2>2, <2>3
    <2>5. \A k \in 1..n : k \in 1..l \/ k = n
      BY <1>1, <2>2
    <2>6. \A k \in 1..Len(t.sent) : t.sent[k] = fs[k]
      <3>1. \A k \in 1..l : q[k] = fs[k]
        BY <1>2 DEF q, l
      <3>2. t.sent[n] = fs[n]
        BY <1>1, <2>2, <2>3
      <3> QED BY <2>3, <2>4, <2>5, <3>1, <3>2
    <2>7. Len(t.sent) <= n
      BY <1>1, <2>4
    <2> QED BY <1>3, <1>6, <2>1, <2>4, <2>6, <2>7 DEF AllOutcome
  <1> QED BY <1>4, <1>5, <1>6 DEF WriteOutcome

(* All writes of goLive: a first part of the frames, or all.              *)
LEMMA WriteAllOutcome ==
  ASSUME NEW s \in SinkType, s.registered, s.sent = <<>>, NEW fs \in Seq(Nat)
  PROVE  AllOutcome(WriteAll(s, fs), s, fs, Len(fs))
  <1>1. PICK g : Writes(g, s, fs, Len(fs)) /\ WriteAll(s, fs) = g[Len(fs)]
    BY WriteAllIs
  <1> DEFINE L == Len(fs)
  <1>2. L \in Nat
    OBVIOUS
  <1>3. \A n \in 0..L : g[n] = IF n = 0 THEN s ELSE WriteSseChunk(g[n - 1], fs[n])
    BY <1>1 DEF Writes
  <1>4. AllOutcome(g[0], s, fs, 0)
    <2>1. g[0] = s
      BY <1>2, <1>3
    <2> QED BY <2>1 DEF AllOutcome
  <1> HIDE DEF L
  <1> DEFINE T == {n \in Nat : n <= L /\ ~AllOutcome(g[n], s, fs, n)}
  <1>5. T = {}
    <2> SUFFICES ASSUME T # {} PROVE FALSE
      OBVIOUS
    <2>1. PICK x \in T : \A y \in T : x <= y
      <3>1. T \in SUBSET Nat
        OBVIOUS
      <3> HIDE DEF T
      <3> QED BY <3>1, FirstOfNaturals
    <2>2. x \in Nat /\ x <= L /\ ~AllOutcome(g[x], s, fs, x)
      BY <2>1
    <2>3. x # 0
      BY <1>4, <2>2
    <2>4. x - 1 \in Nat /\ ~(x <= x - 1) /\ x - 1 <= L /\ x \in 1..L
      BY <1>2, <2>2, <2>3
    <2>5. AllOutcome(g[x - 1], s, fs, x - 1)
      BY <2>1, <2>4
    <2>6. g[x] = WriteSseChunk(g[x - 1], fs[x])
      BY <1>2, <1>3, <2>2, <2>3
    <2>7. fs[x] \in Nat
      BY <2>4 DEF L
    <2>8. WriteOutcome(g[x], g[x - 1], fs[x])
      <3>1. g[x - 1] \in SinkType
        BY <2>5 DEF AllOutcome
      <3> QED BY <2>6, <2>7, <3>1, ChunkOutcome
    <2>9. AllOutcome(g[x], s, fs, x)
      BY <2>4, <2>5, <2>8, NextOutcome DEF L
    <2> QED BY <2>2, <2>9
  <1>6. L <= L
    BY <1>2
  <1>7. AllOutcome(g[L], s, fs, L)
    BY <1>2, <1>5, <1>6
  <1> QED BY <1>1, <1>7 DEF L

(* What a publication does to a stream. *)
SinkOutcome(t, s, f) ==
  /\ t \in SinkType
  /\ t.there = s.there /\ t.resume = s.resume /\ t.read = s.read
  /\ \/ ~s.registered /\ t = s
     \/ ~t.registered /\ t.phase = "ended" /\ t.sent = s.sent /\ t.buffer = s.buffer
     \/ /\ s.registered /\ t.registered /\ s.phase = "replaying" /\ t.phase = s.phase
        /\ t.sent = s.sent /\ t.buffer = Append(s.buffer, f) /\ t.queued = s.queued
     \/ /\ s.registered /\ t.registered /\ s.phase # "replaying" /\ t.phase = s.phase
        /\ t.sent = Append(s.sent, f) /\ t.buffer = s.buffer

(* writeSseSink: a frame is held back while replaying, and written when   *)
(* live.                                                                  *)
LEMMA PublishOutcome ==
  ASSUME NEW s \in SinkType, NEW f \in Nat
  PROVE  SinkOutcome(WriteSseSink(s, f), s, f)
  <1>1. CASE ~s.registered
    BY <1>1 DEF WriteSseSink, SinkOutcome
  <1>2. CASE s.registered /\ s.phase = "replaying" /\ Len(s.buffer) + 1 > ReplayMax
    <2>1. DropSseSink(s) = [s EXCEPT !.registered = FALSE, !.phase = "ended"]
      BY DEF DropSseSink, RemoveSseSink, SinkType
    <2>2. WriteSseSink(s, f) = [s EXCEPT !.registered = FALSE, !.phase = "ended"]
      BY <1>2, <2>1 DEF WriteSseSink
    <2> QED BY <2>2 DEF SinkOutcome, SinkType
  <1>3. CASE s.registered /\ s.phase = "replaying" /\ ~(Len(s.buffer) + 1 > ReplayMax)
    <2>1. WriteSseSink(s, f) = [s EXCEPT !.buffer = Append(s.buffer, f)]
      BY <1>3 DEF WriteSseSink
    <2>2. Append(s.buffer, f) \in Seq(Nat)
      BY DEF SinkType
    <2> QED BY <1>3, <2>1, <2>2 DEF SinkOutcome, SinkType
  <1>4. CASE s.registered /\ s.phase # "replaying"
    <2>1. WriteSseSink(s, f) = WriteSseChunk(s, f)
      BY <1>4 DEF WriteSseSink
    <2>2. WriteOutcome(WriteSseChunk(s, f), s, f)
      BY ChunkOutcome
    <2> QED BY <1>4, <2>1, <2>2 DEF SinkOutcome, WriteOutcome
  <1> QED BY <1>1, <1>2, <1>3, <1>4

(* What appending does, in the form that the steps below cite.            *)
LEMMA AppendFacts ==
  ASSUME NEW T, NEW q \in Seq(T), NEW e \in T
  PROVE  /\ Append(q, e) \in Seq(T) /\ Len(q) \in Nat /\ Len(Append(q, e)) = Len(q) + 1
         /\ \A k \in 1..Len(q) : Append(q, e)[k] = q[k]
         /\ Append(q, e)[Len(q) + 1] = e
         /\ \A k \in 1..Len(Append(q, e)) : k \in 1..Len(q) \/ k = Len(q) + 1
         /\ \A k \in 1..Len(q) : k \in 1..Len(Append(q, e))
         /\ Append(q, e) # <<>>
  OBVIOUS

(* A new frame is none of those that are there.                           *)
LEMMA AppendOnce ==
  ASSUME NEW n \in Nat, NEW q \in Seq(Nat), Within(q, n), OnlyOnce(q)
  PROVE  Within(Append(q, n + 1), n + 1) /\ OnlyOnce(Append(q, n + 1))
  <1> DEFINE r == Append(q, n + 1)
             l == Len(q)
  <1>1. /\ l \in Nat /\ Len(r) = l + 1
        /\ \A k \in 1..l : r[k] = q[k]
        /\ r[l + 1] = n + 1
        /\ \A k \in 1..Len(r) : k \in 1..l \/ k = l + 1
    BY AppendFacts
  <1>2. /\ \A k \in 1..l : q[k] \in 1..n
        /\ \A j, k \in 1..l : q[j] = q[k] => j = k
    BY DEF Within, OnlyOnce
  <1> HIDE DEF r, l
  <1>3. \A k \in 1..l : r[k] \in 1..n /\ r[k] \in 1..(n + 1) /\ r[k] # n + 1
    BY <1>1, <1>2
  <1>4. Within(r, n + 1)
    BY <1>1, <1>3 DEF Within
  <1>5. OnlyOnce(r)
    <2> SUFFICES ASSUME NEW j \in 1..Len(r), NEW k \in 1..Len(r), r[j] = r[k]
                 PROVE  j = k
      BY DEF OnlyOnce
    <2>1. CASE j \in 1..l /\ k \in 1..l
      BY <1>1, <1>2, <2>1
    <2>2. CASE j = l + 1 \/ k = l + 1
      BY <1>1, <1>3, <2>2
    <2> QED BY <1>1, <2>1, <2>2
  <1> QED BY <1>4, <1>5 DEF r

(* Frames stay within what is published when more is.                     *)
LEMMA WithinMore ==
  ASSUME NEW n \in Nat, NEW q, Within(q, n)
  PROVE  Within(q, n + 1)
  BY DEF Within

(* A publication keeps a connection sound ...                             *)
LEMMA PublishKeepsSink ==
  ASSUME NEW n \in Nat, NEW s, SinkSound(s, n), NEW t, SinkOutcome(t, s, n + 1)
  PROVE  SinkSound(t, n + 1)
  <1>1. /\ s \in SinkType /\ s.sent \in Seq(Nat) /\ s.buffer \in Seq(Nat) /\ s.read \in Nat
        /\ Within(s.sent, n) /\ Within(s.buffer, n)
        /\ OnlyOnce(s.sent) /\ OnlyOnce(s.buffer)
        /\ s.phase \in {"validating", "replaying"} => s.sent = <<>> /\ s.read = 0 /\ s.queued = 0
        /\ s.registered => s.phase \in {"replaying", "live"}
        /\ s.read <= Len(s.sent)
    BY DEF SinkSound, SinkType
  <1>2. Within(s.sent, n + 1) /\ Within(s.buffer, n + 1)
    BY <1>1, WithinMore
  <1>3. t \in SinkType /\ t.read = s.read
    BY DEF SinkOutcome
  <1>4. CASE ~s.registered /\ t = s
    BY <1>1, <1>2, <1>4 DEF SinkSound
  <1>5. CASE ~t.registered /\ t.phase = "ended" /\ t.sent = s.sent /\ t.buffer = s.buffer
    BY <1>1, <1>2, <1>3, <1>5 DEF SinkSound
  <1>6. CASE /\ s.registered /\ t.registered /\ s.phase = "replaying" /\ t.phase = s.phase
             /\ t.sent = s.sent /\ t.buffer = Append(s.buffer, n + 1) /\ t.queued = s.queued
    <2>1. Within(t.buffer, n + 1) /\ OnlyOnce(t.buffer)
      BY <1>1, <1>6, AppendOnce
    <2> QED BY <1>1, <1>2, <1>3, <1>6, <2>1 DEF SinkSound
  <1>7. CASE /\ s.registered /\ t.registered /\ s.phase # "replaying" /\ t.phase = s.phase
             /\ t.sent = Append(s.sent, n + 1) /\ t.buffer = s.buffer
    <2>1. Within(t.sent, n + 1) /\ OnlyOnce(t.sent)
      BY <1>1, <1>7, AppendOnce
    <2>2. s.phase = "live"
      BY <1>1, <1>7
    <2>3. t.read <= Len(t.sent)
      <3>1. Len(t.sent) = Len(s.sent) + 1 /\ Len(s.sent) \in Nat
        BY <1>1, <1>7, AppendFacts
      <3> QED BY <1>1, <1>3, <3>1
    <2> QED BY <1>1, <1>2, <1>3, <1>7, <2>1, <2>2, <2>3 DEF SinkSound
  <1> QED BY <1>4, <1>5, <1>6, <1>7 DEF SinkOutcome

(* ... and what its client has received, ...                              *)
LEMMA PublishKeepsReceived ==
  ASSUME NEW p \in Seq(BOOLEAN), NEW b \in BOOLEAN, NEW g, NEW s, NEW t,
         SinkSound(s, Len(p)), Received(p, g, s), SinkOutcome(t, s, Len(p) + 1)
  PROVE  Received(Append(p, b), g, t)
  <1> DEFINE n == Len(p)
  <1>1. n \in Nat /\ Len(Append(p, b)) = n + 1
    BY AppendFacts
  <1>2. /\ s \in SinkType /\ s.sent \in Seq(Nat) /\ s.buffer \in Seq(Nat) /\ s.read \in Nat
        /\ s.phase \in {"validating", "replaying"} => s.sent = <<>> /\ s.read = 0
        /\ s.read <= Len(s.sent)
    BY DEF SinkSound, SinkType
  <1>3. /\ g \in Seq(Nat) /\ Within(g, n)
        /\ \A k \in 1..Len(s.sent) : k <= s.read => s.sent[k] \in Seen(g)
        /\ g = <<>> => s.read = 0
        /\ s.phase \in {"validating", "replaying"} => s.resume = IF g = <<>> THEN 0 ELSE g[Len(g)]
        /\ s.phase = "replaying" => g # <<>>
        /\ \A k \in 1..Len(s.buffer) : s.buffer[k] > s.resume
    BY DEF Received
  <1>4. Within(g, n + 1)
    BY <1>1, <1>3, WithinMore
  <1>5. t.resume = s.resume /\ t.read = s.read
    BY DEF SinkOutcome
  <1> HIDE DEF n
  <1>6. CASE ~s.registered /\ t = s
    BY <1>1, <1>3, <1>4, <1>6 DEF Received
  <1>7. CASE ~t.registered /\ t.phase = "ended" /\ t.sent = s.sent /\ t.buffer = s.buffer
    BY <1>1, <1>3, <1>4, <1>5, <1>7 DEF Received
  <1>8. CASE /\ s.registered /\ t.registered /\ s.phase = "replaying" /\ t.phase = s.phase
             /\ t.sent = s.sent /\ t.buffer = Append(s.buffer, n + 1)
    <2>1. n + 1 > s.resume
      <3>1. g # <<>> /\ s.resume = g[Len(g)]
        BY <1>3, <1>8
      <3>2. Len(g) \in 1..Len(g)
        BY <1>3, <3>1
      <3>3. g[Len(g)] \in 1..n
        BY <1>3, <3>2 DEF Within
      <3> QED BY <1>1, <3>1, <3>3
    <2>2. /\ \A k \in 1..Len(s.buffer) : t.buffer[k] = s.buffer[k]
          /\ t.buffer[Len(s.buffer) + 1] = n + 1
          /\ \A k \in 1..Len(t.buffer) : k \in 1..Len(s.buffer) \/ k = Len(s.buffer) + 1
      BY <1>1, <1>2, <1>8, AppendFacts
    <2>3. \A k \in 1..Len(t.buffer) : t.buffer[k] > t.resume
      BY <1>3, <1>5, <2>1, <2>2
    <2> QED BY <1>1, <1>3, <1>4, <1>5, <1>8, <2>3 DEF Received
  <1>9. CASE /\ s.registered /\ t.registered /\ s.phase # "replaying" /\ t.phase = s.phase
             /\ t.sent = Append(s.sent, n + 1) /\ t.buffer = s.buffer
    <2>1. /\ \A k \in 1..Len(s.sent) : t.sent[k] = s.sent[k]
          /\ \A k \in 1..Len(t.sent) : k \in 1..Len(s.sent) \/ k = Len(s.sent) + 1
          /\ Len(s.sent) \in Nat
      BY <1>1, <1>2, <1>9, AppendFacts
    <2>2. ~(Len(s.sent) + 1 <= s.read)
      BY <1>2, <2>1
    <2>3. \A k \in 1..Len(t.sent) : k <= t.read => t.sent[k] \in Seen(g)
      BY <1>3, <1>5, <2>1, <2>2
    <2> QED BY <1>1, <1>3, <1>4, <1>5, <1>9, <2>3 DEF Received
  <1> QED BY <1>6, <1>7, <1>8, <1>9 DEF SinkOutcome, n

(* What covers the frames up to y covers them after a publication.        *)
LEMMA EveryMore ==
  ASSUME NEW p \in Seq(BOOLEAN), NEW b \in BOOLEAN, NEW x, NEW y, y <= Len(p), x >= 1,
         x \in Nat, y \in Nat, NEW F, NEW G, F \subseteq G
  PROVE  Every(p, x, y, F) => Every(Append(p, b), x, y, G)
  <1>1. \A f \in x..y : f \in 1..Len(p)
    OBVIOUS
  <1>2. \A f \in 1..Len(p) : Append(p, b)[f] = p[f]
    BY AppendFacts
  <1> QED BY <1>1, <1>2 DEF Every

(* ... and leaves no gap: a live stream is written the new frame.         *)
LEMMA PublishKeepsFollowed ==
  ASSUME NEW p \in Seq(BOOLEAN), NEW b \in BOOLEAN, NEW g, NEW s, NEW t,
         SinkSound(s, Len(p)), Received(p, g, s), Followed(p, g, s),
         SinkOutcome(t, s, Len(p) + 1)
  PROVE  Followed(Append(p, b), g, t)
  <1> DEFINE n == Len(p)
             q == Append(p, b)
             F(u) == FirstFrame(g, u)
  <1>1. /\ n \in Nat /\ Len(q) = n + 1
        /\ \A f \in 1..n : q[f] = p[f]
    BY AppendFacts
  <1>2. /\ s \in SinkType /\ s.sent \in Seq(Nat) /\ Within(s.sent, n) /\ Len(s.sent) \in Nat
        /\ s.registered => s.phase \in {"replaying", "live"}
        /\ g \in Seq(Nat) /\ Within(g, n) /\ Len(g) \in Nat
    BY DEF SinkSound, SinkType, Received
  <1>3. /\ g # <<>> /\ p[g[Len(g)]] => Every(p, g[1], g[Len(g)], Seen(g))
        /\ \A k \in 1..Len(s.sent) :
             p[s.sent[k]] => Every(p, F(s), s.sent[k], Seen(g) \cup Written(s, k))
        /\ s.phase = "live" /\ s.registered /\ (g # <<>> \/ s.sent # <<>>) =>
             Every(p, F(s), n, Seen(g) \cup Written(s, Len(s.sent)))
    BY DEF Followed
  <1>4. g # <<>> => g[1] \in 1..n /\ g[Len(g)] \in 1..n
    <2>1. g # <<>> => 1 \in 1..Len(g) /\ Len(g) \in 1..Len(g)
      BY <1>2
    <2> QED BY <1>2, <2>1 DEF Within
  <1>5. s.sent # <<>> => 1 \in 1..Len(s.sent) /\ s.sent[1] \in 1..n
    <2>1. s.sent # <<>> => 1 \in 1..Len(s.sent)
      BY <1>2
    <2> QED BY <1>2, <2>1 DEF Within
  <1>6. g # <<>> \/ s.sent # <<>> => F(s) \in 1..n
    BY <1>4, <1>5 DEF FirstFrame
  <1>7. g # <<>> /\ q[g[Len(g)]] => Every(q, g[1], g[Len(g)], Seen(g))
    <2> SUFFICES ASSUME g # <<>>, q[g[Len(g)]]
                 PROVE  Every(q, g[1], g[Len(g)], Seen(g))
      OBVIOUS
    <2>1. Every(p, g[1], g[Len(g)], Seen(g))
      BY <1>1, <1>3, <1>4
    <2>2. /\ g[Len(g)] <= n /\ g[1] >= 1 /\ g[1] \in Nat /\ g[Len(g)] \in Nat
      BY <1>1, <1>4
    <2> QED BY <2>1, <2>2, EveryMore
  <1>8. \A k \in 1..Len(s.sent) : s.sent[k] \in 1..n /\ s.sent # <<>>
    BY <1>2 DEF Within
  <1>9. ASSUME NEW k \in 1..Len(s.sent), q[s.sent[k]]
        PROVE  Every(q, F(s), s.sent[k], Seen(g) \cup Written(s, k))
    <2>1. Every(p, F(s), s.sent[k], Seen(g) \cup Written(s, k))
      BY <1>1, <1>3, <1>8, <1>9
    <2>2. s.sent[k] <= n /\ F(s) >= 1 /\ F(s) \in Nat /\ s.sent[k] \in Nat
      BY <1>1, <1>6, <1>8
    <2> HIDE DEF F
    <2> QED BY <2>1, <2>2, EveryMore
  <1>10. CASE t.sent = s.sent /\ ~(t.phase = "live" /\ t.registered)
    <2>1. F(t) = F(s) /\ \A k \in 1..Len(s.sent) : Written(t, k) = Written(s, k)
      BY <1>10 DEF FirstFrame, Written
    <2>2. \A k \in 1..Len(t.sent) :
            q[t.sent[k]] => Every(q, F(t), t.sent[k], Seen(g) \cup Written(t, k))
      BY <1>9, <1>10, <2>1
    <2> QED BY <1>7, <1>10, <2>2 DEF Followed
  <1>11. CASE /\ s.registered /\ t.registered /\ s.phase = "live" /\ t.phase = s.phase
              /\ t.sent = Append(s.sent, n + 1)
    <2> DEFINE l == Len(s.sent)
    <2>1. /\ Len(t.sent) = l + 1 /\ t.sent[l + 1] = n + 1 /\ t.sent # <<>>
          /\ \A k \in 1..l : t.sent[k] = s.sent[k]
          /\ \A k \in 1..Len(t.sent) : k \in 1..l \/ k = l + 1
      <3> DEFINE z == s.sent
      <3>1. z \in Seq(Nat) /\ n + 1 \in Nat /\ t.sent = Append(z, n + 1) /\ l = Len(z)
        BY <1>1, <1>2, <1>11
      <3> DEFINE r == Append(z, n + 1)
      <3> HIDE DEF z
      <3>2. /\ Len(r) = Len(z) + 1 /\ r[Len(z) + 1] = n + 1 /\ r # <<>>
            /\ \A k \in 1..Len(z) : r[k] = z[k]
            /\ \A k \in 1..Len(r) : k \in 1..Len(z) \/ k = Len(z) + 1
        BY <3>1, AppendFacts
      <3>3. t.sent = r /\ l = Len(z)
        BY <3>1
      <3> HIDE DEF l, r
      <3> QED BY <3>2, <3>3 DEF z
    <2>2. /\ \A k \in 1..l : Written(t, k) = Written(s, k)
          /\ n + 1 \in Written(t, l + 1)
          /\ Written(s, l) \subseteq Written(t, l + 1)
      <3>1. l \in Nat
        BY <1>2
      <3>2. \A k \in 1..l : \A j \in 1..k : t.sent[j] = s.sent[j]
        BY <2>1, <3>1
      <3>3. \A k \in 1..l : k \in 1..(l + 1)
        BY <3>1
      <3>4. l + 1 \in 1..(l + 1)
        BY <3>1
      <3> HIDE DEF l
      <3>5. \A k \in 1..l : Written(t, k) = Written(s, k)
        BY <3>2 DEF Written
      <3>6. n + 1 \in Written(t, l + 1)
        BY <2>1, <3>4 DEF Written
      <3>7. Written(s, l) \subseteq Written(t, l + 1)
        BY <2>1, <3>3 DEF Written
      <3> QED BY <3>5, <3>6, <3>7
    <2>3. g # <<>> \/ s.sent # <<>> => F(t) = F(s)
      BY <1>2, <1>5, <2>1 DEF FirstFrame
    <2>4. g = <<>> /\ s.sent = <<>> => F(t) = n + 1
      BY <2>1 DEF FirstFrame
    <2>5. Every(q, F(t), n + 1, Seen(g) \cup Written(t, l + 1))
      <3>1. CASE g # <<>> \/ s.sent # <<>>
        <4>1. Every(p, F(s), n, Seen(g) \cup Written(s, l))
          BY <1>3, <1>11, <3>1
        <4>2. F(s) \in Nat /\ F(s) >= 1 /\ n <= n
          BY <1>1, <1>6, <3>1
        <4> HIDE DEF F
        <4>3. Every(q, F(s), n, Seen(g) \cup Written(t, l + 1))
          <5>1. Seen(g) \cup Written(s, l) \subseteq Seen(g) \cup Written(t, l + 1)
            BY <2>2
          <5> QED BY <1>1, <4>1, <4>2, <5>1, EveryMore
        <4>4. \A f \in F(s)..(n + 1) : f \in F(s)..n \/ f = n + 1
          BY <1>1, <4>2
        <4> QED BY <2>2, <2>3, <3>1, <4>3, <4>4 DEF Every
      <3>2. CASE g = <<>> /\ s.sent = <<>>
        <4>1. \A f \in (n + 1)..(n + 1) : f = n + 1
          BY <1>1
        <4> QED BY <2>2, <2>4, <3>2, <4>1 DEF Every
      <3> QED BY <3>1, <3>2
    <2>6. ASSUME NEW k \in 1..Len(t.sent), q[t.sent[k]]
          PROVE  Every(q, F(t), t.sent[k], Seen(g) \cup Written(t, k))
      <3>1. CASE k \in 1..l
        <4>1. Every(q, F(s), s.sent[k], Seen(g) \cup Written(s, k))
          BY <1>9, <2>1, <2>6, <3>1
        <4>2. F(t) = F(s)
          BY <1>8, <2>3, <3>1
        <4> QED BY <2>1, <2>2, <3>1, <4>1, <4>2
      <3>2. CASE k = l + 1
        BY <2>1, <2>5, <3>2
      <3> QED BY <2>1, <3>1, <3>2
    <2>7. Every(q, F(t), Len(q), Seen(g) \cup Written(t, Len(t.sent)))
      BY <1>1, <2>1, <2>5
    <2> QED BY <1>7, <2>6, <2>7 DEF Followed
  <1>12. CASE t = s /\ ~s.registered
    BY <1>10, <1>12
  <1>13. CASE ~t.registered /\ t.sent = s.sent
    BY <1>10, <1>13
  <1>14. CASE s.phase = "replaying" /\ t.phase = s.phase /\ t.sent = s.sent
    BY <1>10, <1>14
  <1> QED BY <1>2, <1>11, <1>12, <1>13, <1>14 DEF SinkOutcome

(* What joining two sequences does.                                       *)
LEMMA JoinIs ==
  ASSUME NEW T, NEW x \in Seq(T), NEW y \in Seq(T)
  PROVE  /\ x \o y \in Seq(T) /\ Len(x \o y) = Len(x) + Len(y)
         /\ Len(x) \in Nat /\ Len(y) \in Nat
         /\ \A j \in 1..Len(x) : (x \o y)[j] = x[j]
         /\ \A j \in 1..Len(y) : (x \o y)[Len(x) + j] = y[j]
  OBVIOUS

(* A row put into a sequence: those from its place on move up by one. *)
Inserted(q, h, k, row) ==
  /\ Len(q) = Len(h) + 1
  /\ \A j \in 1..(k - 1) : q[j] = h[j]
  /\ q[k] = row
  /\ \A j \in (k + 1)..(Len(h) + 1) : q[j] = h[j - 1]

(* InsertAt puts the row at its place.                                    *)
LEMMA InsertedIs ==
  ASSUME NEW T, NEW h \in Seq(T), NEW row \in T, NEW k \in 1..(Len(h) + 1)
  PROVE  InsertAt(h, k, row) \in Seq(T) /\ Inserted(InsertAt(h, k, row), h, k, row)
  <1> DEFINE L == Len(h)
             a == SubSeq(h, 1, k - 1)
             b == SubSeq(h, k, L)
             m == <<row>>
  <1>1. L \in Nat /\ k \in Nat /\ k >= 1 /\ k <= L + 1
    OBVIOUS
  <1>2. /\ a \in Seq(T) /\ Len(a) = k - 1
        /\ \A j \in 1..(k - 1) : a[j] = h[j]
    BY <1>1
  <1>3. /\ b \in Seq(T) /\ Len(b) = L + 1 - k
        /\ \A j \in 1..(L + 1 - k) : b[j] = h[k + j - 1]
    BY <1>1
  <1>4. m \in Seq(T) /\ Len(m) = 1 /\ m[1] = row
    OBVIOUS
  <1>5. InsertAt(h, k, row) = (a \o m) \o b
    BY DEF InsertAt
  <1> HIDE DEF L, a, b, m
  <1> DEFINE c == a \o m
  <1>6. /\ c \in Seq(T) /\ Len(c) = k
        /\ \A j \in 1..(k - 1) : c[j] = h[j]
        /\ c[k] = row
    <2>1. /\ c \in Seq(T) /\ Len(c) = Len(a) + Len(m)
          /\ \A j \in 1..Len(a) : c[j] = a[j]
          /\ \A j \in 1..Len(m) : c[Len(a) + j] = m[j]
      <3>1. a \in Seq(T) /\ m \in Seq(T)
        BY <1>2, <1>4
      <3> QED BY <3>1, JoinIs
    <2> HIDE DEF c
    <2>2. k = Len(a) + 1 /\ 1 \in 1..Len(m)
      BY <1>1, <1>2, <1>4
    <2> QED BY <1>1, <1>2, <1>4, <2>1, <2>2
  <1> HIDE DEF c
  <1> DEFINE q == c \o b
  <1>7. /\ q \in Seq(T) /\ Len(q) = L + 1
        /\ \A j \in 1..k : q[j] = c[j]
        /\ \A j \in 1..(L + 1 - k) : q[k + j] = b[j]
    <2>1. /\ q \in Seq(T) /\ Len(q) = Len(c) + Len(b)
          /\ \A j \in 1..Len(c) : q[j] = c[j]
          /\ \A j \in 1..Len(b) : q[Len(c) + j] = b[j]
      <3>1. c \in Seq(T) /\ b \in Seq(T)
        BY <1>3, <1>6
      <3> QED BY <3>1, JoinIs
    <2> HIDE DEF q
    <2> QED BY <1>1, <1>3, <1>6, <2>1
  <1> HIDE DEF q
  <1>8. \A j \in 1..(k - 1) : q[j] = h[j]
    BY <1>1, <1>6, <1>7
  <1>9. q[k] = row
    BY <1>1, <1>6, <1>7
  <1>10. \A j \in (k + 1)..(L + 1) : q[j] = h[j - 1]
    <2> SUFFICES ASSUME NEW j \in (k + 1)..(L + 1)
                 PROVE  q[j] = h[j - 1]
      OBVIOUS
    <2>1. j - k \in 1..(L + 1 - k) /\ k + (j - k) = j /\ k + (j - k) - 1 = j - 1
      BY <1>1
    <2>2. q[k + (j - k)] = b[j - k] /\ b[j - k] = h[k + (j - k) - 1]
      BY <1>3, <1>7, <2>1
    <2> QED BY <2>1, <2>2
  <1>11. InsertAt(h, k, row) = q
    BY <1>5 DEF c, q
  <1> QED BY <1>7, <1>8, <1>9, <1>10, <1>11 DEF Inserted, L

(* A row of a new frame keeps the history sound, wherever it goes.        *)
LEMMA InsertSound ==
  ASSUME NEW n \in Nat, NEW a, NEW h, HistorySound(h, a, n),
         NEW row \in HistoryRow, row.frame \in 1..n,
         \A j \in 1..Len(h) : h[j].frame # row.frame,
         \A r \in a : r.frame # row.frame,
         NEW k \in 1..(Len(h) + 1), NEW q, q = InsertAt(h, k, row)
  PROVE  HistorySound(q, a, n)
  <1> DEFINE L == Len(h)
             from(j) == IF j < k THEN j ELSE j - 1
  <1>1. /\ h \in Seq(HistoryRow) /\ a \subseteq HistoryRow /\ L \in Nat
        /\ \A j \in 1..L : h[j].frame \in 1..n
        /\ \A r \in a : r.frame \in 1..n
        /\ \A i, j \in 1..L : h[i].frame = h[j].frame => i = j
        /\ \A j \in 1..L, r \in a : h[j].frame # r.frame
        /\ \A r1, r2 \in a : r1.frame = r2.frame => r1 = r2
    BY DEF HistorySound
  <1>2. q \in Seq(HistoryRow) /\ Inserted(q, h, k, row)
    BY <1>1, InsertedIs
  <1>3. k \in 1..(L + 1) /\ \A j \in 1..L : h[j].frame # row.frame
    OBVIOUS
  <1> HIDE DEF L
  <1>4. /\ Len(q) = L + 1 /\ q[k] = row
        /\ \A j \in 1..(L + 1) : j # k => from(j) \in 1..L /\ q[j] = h[from(j)]
    <2>1. /\ Len(q) = L + 1 /\ q[k] = row
          /\ \A j \in 1..(k - 1) : q[j] = h[j]
          /\ \A j \in (k + 1)..(L + 1) : q[j] = h[j - 1]
      BY <1>2 DEF Inserted, L
    <2>2. ASSUME NEW j \in 1..(L + 1), j # k
          PROVE  from(j) \in 1..L /\ q[j] = h[from(j)]
      <3>1. CASE j < k
        <4>1. j \in 1..(k - 1) /\ j \in 1..L
          BY <1>1, <1>3, <3>1
        <4> QED BY <2>1, <3>1, <4>1
      <3>2. CASE ~(j < k)
        <4>1. j \in (k + 1)..(L + 1) /\ j - 1 \in 1..L
          BY <1>1, <1>3, <2>2, <3>2
        <4> QED BY <2>1, <3>2, <4>1
      <3> QED BY <3>1, <3>2
    <2> QED BY <2>1, <2>2
  <1>5. \A i, j \in 1..(L + 1) : i # k /\ j # k /\ from(i) = from(j) => i = j
    BY <1>1, <1>3
  <1> HIDE DEF from
  <1>6. \A j \in 1..(L + 1) : q[j].frame \in 1..n
    BY <1>1, <1>4
  <1>7. \A i, j \in 1..(L + 1) : q[i].frame = q[j].frame => i = j
    <2> SUFFICES ASSUME NEW i \in 1..(L + 1), NEW j \in 1..(L + 1), q[i].frame = q[j].frame
                 PROVE  i = j
      OBVIOUS
    <2>1. CASE i = k
      <3>1. ASSUME j # k PROVE FALSE
        <4>1. from(j) \in 1..L /\ q[j] = h[from(j)]
          BY <1>4, <3>1
        <4> QED BY <1>3, <1>4, <2>1, <4>1
      <3> QED BY <2>1, <3>1
    <2>2. CASE i # k /\ j = k
      <3>1. from(i) \in 1..L /\ q[i] = h[from(i)]
        BY <1>4, <2>2
      <3> QED BY <1>3, <1>4, <2>2, <3>1
    <2>3. CASE i # k /\ j # k
      <3>1. from(i) \in 1..L /\ q[i] = h[from(i)] /\ from(j) \in 1..L /\ q[j] = h[from(j)]
        BY <1>4, <2>3
      <3>2. from(i) = from(j)
        BY <1>1, <3>1
      <3> QED BY <1>5, <2>3, <3>2
    <2> QED BY <2>1, <2>2, <2>3
  <1>8. \A j \in 1..(L + 1), r \in a : q[j].frame # r.frame
    <2> SUFFICES ASSUME NEW j \in 1..(L + 1), NEW r \in a
                 PROVE  q[j].frame # r.frame
      OBVIOUS
    <2>1. CASE j = k
      BY <1>4, <2>1
    <2>2. CASE j # k
      BY <1>1, <1>4, <2>2
    <2> QED BY <2>1, <2>2
  <1> QED BY <1>1, <1>2, <1>4, <1>6, <1>7, <1>8 DEF HistorySound

(* The history is sound when more is published, and has not got it yet.   *)
LEMMA HistoryMore ==
  ASSUME NEW n \in Nat, NEW a, NEW h, HistorySound(h, a, n)
  PROVE  /\ HistorySound(h, a, n + 1)
         /\ \A k \in 1..Len(h) : h[k].frame # n + 1
         /\ \A row \in a : row.frame # n + 1
  <1>1. /\ \A k \in 1..Len(h) : h[k].frame \in 1..n
        /\ \A row \in a : row.frame \in 1..n
    BY DEF HistorySound
  <1>2. \A f \in 1..n : f \in 1..(n + 1) /\ f # n + 1
    OBVIOUS
  <1> QED BY <1>1, <1>2 DEF HistorySound

(* A store that writes in one step puts a row at the end. *)
LEMMA InsertWhole ==
  ASSUME NEW p \in Seq(BOOLEAN), NEW a, NEW h, HistorySound(h, a, Len(p)), HistoryWhole(h, p),
         NEW row, row.frame = Len(p) + 1,
         NEW q, Inserted(q, h, Len(h) + 1, row)
  PROVE  HistoryWhole(q, Append(p, TRUE))
  <1> DEFINE L == Len(h)
             n == Len(p)
             r == Append(p, TRUE)
  <1>1. /\ n \in Nat /\ Len(r) = n + 1 /\ r[n + 1] = TRUE
        /\ \A f \in 1..n : r[f] = p[f]
        /\ \A f \in 1..Len(r) : f \in 1..n \/ f = n + 1
    BY AppendFacts
  <1>2. /\ L \in Nat
        /\ \A j \in 1..L : h[j].frame \in 1..n
    BY DEF HistorySound
  <1>3. /\ Len(q) = L + 1 /\ \A j \in 1..L : q[j] = h[j]
        /\ q[L + 1] = row
    <2>1. (L + 1) - 1 = L
      BY <1>2
    <2> QED BY <2>1 DEF Inserted
  <1>4. /\ \A j, k \in 1..L : j < k => h[j].frame < h[k].frame
        /\ \A k \in 1..L : p[h[k].frame]
        /\ \A f \in 1..n : p[f] => \E k \in 1..L : h[k].frame = f
    BY DEF HistoryWhole
  <1>5. row.frame = n + 1
    OBVIOUS
  <1> HIDE DEF L, n, r
  <1>6. \A j \in 1..(L + 1) : j \in 1..L \/ j = L + 1
    BY <1>2
  <1>7. \A j, k \in 1..(L + 1) : j < k => q[j].frame < q[k].frame
    <2> SUFFICES ASSUME NEW j \in 1..(L + 1), NEW k \in 1..(L + 1), j < k
                 PROVE  q[j].frame < q[k].frame
      OBVIOUS
    <2>1. j \in 1..L
      BY <1>2
    <2>2. CASE k \in 1..L
      BY <1>3, <1>4, <2>1, <2>2
    <2>3. CASE k = L + 1
      <3>1. q[j].frame \in 1..n /\ q[k].frame = n + 1
        BY <1>2, <1>3, <1>5, <2>1, <2>3
      <3> QED BY <1>1, <3>1
    <2> QED BY <1>6, <2>2, <2>3
  <1>8. \A k \in 1..(L + 1) : r[q[k].frame]
    <2> SUFFICES ASSUME NEW k \in 1..(L + 1)
                 PROVE  r[q[k].frame]
      OBVIOUS
    <2>1. CASE k \in 1..L
      BY <1>1, <1>2, <1>3, <1>4, <2>1
    <2>2. CASE k = L + 1
      BY <1>1, <1>3, <1>5, <2>2
    <2> QED BY <1>6, <2>1, <2>2
  <1>9. \A f \in 1..Len(r) : r[f] => \E k \in 1..(L + 1) : q[k].frame = f
    <2> SUFFICES ASSUME NEW f \in 1..Len(r), r[f]
                 PROVE  \E k \in 1..(L + 1) : q[k].frame = f
      OBVIOUS
    <2>1. CASE f \in 1..n
      <3>1. PICK k \in 1..L : h[k].frame = f
        BY <1>1, <1>4, <2>1
      <3>2. k \in 1..(L + 1)
        BY <1>2
      <3> QED BY <1>3, <3>1, <3>2
    <2>2. CASE f = n + 1
      <3>1. L + 1 \in 1..(L + 1)
        BY <1>2
      <3> QED BY <1>3, <1>5, <2>2, <3>1
    <2> QED BY <1>1, <2>1, <2>2
  <1> QED BY <1>3, <1>7, <1>8, <1>9 DEF HistoryWhole, r

(* A message that is not guaranteed has no row and needs none.            *)
LEMMA WholeWithout ==
  ASSUME NEW p \in Seq(BOOLEAN), NEW a, NEW h, HistorySound(h, a, Len(p)), HistoryWhole(h, p)
  PROVE  HistoryWhole(h, Append(p, FALSE))
  <1> DEFINE n == Len(p)
             r == Append(p, FALSE)
  <1>1. /\ n \in Nat /\ r[n + 1] = FALSE
        /\ \A f \in 1..n : r[f] = p[f]
        /\ \A f \in 1..Len(r) : f \in 1..n \/ f = n + 1
    BY AppendFacts
  <1>2. \A j \in 1..Len(h) : h[j].frame \in 1..n
    BY DEF HistorySound
  <1> HIDE DEF r
  <1> QED BY <1>1, <1>2 DEF HistoryWhole, r

(* What is replayed: the frames of the history from a place on. *)
Replayed(fs, h, d) ==
  /\ fs \in Seq(Nat) /\ d \in Nat /\ d <= Len(h)
  /\ Len(fs) = Len(h) - d
  /\ \A k \in 1..Len(fs) : fs[k] = h[d + k].frame

Resumed(h, r, d) ==
  \/ d = 0 /\ \A k \in 1..Len(h) : h[k].frame # r
  \/ d \in 1..Len(h) /\ h[d].frame = r

FramesOf(q) == [n \in DOMAIN q |-> q[n].frame]

(* The end of a sequence, from a place on.                                *)
LEMMA TailIs ==
  ASSUME NEW T, NEW h \in Seq(T), NEW d \in Nat, d <= Len(h)
  PROVE  /\ SubSeq(h, d + 1, Len(h)) \in Seq(T)
         /\ Len(SubSeq(h, d + 1, Len(h))) = Len(h) - d
         /\ \A k \in 1..(Len(h) - d) : SubSeq(h, d + 1, Len(h))[k] = h[d + k]
         /\ Len(h) \in Nat
  <1>1. SubSeq(h, d + 1, Len(h)) \in Seq(T)
    OBVIOUS
  <1>2. Len(SubSeq(h, d + 1, Len(h))) = Len(h) - d
    OBVIOUS
  <1>3. \A k \in 1..(Len(h) - d) : SubSeq(h, d + 1, Len(h))[k] = h[d + k]
    OBVIOUS
  <1> QED BY <1>1, <1>2, <1>3

(* The history after the resume id, or all of it if the id is not there.  *)
LEMMA AfterIs ==
  ASSUME NEW h \in Seq(HistoryRow), NEW r
  PROVE  \E d \in Nat : /\ d <= Len(h) /\ Resumed(h, r, d)
                        /\ AfterResume(h, r) = SubSeq(h, d + 1, Len(h))
  <1> DEFINE at == {n \in DOMAIN h : h[n].frame = r}
  <1>1. DOMAIN h = 1..Len(h) /\ Len(h) \in Nat
    OBVIOUS
  <1>2. CASE at = {}
    <2>1. AfterResume(h, r) = h
      BY <1>2 DEF AfterResume
    <2>2. h = SubSeq(h, 0 + 1, Len(h))
      BY <1>1
    <2>3. Resumed(h, r, 0)
      BY <1>1, <1>2 DEF Resumed
    <2> QED BY <1>1, <2>1, <2>2, <2>3
  <1>3. CASE at # {}
    <2> DEFINE d == CHOOSE n \in at : TRUE
    <2>1. d \in at
      BY <1>3
    <2>2. AfterResume(h, r) = SubSeq(h, d + 1, Len(h))
      BY <1>3 DEF AfterResume
    <2>3. d \in 1..Len(h) /\ h[d].frame = r
      BY <1>1, <2>1
    <2> HIDE DEF d, at
    <2>4. d \in Nat /\ d <= Len(h) /\ Resumed(h, r, d)
      BY <1>1, <2>3 DEF Resumed
    <2> QED BY <2>2, <2>4
  <1> QED BY <1>2, <1>3

(* The newest of it; all, if they are no more than                        *)
(* SSE_REPLAY_MAX_MESSAGES.                                               *)
LEMMA NewestIs ==
  ASSUME NEW q \in Seq(HistoryRow)
  PROVE  \E e \in Nat : /\ e <= Len(q) /\ Newest(q) = SubSeq(q, e + 1, Len(q))
                        /\ Len(q) <= ReplayMax => e = 0
  <1>1. Len(q) \in Nat /\ ReplayMax \in Nat
    BY SseAssumption
  <1> DEFINE L == Len(q)
  <1>2. CASE L > ReplayMax
    <2>1. Newest(q) = SubSeq(q, L - ReplayMax + 1, L)
      BY <1>2 DEF Newest
    <2>2. L - ReplayMax \in Nat /\ L - ReplayMax <= L /\ ~(L <= ReplayMax)
      <3> HIDE DEF L
      <3>1. L \in Nat
        BY <1>1 DEF L
      <3> QED BY <1>1, <1>2, <3>1
    <2> QED BY <2>1, <2>2
  <1>3. CASE ~(L > ReplayMax)
    <2>1. Newest(q) = SubSeq(q, 0 + 1, L)
      BY <1>3 DEF Newest
    <2> QED BY <1>1, <2>1
  <1> QED BY <1>2, <1>3

(* What is replayed is the end of the history.                            *)
LEMMA ReplayedIs ==
  ASSUME NEW h \in Seq(HistoryRow), NEW r
  PROVE  \E d \in Nat :
           /\ Replayed(FramesOf(Newest(AfterResume(h, r))), h, d)
           /\ Len(AfterResume(h, r)) <= ReplayMax => Resumed(h, r, d)
  <1>1. PICK d \in Nat : /\ d <= Len(h) /\ Resumed(h, r, d)
                         /\ AfterResume(h, r) = SubSeq(h, d + 1, Len(h))
    BY AfterIs
  <1> DEFINE q == AfterResume(h, r)
             L == Len(h)
  <1>2. /\ q \in Seq(HistoryRow) /\ Len(q) = L - d /\ L \in Nat
        /\ \A k \in 1..(L - d) : q[k] = h[d + k]
    BY <1>1, TailIs
  <1> HIDE DEF q
  <1>3. PICK e \in Nat : /\ e <= Len(q) /\ Newest(q) = SubSeq(q, e + 1, Len(q))
                         /\ Len(q) <= ReplayMax => e = 0
    BY <1>2, NewestIs
  <1> DEFINE z == Newest(q)
             fs == FramesOf(z)
  <1>4. /\ z \in Seq(HistoryRow) /\ Len(z) = Len(q) - e
        /\ \A k \in 1..(Len(q) - e) : z[k] = q[e + k]
    <2>1. q \in Seq(HistoryRow) /\ e <= Len(q)
      BY <1>2, <1>3
    <2> DEFINE tail == SubSeq(q, e + 1, Len(q))
    <2>2. /\ tail \in Seq(HistoryRow) /\ Len(tail) = Len(q) - e
          /\ \A k \in 1..(Len(q) - e) : tail[k] = q[e + k]
      BY <2>1, TailIs
    <2>3. z = tail
      BY <1>3
    <2> HIDE DEF tail, z
    <2> QED BY <2>2, <2>3
  <1> HIDE DEF z, L
  <1>5. /\ d + e \in Nat /\ d + e <= L /\ Len(z) = L - (d + e) /\ Len(z) \in Nat
        /\ \A k \in 1..Len(z) : e + k \in 1..(L - d) /\ d + (e + k) = (d + e) + k
    <2>1. d \in Nat /\ e \in Nat /\ L \in Nat /\ d <= L /\ e <= L - d /\ Len(z) = (L - d) - e
      BY <1>1, <1>2, <1>3, <1>4 DEF L
    <2> QED BY <2>1
  <1>6. \A k \in 1..Len(z) : z[k] = h[(d + e) + k]
    <2> SUFFICES ASSUME NEW k \in 1..Len(z)
                 PROVE  z[k] = h[(d + e) + k]
      OBVIOUS
    <2>1. z[k] = q[e + k]
      BY <1>4
    <2>2. q[e + k] = h[d + (e + k)]
      BY <1>2, <1>5
    <2> QED BY <1>5, <2>1, <2>2
  <1>7. fs \in Seq(Nat) /\ Len(fs) = Len(z) /\ \A k \in 1..Len(z) : fs[k] = z[k].frame
    <2>1. DOMAIN z = 1..Len(z) /\ \A k \in 1..Len(z) : z[k] \in HistoryRow
      BY <1>4
    <2>2. fs = [k \in 1..Len(z) |-> z[k].frame]
      BY <2>1 DEF FramesOf
    <2>3. fs \in [1..Len(z) -> Nat]
      BY <2>1, <2>2 DEF HistoryRow
    <2> HIDE DEF fs
    <2>4. fs \in Seq(Nat) /\ Len(fs) = Len(z)
      BY <1>5, <2>3
    <2> QED BY <2>2, <2>4
  <1> HIDE DEF fs
  <1>8. Replayed(fs, h, d + e)
    BY <1>5, <1>6, <1>7 DEF Replayed, L
  <1>9. Len(q) <= ReplayMax => Resumed(h, r, d + e)
    <2>1. Len(q) <= ReplayMax => d + e = d
      BY <1>1, <1>3
    <2> QED BY <1>1, <2>1
  <1> QED BY <1>5, <1>8, <1>9 DEF q, z, fs

(* What is replayed comes once, as in the history.                        *)
LEMMA ReplayedOnce ==
  ASSUME NEW h, NEW a, NEW n \in Nat, HistorySound(h, a, n), NEW fs, NEW d, Replayed(fs, h, d)
  PROVE  OnlyOnce(fs) /\ Within(fs, n)
  <1> DEFINE L == Len(h)
  <1>1. /\ fs \in Seq(Nat) /\ d \in Nat /\ d <= L /\ Len(fs) = L - d /\ L \in Nat
        /\ \A k \in 1..Len(fs) : fs[k] = h[d + k].frame
        /\ \A k \in 1..L : h[k].frame \in 1..n
        /\ \A j, k \in 1..L : h[j].frame = h[k].frame => j = k
    BY DEF Replayed, HistorySound
  <1> HIDE DEF L
  <1>2. \A k \in 1..Len(fs) : d + k \in 1..L
    BY <1>1
  <1>3. Within(fs, n)
    BY <1>1, <1>2 DEF Within
  <1>4. OnlyOnce(fs)
    <2> SUFFICES ASSUME NEW j \in 1..Len(fs), NEW k \in 1..Len(fs), fs[j] = fs[k]
                 PROVE  j = k
      BY DEF OnlyOnce
    <2>1. d + j = d + k
      BY <1>1, <1>2
    <2> QED BY <1>1, <2>1
  <1> QED BY <1>3, <1>4

(* The frames held back, without those the replay covered. *)
HeldOver(q, b, fs) ==
  /\ q \in Seq(Nat) /\ OnlyOnce(q)
  /\ \A k \in 1..Len(q) : \E m \in 1..Len(b) : q[k] = b[m]
  /\ \A k \in 1..Len(q) : \A m \in 1..Len(fs) : q[k] # fs[m]

(* goLive writes of the frames held back those that were not replayed.    *)
LEMMA HeldBackIs ==
  ASSUME NEW s \in SinkType, OnlyOnce(s.buffer), NEW fs \in Seq(Nat)
  PROVE  HeldOver(HeldBack(s, fs), s.buffer, fs)
  <1> DEFINE b == s.buffer
             P == {n \in DOMAIN b : b[n] \notin Range(fs)}
             q == Picked(b, P)
             at(k) == Nth(P, k)
  <1>1. b \in Seq(Nat) /\ DOMAIN b = 1..Len(b) /\ OnlyOnce(b)
    BY DEF SinkType
  <1>2. HeldBack(s, fs) = q
    BY DEF HeldBack
  <1>3. P \in SUBSET (1..Len(b)) /\ \A n \in P : \A m \in 1..Len(fs) : b[n] # fs[m]
    <2>1. DOMAIN fs = 1..Len(fs)
      OBVIOUS
    <2> QED BY <1>1, <2>1 DEF Range
  <1> HIDE DEF b, P
  <1>4. /\ q \in Seq(Nat) /\ Len(q) \in Nat
        /\ \A k \in 1..Len(q) : at(k) \in P /\ q[k] = b[at(k)]
        /\ \A j, k \in 1..Len(q) : j < k <=> at(j) < at(k)
    BY <1>1, <1>3, PickedFacts
  <1> HIDE DEF q, at
  <1>5. OnlyOnce(q)
    <2> SUFFICES ASSUME NEW j \in 1..Len(q), NEW k \in 1..Len(q), q[j] = q[k]
                 PROVE  j = k
      BY DEF OnlyOnce
    <2>1. at(j) \in 1..Len(b) /\ at(k) \in 1..Len(b) /\ b[at(j)] = b[at(k)]
      BY <1>3, <1>4
    <2>2. at(j) = at(k)
      BY <1>1, <2>1 DEF OnlyOnce
    <2>3. ~(j < k) /\ ~(k < j)
      BY <1>4, <2>1, <2>2
    <2> QED BY <1>4, <2>3
  <1>6. \A k \in 1..Len(q) : \E m \in 1..Len(b) : q[k] = b[m]
    BY <1>3, <1>4
  <1>7. \A k \in 1..Len(q) : \A m \in 1..Len(fs) : q[k] # fs[m]
    BY <1>3, <1>4
  <1>8. HeldOver(q, b, fs)
    BY <1>4, <1>5, <1>6, <1>7 DEF HeldOver
  <1> QED BY <1>2, <1>8 DEF b

(* Both together come once, and are of the stream. *)
LEMMA JoinOnce ==
  ASSUME NEW n \in Nat, NEW x \in Seq(Nat), NEW y \in Seq(Nat),
         OnlyOnce(x), OnlyOnce(y), Within(x, n), Within(y, n),
         \A k \in 1..Len(y) : \A m \in 1..Len(x) : y[k] # x[m]
  PROVE  OnlyOnce(x \o y) /\ Within(x \o y, n)
  <1> DEFINE z == x \o y
             a == Len(x)
             b == Len(y)
  <1>1. /\ z \in Seq(Nat) /\ Len(z) = a + b /\ a \in Nat /\ b \in Nat
        /\ \A j \in 1..a : z[j] = x[j]
        /\ \A j \in 1..b : z[a + j] = y[j]
    BY JoinIs
  <1>2. /\ \A j, k \in 1..a : x[j] = x[k] => j = k
        /\ \A j, k \in 1..b : y[j] = y[k] => j = k
        /\ \A j \in 1..a : x[j] \in 1..n
        /\ \A j \in 1..b : y[j] \in 1..n
        /\ \A k \in 1..b : \A m \in 1..a : y[k] # x[m]
    BY DEF OnlyOnce, Within
  <1> HIDE DEF z, a, b
  <1>3. \A k \in 1..Len(z) : k \in 1..a \/ (k - a \in 1..b /\ a + (k - a) = k)
    BY <1>1
  <1>4. \A k \in 1..Len(z) : (k \in 1..a /\ z[k] = x[k])
                             \/ (k - a \in 1..b /\ z[k] = y[k - a])
    <2> SUFFICES ASSUME NEW k \in 1..Len(z), ~(k \in 1..a)
                 PROVE  k - a \in 1..b /\ z[k] = y[k - a]
      BY <1>1
    <2>1. k - a \in 1..b /\ a + (k - a) = k
      BY <1>3
    <2>2. z[a + (k - a)] = y[k - a]
      BY <1>1, <2>1
    <2> QED BY <2>1, <2>2
  <1>5. Within(z, n)
    BY <1>2, <1>4 DEF Within
  <1>6. OnlyOnce(z)
    <2> SUFFICES ASSUME NEW j \in 1..Len(z), NEW k \in 1..Len(z), z[j] = z[k]
                 PROVE  j = k
      BY DEF OnlyOnce
    <2>1. CASE j \in 1..a /\ z[j] = x[j] /\ k \in 1..a /\ z[k] = x[k]
      BY <1>2, <2>1
    <2>2. CASE j - a \in 1..b /\ z[j] = y[j - a] /\ k - a \in 1..b /\ z[k] = y[k - a]
      <3>1. j - a = k - a
        BY <1>2, <2>2
      <3> QED BY <1>1, <3>1
    <2>3. CASE j \in 1..a /\ z[j] = x[j] /\ k - a \in 1..b /\ z[k] = y[k - a]
      BY <1>2, <2>3
    <2>4. CASE k \in 1..a /\ z[k] = x[k] /\ j - a \in 1..b /\ z[j] = y[j - a]
      BY <1>2, <2>4
    <2> QED BY <1>4, <2>1, <2>2, <2>3, <2>4
  <1> QED BY <1>5, <1>6 DEF z

LiveAfter(s, w) ==
  [s EXCEPT !.buffer = <<>>, !.sent = w.sent, !.queued = w.queued,
            !.registered = w.registered,
            !.phase = IF w.registered THEN "live" ELSE w.phase]

LiveOutcome(t, fs) ==
  /\ t.read = 0 /\ t.buffer = <<>>
  /\ t.phase \in {"live", "ended"}
  /\ Len(t.sent) <= Len(fs)
  /\ \A k \in 1..Len(t.sent) : t.sent[k] = fs[k]
  /\ t.registered => Len(t.sent) = Len(fs)

(* A stream that goes live was written the frames, or is dropped.         *)
LEMMA GoesLive ==
  ASSUME NEW n \in Nat, NEW s, SinkSound(s, n), s.phase = "replaying", s.registered,
         NEW fs \in Seq(Nat), OnlyOnce(fs), Within(fs, n),
         NEW t, t = LiveAfter(s, WriteAll(s, fs))
  PROVE  SinkSound(t, n) /\ LiveOutcome(t, fs)
  <1> DEFINE w == WriteAll(s, fs)
  <1>1. s \in SinkType /\ s.sent = <<>> /\ s.read = 0
    BY DEF SinkSound
  <1>2. AllOutcome(w, s, fs, Len(fs))
    BY <1>1, WriteAllOutcome
  <1> HIDE DEF w
  <1>3. /\ w \in SinkType
        /\ \A k \in 1..Len(w.sent) : w.sent[k] = fs[k]
        /\ Len(w.sent) <= Len(fs)
        /\ \/ ~w.registered /\ w.phase = "ended"
           \/ w.registered /\ Len(w.sent) = Len(fs)
    BY <1>2 DEF AllOutcome
  <1>4. /\ t = [s EXCEPT !.buffer = <<>>, !.sent = w.sent, !.queued = w.queued,
                         !.registered = w.registered,
                         !.phase = IF w.registered THEN "live" ELSE w.phase]
    BY DEF LiveAfter, w
  <1>5. /\ t \in SinkType /\ t.read = 0 /\ t.buffer = <<>> /\ t.sent = w.sent
        /\ t.registered = w.registered
        /\ t.phase = IF w.registered THEN "live" ELSE w.phase
    <2>1. <<>> \in Seq(Nat)
      OBVIOUS
    <2> QED BY <1>1, <1>3, <1>4, <2>1 DEF SinkType
  <1>6. LiveOutcome(t, fs)
    BY <1>3, <1>5 DEF LiveOutcome
  <1>7. w.sent \in Seq(Nat) /\ Len(w.sent) \in Nat /\ Len(fs) \in Nat
    BY <1>3 DEF SinkType
  <1>8. \A k \in 1..Len(w.sent) : k \in 1..Len(fs)
    BY <1>3, <1>7
  <1>9. Within(t.sent, n) /\ OnlyOnce(t.sent)
    BY <1>3, <1>5, <1>8 DEF Within, OnlyOnce
  <1>10. Within(t.buffer, n) /\ OnlyOnce(t.buffer)
    BY <1>5 DEF Within, OnlyOnce
  <1>11. t.read <= Len(t.sent)
    BY <1>5, <1>7
  <1>12. t.phase \in {"live", "ended"} /\ (t.registered => t.phase = "live")
    BY <1>3, <1>5
  <1> QED BY <1>5, <1>6, <1>9, <1>10, <1>11, <1>12 DEF SinkSound

UpTo(fs, k) == {fs[j] : j \in 1..k}

(* Frames that, after what a client has, leave no gap. *)
Leads(fs, p, g) ==
  /\ \A k \in 1..Len(fs) : p[fs[k]] => Every(p, g[1], fs[k], Seen(g) \cup UpTo(fs, k))
  /\ Every(p, g[1], Len(p), Seen(g) \cup UpTo(fs, Len(fs)))

(* It leaves no gap if the frames leave none.                             *)
LEMMA LiveFollows ==
  ASSUME NEW p, NEW g, g # <<>>, NEW fs \in Seq(Nat), Leads(fs, p, g),
         NEW n, NEW s, NEW t, SinkSound(t, n), LiveOutcome(t, fs),
         g # <<>> /\ p[g[Len(g)]] => Every(p, g[1], g[Len(g)], Seen(g))
  PROVE  Followed(p, g, t)
  <1>1. /\ t.sent \in Seq(Nat) /\ Len(t.sent) \in Nat /\ Len(fs) \in Nat
        /\ Len(t.sent) <= Len(fs)
        /\ \A k \in 1..Len(t.sent) : t.sent[k] = fs[k]
        /\ t.registered => Len(t.sent) = Len(fs)
    BY DEF SinkSound, SinkType, LiveOutcome
  <1>2. FirstFrame(g, t) = g[1]
    BY DEF FirstFrame
  <1>3. \A k \in 0..Len(t.sent) : Written(t, k) = UpTo(fs, k)
    <2> SUFFICES ASSUME NEW k \in 0..Len(t.sent)
                 PROVE  Written(t, k) = UpTo(fs, k)
      OBVIOUS
    <2>1. \A j \in 1..k : t.sent[j] = fs[j]
      BY <1>1
    <2> QED BY <2>1 DEF Written, UpTo
  <1>4. \A k \in 1..Len(t.sent) :
          p[t.sent[k]] => Every(p, FirstFrame(g, t), t.sent[k], Seen(g) \cup Written(t, k))
    <2> SUFFICES ASSUME NEW k \in 1..Len(t.sent), p[t.sent[k]]
                 PROVE  Every(p, FirstFrame(g, t), t.sent[k], Seen(g) \cup Written(t, k))
      OBVIOUS
    <2>1. k \in 1..Len(fs) /\ k \in 0..Len(t.sent) /\ t.sent[k] = fs[k]
      BY <1>1
    <2>2. Every(p, g[1], fs[k], Seen(g) \cup UpTo(fs, k))
      BY <2>1 DEF Leads
    <2> QED BY <1>2, <1>3, <2>1, <2>2
  <1>5. t.registered => Every(p, FirstFrame(g, t), Len(p), Seen(g) \cup Written(t, Len(t.sent)))
    <2> SUFFICES ASSUME t.registered
                 PROVE  Every(p, FirstFrame(g, t), Len(p), Seen(g) \cup Written(t, Len(t.sent)))
      OBVIOUS
    <2>1. Len(t.sent) = Len(fs) /\ Len(t.sent) \in 0..Len(t.sent)
      BY <1>1
    <2>2. Every(p, g[1], Len(p), Seen(g) \cup UpTo(fs, Len(fs)))
      BY DEF Leads
    <2> QED BY <1>2, <1>3, <2>1, <2>2
  <1> QED BY <1>4, <1>5 DEF Followed

(* The replay starts where the client is, and what was held back of the     *)
(* guaranteed messages it covers.                                           *)
LEMMA ReplayLeads ==
  ASSUME NEW p \in Seq(BOOLEAN), NEW h, NEW a, HistorySound(h, a, Len(p)), HistoryWhole(h, p),
         NEW g \in Seq(Nat), g # <<>>, Within(g, Len(p)),
         p[g[Len(g)]] => Every(p, g[1], g[Len(g)], Seen(g)),
         NEW fr, NEW d, Replayed(fr, h, d), Resumed(h, g[Len(g)], d),
         NEW b, Within(b, Len(p)), \A k \in 1..Len(b) : b[k] > g[Len(g)],
         NEW q, HeldOver(q, b, fr)
  PROVE  Leads(fr \o q, p, g)
  <1> DEFINE L == Len(h)
             n == Len(p)
             r == g[Len(g)]
             fs == fr \o q
             l == Len(fr)
             o == g[1]
  <1>1. /\ n \in Nat /\ L \in Nat
        /\ \A k \in 1..L : h[k].frame \in 1..n /\ p[h[k].frame]
        /\ \A j, k \in 1..L : j < k => h[j].frame < h[k].frame
        /\ \A f \in 1..n : p[f] => \E k \in 1..L : h[k].frame = f
    BY DEF HistorySound, HistoryWhole
  <1>2. /\ fr \in Seq(Nat) /\ d \in Nat /\ d <= L /\ l = L - d /\ l \in Nat
        /\ \A k \in 1..l : fr[k] = h[d + k].frame
    <2>1. fr \in Seq(Nat)
      BY DEF Replayed
    <2>2. l \in Nat
      BY <2>1
    <2>3. d \in Nat /\ d <= L /\ l = L - d
      BY DEF Replayed
    <2>4. \A k \in 1..l : fr[k] = h[d + k].frame
      BY DEF Replayed
    <2> HIDE DEF L, l
    <2> QED BY <2>1, <2>2, <2>3, <2>4
  <1>3. o \in 1..n /\ r \in 1..n
    <2>1. 1 \in 1..Len(g) /\ Len(g) \in 1..Len(g)
      OBVIOUS
    <2> QED BY <2>1 DEF Within
  <1>4. /\ p[r] => Every(p, o, r, Seen(g))
        /\ \/ d = 0
           \/ d \in 1..L /\ h[d].frame = r
    BY DEF Resumed
  <1>5. /\ q \in Seq(Nat)
        /\ \A k \in 1..Len(q) : \E m \in 1..Len(b) : q[k] = b[m]
        /\ \A k \in 1..Len(q) : \A m \in 1..l : q[k] # fr[m]
        /\ \A k \in 1..Len(b) : b[k] \in 1..n /\ b[k] > r
    BY DEF HeldOver, Within
  <1>6. /\ fs \in Seq(Nat) /\ Len(fs) = l + Len(q) /\ Len(q) \in Nat
        /\ \A j \in 1..l : fs[j] = fr[j]
        /\ \A j \in 1..Len(q) : fs[l + j] = q[j]
    <2>1. fr \in Seq(Nat) /\ q \in Seq(Nat)
      BY <1>2, <1>5
    <2> QED BY <2>1, JoinIs
  <1> HIDE DEF L, n, r, fs, l, o
  (* Who is guaranteed has come, or is replayed, in its order. *)
  <1>7. ASSUME NEW f \in o..n, p[f]
        PROVE  f \in Seen(g) \/ \E m \in 1..l : fr[m] = f
    <2>1. f \in 1..n
      BY <1>1, <1>3
    <2>2. PICK m \in 1..L : h[m].frame = f
      BY <1>1, <1>7, <2>1
    <2>3. CASE m <= d
      <3>1. d \in 1..L /\ h[d].frame = r
        BY <1>2, <1>4, <2>3
      <3>2. f <= r
        <4>1. CASE m = d
          BY <1>3, <2>2, <3>1, <4>1
        <4>2. CASE m < d
          BY <1>1, <1>3, <2>1, <2>2, <3>1, <4>2
        <4> QED BY <1>2, <2>3, <4>1, <4>2
      <3>3. p[r]
        BY <1>1, <3>1
      <3>4. f \in o..r
        BY <1>3, <2>1, <3>2
      <3> QED BY <1>4, <1>7, <3>3, <3>4 DEF Every
    <2>4. CASE ~(m <= d)
      <3>1. m - d \in 1..l /\ d + (m - d) = m
        BY <1>1, <1>2, <2>4
      <3> QED BY <1>2, <2>2, <3>1
    <2> QED BY <2>3, <2>4
  <1>8. \A j, k \in 1..l : fr[j] <= fr[k] => j <= k
    <2> SUFFICES ASSUME NEW j \in 1..l, NEW k \in 1..l, fr[j] <= fr[k], ~(j <= k)
                 PROVE  FALSE
      OBVIOUS
    <2>1. d + j \in 1..L /\ d + k \in 1..L /\ d + k < d + j
      BY <1>1, <1>2
    <2>2. h[d + k].frame < h[d + j].frame /\ h[d + k].frame \in 1..n /\ h[d + j].frame \in 1..n
      BY <1>1, <2>1
    <2>3. fr[k] < fr[j] /\ fr[k] \in Nat /\ fr[j] \in Nat
      BY <1>1, <1>2, <2>2
    <2> QED BY <2>3
  <1>9. \A k \in 1..Len(q) : ~p[q[k]]
    <2> SUFFICES ASSUME NEW k \in 1..Len(q), p[q[k]]
                 PROVE  FALSE
      OBVIOUS
    <2>1. q[k] \in 1..n /\ q[k] > r
      BY <1>5
    <2>2. PICK m \in 1..L : h[m].frame = q[k]
      BY <1>1, <2>1
    <2>3. CASE m <= d
      <3>1. d \in 1..L /\ h[d].frame = r
        BY <1>2, <1>4, <2>3
      <3>2. h[m].frame <= r
        <4>1. CASE m = d
          BY <1>3, <3>1, <4>1
        <4>2. CASE m < d
          BY <1>1, <1>3, <2>1, <2>2, <3>1, <4>2
        <4> QED BY <1>2, <2>3, <4>1, <4>2
      <3> QED BY <1>1, <1>3, <2>1, <2>2, <3>2
    <2>4. CASE ~(m <= d)
      <3>1. m - d \in 1..l /\ d + (m - d) = m
        BY <1>1, <1>2, <2>4
      <3> QED BY <1>2, <1>5, <2>2, <3>1
    <2> QED BY <2>3, <2>4
  <1>10. \A m \in 1..l : fr[m] \in 1..n
    <2> SUFFICES ASSUME NEW m \in 1..l
                 PROVE  fr[m] \in 1..n
      OBVIOUS
    <2>1. d + m \in 1..L
      BY <1>1, <1>2
    <2> QED BY <1>1, <1>2, <2>1
  <1>11. ASSUME NEW k \in 1..Len(fs), p[fs[k]]
         PROVE  Every(p, o, fs[k], Seen(g) \cup UpTo(fs, k))
    <2>1. k \in 1..l
      <3> SUFFICES ASSUME ~(k \in 1..l) PROVE FALSE
        OBVIOUS
      <3>1. k - l \in 1..Len(q) /\ l + (k - l) = k
        <4>1. l \in Nat /\ Len(q) \in Nat /\ k \in 1..(l + Len(q))
          BY <1>2, <1>6
        <4> QED BY <4>1
      <3>2. fs[l + (k - l)] = q[k - l]
        BY <1>6, <3>1
      <3> QED BY <1>9, <1>11, <3>1, <3>2
    <2> SUFFICES ASSUME NEW f \in o..fs[k], p[f]
                 PROVE  f \in Seen(g) \cup UpTo(fs, k)
      BY DEF Every
    <2>2. fs[k] = fr[k] /\ fr[k] \in 1..n
      BY <1>6, <1>10, <2>1
    <2>3. f \in o..n /\ f <= fr[k]
      BY <1>1, <1>3, <2>2
    <2>4. CASE \E m \in 1..l : fr[m] = f
      <3>1. PICK m \in 1..l : fr[m] = f
        BY <2>4
      <3>2. m <= k
        BY <1>8, <2>1, <2>3, <3>1
      <3>3. m \in 1..k
        BY <1>2, <2>1, <3>2
      <3>4. fs[m] = f
        BY <1>6, <3>1
      <3> QED BY <3>3, <3>4 DEF UpTo
    <2> QED BY <1>7, <2>3, <2>4
  <1>12. Every(p, o, n, Seen(g) \cup UpTo(fs, Len(fs)))
    <2> SUFFICES ASSUME NEW f \in o..n, p[f]
                 PROVE  f \in Seen(g) \cup UpTo(fs, Len(fs))
      BY DEF Every
    <2>1. CASE \E m \in 1..l : fr[m] = f
      <3>1. PICK m \in 1..l : fr[m] = f
        BY <2>1
      <3>2. m \in 1..Len(fs) /\ fs[m] = f
        BY <1>2, <1>6, <3>1
      <3> QED BY <3>2 DEF UpTo
    <2> QED BY <1>7, <2>1
  <1> QED BY <1>11, <1>12 DEF Leads, o, n, fs

(* What a client received in its earlier connections leaves no gap. *)
LEMMA ClosedIsSound ==
  ASSUME NEW p \in Seq(BOOLEAN), NEW g, NEW s, Received(p, g, s)
  PROVE  /\ SinkSound(Closed, Len(p)) /\ Received(p, g, Closed)
         /\ Followed(p, g, s) => Followed(p, g, Closed)
  <1>1. Closed \in SinkType
    <2>1. <<>> \in Seq(Nat) /\ 0 \in Nat
      OBVIOUS
    <2> QED BY <2>1 DEF Closed, SinkType
  <1>2. /\ Closed.sent = <<>> /\ Closed.buffer = <<>> /\ Closed.phase = "none"
        /\ Closed.read = 0 /\ Closed.registered = FALSE
    BY DEF Closed
  <1>3. Len(Closed.sent) = 0 /\ Len(Closed.buffer) = 0
    BY <1>2
  <1>4. \A k \in 1..0 : FALSE
    OBVIOUS
  <1> HIDE DEF Closed
  <1>5. SinkSound(Closed, Len(p))
    BY <1>1, <1>2, <1>3, <1>4 DEF SinkSound, Within, OnlyOnce
  <1>6. Received(p, g, Closed)
    BY <1>2, <1>3, <1>4 DEF Received
  <1>7. Followed(p, g, s) => Followed(p, g, Closed)
    BY <1>2, <1>3, <1>4 DEF Followed
  <1> QED BY <1>5, <1>6, <1>7

(* A request carries the id of the last frame the client received. *)
LEMMA RequestIsSound ==
  ASSUME NEW p \in Seq(BOOLEAN), NEW c, Received(p, got[c], Closed), NEW t,
         t = [Requested(c) EXCEPT !.phase = "validating"]
  PROVE  /\ SinkSound(t, Len(p)) /\ Received(p, got[c], t)
         /\ Followed(p, got[c], Closed) => Followed(p, got[c], t)
         /\ t.phase = "validating"
  <1> DEFINE g == got[c]
  <1>1. g \in Seq(Nat) /\ Within(g, Len(p))
    BY DEF Received
  <1>2. LastSeen(c) = IF g = <<>> THEN 0 ELSE g[Len(g)]
    BY DEF LastSeen, Last
  <1>3. LastSeen(c) \in Nat
    <2>1. g # <<>> => Len(g) \in 1..Len(g)
      BY <1>1
    <2>2. g # <<>> => g[Len(g)] \in Nat
      BY <1>1, <2>1
    <2> QED BY <1>2, <2>2
  <1>4. t = [phase |-> "validating", there |-> TRUE, registered |-> FALSE,
             resume |-> LastSeen(c), buffer |-> <<>>, sent |-> <<>>, read |-> 0,
             queued |-> 0]
    BY DEF Requested, Closed
  <1>5. t \in SinkType
    <2>1. <<>> \in Seq(Nat) /\ 0 \in Nat
      OBVIOUS
    <2>2. ASSUME NEW v \in Nat
          PROVE  [phase |-> "validating", there |-> TRUE, registered |-> FALSE, resume |-> v,
                  buffer |-> <<>>, sent |-> <<>>, read |-> 0, queued |-> 0] \in SinkType
      BY <2>1 DEF SinkType
    <2> QED BY <1>3, <1>4, <2>2
  <1>6. /\ t.sent = <<>> /\ t.buffer = <<>> /\ t.phase = "validating" /\ t.queued = 0
        /\ t.read = 0 /\ t.registered = FALSE /\ t.resume = LastSeen(c)
    BY <1>4
  <1>7. Len(t.sent) = 0 /\ Len(t.buffer) = 0 /\ \A k \in 1..0 : FALSE
    BY <1>6
  <1>8. SinkSound(t, Len(p))
    BY <1>5, <1>6, <1>7 DEF SinkSound, Within, OnlyOnce
  <1>9. Received(p, g, t)
    BY <1>1, <1>2, <1>6, <1>7 DEF Received
  <1>10. Followed(p, g, Closed) => Followed(p, g, t)
    BY <1>6, <1>7 DEF Followed
  <1> QED BY <1>6, <1>8, <1>9, <1>10

(* A client that has received nothing goes live at once. *)
LEMMA OpenIsSound ==
  ASSUME NEW p \in Seq(BOOLEAN), NEW g, NEW s, SinkSound(s, Len(p)), Received(p, g, s),
         s.phase = "validating", NEW t, t = Opened(s)
  PROVE  /\ SinkSound(t, Len(p)) /\ Received(p, g, t)
         /\ Followed(p, g, s) => Followed(p, g, t)
  <1>1. /\ s \in SinkType /\ s.sent = <<>> /\ s.read = 0 /\ s.queued = 0
        /\ g \in Seq(Nat) /\ Within(g, Len(p))
        /\ s.resume = IF g = <<>> THEN 0 ELSE g[Len(g)]
    BY DEF SinkSound, Received
  <1>2. t = [s EXCEPT !.phase = IF s.resume = 0 THEN "live" ELSE "replaying",
                      !.registered = TRUE]
    BY DEF Opened
  <1>3. t \in SinkType
    BY <1>1, <1>2 DEF SinkType
  <1>4. /\ t.sent = s.sent /\ t.buffer = s.buffer /\ t.read = s.read /\ t.queued = s.queued
        /\ t.resume = s.resume /\ t.registered
        /\ t.phase = IF s.resume = 0 THEN "live" ELSE "replaying"
    BY <1>1, <1>2 DEF SinkType
  <1>5. s.resume = 0 <=> g = <<>>
    <2>1. ASSUME g # <<>> PROVE g[Len(g)] # 0
      <3>1. Len(g) \in 1..Len(g)
        BY <1>1, <2>1
      <3>2. g[Len(g)] \in 1..Len(p)
        BY <1>1, <3>1 DEF Within
      <3> QED BY <3>2
    <2> QED BY <1>1, <2>1
  <1>6. SinkSound(t, Len(p))
    BY <1>1, <1>3, <1>4 DEF SinkSound
  <1>7. Received(p, g, t)
    BY <1>1, <1>4, <1>5 DEF Received
  <1>8. Followed(p, g, s) => Followed(p, g, t)
    <2>1. FirstFrame(g, t) = FirstFrame(g, s) /\ \A k : Written(t, k) = Written(s, k)
      BY <1>4 DEF FirstFrame, Written
    <2>2. ~(t.phase = "live" /\ (g # <<>> \/ t.sent # <<>>))
      BY <1>1, <1>4, <1>5
    <2> QED BY <1>4, <2>1, <2>2 DEF Followed
  <1> QED BY <1>6, <1>7, <1>8

(* Flushing, leaving and the removal of a sink write nothing. *)
LEMMA SameStream ==
  ASSUME NEW p, NEW g, NEW s, NEW n, SinkSound(s, n), Received(p, g, s),
         NEW t \in SinkType, t.sent = s.sent, t.buffer = s.buffer, t.read = s.read,
         t.resume = s.resume, t.phase = s.phase, t.registered => s.registered,
         t.queued = s.queued \/ s.queued # 0
  PROVE  /\ SinkSound(t, n) /\ Received(p, g, t)
         /\ Followed(p, g, s) => Followed(p, g, t)
  <1>1. SinkSound(t, n)
    BY DEF SinkSound
  <1>2. Received(p, g, t)
    BY DEF Received
  <1>3. Followed(p, g, s) => Followed(p, g, t)
    <2>1. FirstFrame(g, t) = FirstFrame(g, s) /\ \A k : Written(t, k) = Written(s, k)
      BY DEF FirstFrame, Written
    <2> QED BY <2>1 DEF Followed
  <1> QED BY <1>1, <1>2, <1>3

(* The client reads the next frame that was written. *)
ReadOutcome(x, t, g, s, r) ==
  /\ r = s.read + 1 /\ r <= Len(s.sent)
  /\ x = Append(g, s.sent[r])
  /\ t = [s EXCEPT !.read = r]

(* What is received is what was written, in its order. *)
LEMMA ReadIsSound ==
  ASSUME NEW p, NEW g, NEW s, SinkSound(s, Len(p)), Received(p, g, s),
         NEW r, NEW t, NEW x, ReadOutcome(x, t, g, s, r)
  PROVE  /\ SinkSound(t, Len(p)) /\ Received(p, x, t)
         /\ Followed(p, g, s) => Followed(p, x, t)
  <1> DEFINE n == Len(p)
             f == s.sent[r]
  <1>1. /\ s \in SinkType /\ s.sent \in Seq(Nat) /\ s.read \in Nat /\ Len(s.sent) \in Nat
        /\ Within(s.sent, n)
        /\ g \in Seq(Nat) /\ Within(g, n)
        /\ \A k \in 1..Len(s.sent) : k <= s.read => s.sent[k] \in Seen(g)
        /\ g = <<>> => s.read = 0
    BY DEF SinkSound, SinkType, Received
  <1>0. r = s.read + 1 /\ r <= Len(s.sent) /\ x = Append(g, f) /\ t = [s EXCEPT !.read = r]
    BY DEF ReadOutcome
  <1>2. r \in 1..Len(s.sent) /\ r \in Nat /\ s.sent # <<>>
    BY <1>0, <1>1
  <1>3. f \in 1..n /\ f \in Nat
    BY <1>1, <1>2 DEF Within
  <1>4. /\ t \in SinkType /\ t.sent = s.sent /\ t.buffer = s.buffer /\ t.read = r
        /\ t.resume = s.resume /\ t.phase = s.phase /\ t.registered = s.registered
        /\ t.queued = s.queued
    BY <1>0, <1>1, <1>2 DEF SinkType
  <1>5. s.phase \notin {"validating", "replaying"}
    BY <1>2 DEF SinkSound
  <1> HIDE DEF f, n
  <1>6. /\ x \in Seq(Nat) /\ Len(g) \in Nat /\ Len(x) = Len(g) + 1 /\ x # <<>>
        /\ \A k \in 1..Len(g) : x[k] = g[k]
        /\ x[Len(g) + 1] = f
        /\ \A k \in 1..Len(x) : k \in 1..Len(g) \/ k = Len(g) + 1
        /\ \A k \in 1..Len(g) : k \in 1..Len(x)
    <2>1. g \in Seq(Nat) /\ f \in Nat
      BY <1>1, <1>3
    <2> DEFINE z == Append(g, f)
    <2>2. /\ z \in Seq(Nat) /\ Len(g) \in Nat /\ Len(z) = Len(g) + 1 /\ z # <<>>
          /\ \A k \in 1..Len(g) : z[k] = g[k]
          /\ z[Len(g) + 1] = f
          /\ \A k \in 1..Len(z) : k \in 1..Len(g) \/ k = Len(g) + 1
          /\ \A k \in 1..Len(g) : k \in 1..Len(z)
      BY <2>1, AppendFacts
    <2>3. x = z
      BY <1>0
    <2> HIDE DEF z
    <2> QED BY <2>2, <2>3
  <1>7. /\ Seen(g) \subseteq Seen(x) /\ f \in Seen(x)
    <2>1. Len(g) + 1 \in 1..Len(x)
      BY <1>6
    <2> QED BY <1>6, <2>1 DEF Seen
  <1>8. Within(x, n)
    BY <1>1, <1>3, <1>6 DEF Within
  <1>9. SinkSound(t, n)
    BY <1>0, <1>2, <1>4, <1>5 DEF SinkSound, n
  <1>10. \A k \in 1..Len(s.sent) : k <= r => s.sent[k] \in Seen(x)
    <2> SUFFICES ASSUME NEW k \in 1..Len(s.sent), k <= r
                 PROVE  s.sent[k] \in Seen(x)
      OBVIOUS
    <2>1. k <= s.read \/ k = r
      BY <1>0, <1>1
    <2> QED BY <1>1, <1>7, <2>1 DEF f
  <1>11. Received(p, x, t)
    BY <1>4, <1>5, <1>6, <1>8, <1>10 DEF Received, n
  <1>12. ASSUME Followed(p, g, s) PROVE Followed(p, x, t)
    <2> DEFINE o == x[1]
    <2>1. o = FirstFrame(g, s)
      <3>1. CASE g = <<>>
        <4>1. r = 1 /\ Len(g) = 0
          BY <1>0, <1>1, <3>1
        <4>2. o = f
          BY <1>6, <4>1
        <4> QED BY <3>1, <4>1, <4>2 DEF FirstFrame, f
      <3>2. CASE g # <<>>
        <4>1. 1 \in 1..Len(g)
          BY <1>1, <3>2
        <4> QED BY <1>6, <3>2, <4>1 DEF FirstFrame
      <3> QED BY <3>1, <3>2
    <2>2. FirstFrame(x, t) = o
      BY <1>6 DEF FirstFrame
    <2> HIDE DEF o
    <2>3. /\ \A k \in 1..Len(s.sent) :
               p[s.sent[k]] => Every(p, o, s.sent[k], Seen(g) \cup Written(s, k))
          /\ s.phase = "live" /\ s.registered =>
               Every(p, o, n, Seen(g) \cup Written(s, Len(s.sent)))
      BY <1>2, <1>12, <2>1 DEF Followed, n
    <2>4. \A k : Written(t, k) = Written(s, k)
      BY <1>4 DEF Written
    <2>5. Written(s, r) \subseteq Seen(x)
      <3>1. \A k \in 1..r : k \in 1..Len(s.sent) /\ k <= r
        BY <1>1, <1>2
      <3> QED BY <1>10, <3>1 DEF Written
    <2>6. p[f] => Every(p, o, f, Seen(x))
      <3>1. p[f] => Every(p, o, f, Seen(g) \cup Written(s, r))
        BY <1>2, <2>3 DEF f
      <3> QED BY <1>7, <2>5, <3>1 DEF Every
    <2>7. x[Len(x)] = f
      BY <1>6
    <2>8. \A k \in 1..Len(t.sent) :
            p[t.sent[k]] => Every(p, FirstFrame(x, t), t.sent[k], Seen(x) \cup Written(t, k))
      BY <1>4, <1>7, <2>2, <2>3, <2>4 DEF Every
    <2>9. t.phase = "live" /\ t.registered =>
            Every(p, FirstFrame(x, t), n, Seen(x) \cup Written(t, Len(t.sent)))
      BY <1>4, <1>7, <2>2, <2>3, <2>4 DEF Every
    <2>10. p[x[Len(x)]] => Every(p, x[1], x[Len(x)], Seen(x))
      BY <2>6, <2>7 DEF o
    <2> QED BY <2>8, <2>9, <2>10 DEF Followed, n
  <1> QED BY <1>9, <1>11, <1>12 DEF n

(* The stream of one client, and what it has of the event. *)
ClientSound(p, g, s) == SinkSound(s, Len(p)) /\ Received(p, g, s)

(* What the replay of the history leaves of a connection. *)
LEMMA ReplayIsSound ==
  ASSUME NEW p \in Seq(BOOLEAN), NEW a, NEW h, HistorySound(h, a, Len(p)),
         NEW g, NEW s, ClientSound(p, g, s), s.phase = "replaying", s.registered,
         NEW fr, fr = FramesOf(Newest(AfterResume(h, s.resume))),
         NEW t, t = LiveAfter(s, WriteAll(s, fr \o HeldBack(s, fr)))
  PROVE  /\ ClientSound(p, g, t)
         /\ /\ Followed(p, g, s) /\ HistoryWhole(h, p)
            /\ Len(AfterResume(h, s.resume)) <= ReplayMax
            => Followed(p, g, t)
  <1> DEFINE n == Len(p)
             q == HeldBack(s, fr)
             fs == fr \o q
  <1>1. /\ n \in Nat /\ s \in SinkType /\ SinkSound(s, n) /\ Received(p, g, s)
        /\ Within(s.buffer, n) /\ OnlyOnce(s.buffer) /\ s.buffer \in Seq(Nat)
        /\ g \in Seq(Nat) /\ Within(g, n) /\ g # <<>> /\ s.resume = g[Len(g)]
        /\ \A k \in 1..Len(s.buffer) : s.buffer[k] > s.resume
    BY DEF ClientSound, SinkSound, SinkType, Received
  <1>2. h \in Seq(HistoryRow)
    BY DEF HistorySound
  <1>3. PICK d \in Nat : /\ Replayed(fr, h, d)
                         /\ Len(AfterResume(h, s.resume)) <= ReplayMax => Resumed(h, s.resume, d)
    BY <1>2, ReplayedIs
  <1>4. fr \in Seq(Nat) /\ OnlyOnce(fr) /\ Within(fr, n)
    BY <1>1, <1>3, ReplayedOnce DEF Replayed
  <1>5. HeldOver(q, s.buffer, fr)
    BY <1>1, <1>4, HeldBackIs
  <1> HIDE DEF q
  <1>6. q \in Seq(Nat) /\ OnlyOnce(q) /\ Within(q, n)
        /\ \A k \in 1..Len(q) : \A m \in 1..Len(fr) : q[k] # fr[m]
    BY <1>1, <1>5 DEF HeldOver, Within
  <1>7. OnlyOnce(fs) /\ Within(fs, n)
    BY <1>1, <1>4, <1>6, JoinOnce
  <1>8. fs \in Seq(Nat)
    BY <1>4, <1>6
  <1>9. t = LiveAfter(s, WriteAll(s, fs))
    BY DEF q
  <1> HIDE DEF fs, n
  <1>10. SinkSound(t, n) /\ LiveOutcome(t, fs)
    BY <1>1, <1>7, <1>8, <1>9, GoesLive
  <1>11. Received(p, g, t)
    <2>1. t.read = 0 /\ t.buffer = <<>> /\ t.phase \in {"live", "ended"} /\ Len(t.buffer) = 0
      BY <1>10 DEF LiveOutcome
    <2>2. \A k \in 1..Len(t.sent) : ~(k <= 0)
      <3>1. t.sent \in Seq(Nat)
        BY <1>10 DEF SinkSound, SinkType
      <3> QED BY <3>1
    <2>3. \A k \in 1..0 : FALSE
      OBVIOUS
    <2> QED BY <1>1, <2>1, <2>2, <2>3 DEF Received, n
  <1>12. ASSUME Followed(p, g, s), HistoryWhole(h, p),
                Len(AfterResume(h, s.resume)) <= ReplayMax
         PROVE  Followed(p, g, t)
    <2>1. p[g[Len(g)]] => Every(p, g[1], g[Len(g)], Seen(g))
      BY <1>1, <1>12 DEF Followed
    <2>2. Resumed(h, g[Len(g)], d)
      BY <1>1, <1>3, <1>12
    <2>3. \A k \in 1..Len(s.buffer) : s.buffer[k] > g[Len(g)]
      BY <1>1
    <2>4. Within(g, Len(p)) /\ Within(s.buffer, Len(p))
      BY <1>1 DEF n
    <2>5. Leads(fr \o q, p, g)
      BY <1>1, <1>3, <1>5, <1>12, <2>1, <2>2, <2>3, <2>4, ReplayLeads
    <2>6. Leads(fs, p, g)
      BY <2>5 DEF fs
    <2> QED BY <1>1, <1>8, <1>10, <2>1, <2>6, LiveFollows
  <1> QED BY <1>10, <1>11, <1>12 DEF ClientSound, n

(* A history that cannot be read replays nothing. *)
LEMMA UnreadIsSound ==
  ASSUME NEW p \in Seq(BOOLEAN), NEW g, NEW s, ClientSound(p, g, s),
         s.phase = "replaying", s.registered,
         NEW t, t = LiveAfter(s, WriteAll(s, <<>> \o s.buffer))
  PROVE  ClientSound(p, g, t)
  <1> DEFINE n == Len(p)
             fs == s.buffer
  <1>1. /\ n \in Nat /\ SinkSound(s, n) /\ Received(p, g, s)
        /\ Within(fs, n) /\ OnlyOnce(fs) /\ fs \in Seq(Nat)
        /\ g \in Seq(Nat) /\ Within(g, n) /\ g # <<>>
    BY DEF ClientSound, SinkSound, SinkType, Received
  <1> HIDE DEF fs
  <1>2. <<>> \o fs = fs
    BY <1>1
  <1>3. t = LiveAfter(s, WriteAll(s, fs))
    BY <1>2 DEF fs
  <1> HIDE DEF n
  <1>4. SinkSound(t, n) /\ LiveOutcome(t, fs)
    BY <1>1, <1>3, GoesLive
  <1>5. t.read = 0 /\ t.buffer = <<>> /\ t.phase \in {"live", "ended"} /\ Len(t.buffer) = 0
    BY <1>4 DEF LiveOutcome
  <1>6. \A k \in 1..Len(t.sent) : ~(k <= 0)
    <2>1. t.sent \in Seq(Nat)
      BY <1>4 DEF SinkSound, SinkType
    <2> QED BY <2>1
  <1>7. \A k \in 1..0 : FALSE
    OBVIOUS
  <1>8. Received(p, g, t)
    BY <1>1, <1>5, <1>6, <1>7 DEF Received, n
  <1> QED BY <1>4, <1>8 DEF ClientSound, n

(* The step of the replay, with its two outcomes. *)
LEMMA ReplayIs ==
  ASSUME NEW c \in Clients, ReplaySseHistory(c), NEW s, s = sinks[c],
         NEW fr, fr = FramesOf(Newest(AfterResume(hist, s.resume)))
  PROVE  /\ s.phase = "replaying" /\ s.registered
         /\ \/ /\ sinks' = [sinks EXCEPT ![c] = LiveAfter(s, WriteAll(s, fr \o HeldBack(s, fr)))]
               /\ excused' = IF Len(AfterResume(hist, s.resume)) > ReplayMax
                             THEN excused \cup {c} ELSE excused
            \/ /\ sinks' = [sinks EXCEPT ![c] = LiveAfter(s, WriteAll(s, <<>> \o s.buffer))]
               /\ excused' = excused \cup {c}
         /\ UNCHANGED <<historyStore, published, millis, hist, adding, got>>
  <1> DEFINE after == AfterResume(hist, sinks[c].resume)
             frames == [n \in DOMAIN Newest(after) |-> Newest(after)[n].frame]
             written(x) == WriteAll(sinks[c], x)
             live(x) == [sinks[c] EXCEPT !.buffer = <<>>,
                          !.sent = written(x).sent, !.queued = written(x).queued,
                          !.registered = written(x).registered,
                          !.phase = IF written(x).registered THEN "live"
                                                             ELSE written(x).phase]
  <1>1. fr = frames /\ s = sinks[c]
    BY DEF FramesOf
  <1>2. \A x : live(x) = LiveAfter(s, WriteAll(s, x))
    BY DEF LiveAfter
  <1>3. /\ sinks[c].phase = "replaying" /\ sinks[c].registered
        /\ UNCHANGED <<historyStore, published, millis, hist, adding, got>>
    BY DEF ReplaySseHistory
  <1>4. \/ /\ sinks' = [sinks EXCEPT ![c] = live(frames \o HeldBack(sinks[c], frames))]
           /\ excused' = IF Len(after) > ReplayMax THEN excused \cup {c} ELSE excused
        \/ /\ sinks' = [sinks EXCEPT ![c] = live(<<>> \o sinks[c].buffer)]
           /\ excused' = excused \cup {c}
    BY Zenon DEF ReplaySseHistory
  <1> HIDE DEF live, frames
  <1> QED BY <1>1, <1>2, <1>3, <1>4

HistoryInv ==
  /\ historyStore \in {"memory", "redis"}
  /\ published \in Seq(BOOLEAN) /\ millis \in Nat
  /\ HistorySound(hist, adding, Len(published))
  /\ ~RedisHistory => adding = {} /\ HistoryWhole(hist, published)
StreamInv ==
  /\ sinks \in [Clients -> SinkType] /\ got \in [Clients -> Seq(Nat)]
  /\ \A c \in Clients : ClientSound(published, got[c], sinks[c])
FollowInv ==
  ~RedisHistory => \A c \in Clients \ excused : Followed(published, got[c], sinks[c])
SseInv == HistoryInv /\ StreamInv /\ FollowInv

(* The history is left alone.                                             *)
LEMMA SameHistory ==
  ASSUME HistoryInv, UNCHANGED <<historyStore, published, millis, hist, adding>>
  PROVE  HistoryInv'
  BY DEF HistoryInv, RedisHistory

(* The streams are left alone.                                            *)
LEMMA SameStreams ==
  ASSUME StreamInv, FollowInv, UNCHANGED <<historyStore, published, sinks, got, excused>>
  PROVE  StreamInv' /\ FollowInv'
  BY DEF StreamInv, FollowInv, RedisHistory

(* A step of one client leaves the others what they were. *)
LEMMA OneClientStep ==
  ASSUME SseInv, UNCHANGED <<historyStore, published>>,
         NEW c \in Clients, NEW t, NEW x,
         sinks' = [sinks EXCEPT ![c] = t], got' = [got EXCEPT ![c] = x],
         ClientSound(published, x, t),
         excused \subseteq excused',
         ~RedisHistory /\ c \notin excused' => Followed(published, x, t)
  PROVE  StreamInv' /\ FollowInv'
  <1>1. t \in SinkType /\ x \in Seq(Nat)
    BY DEF ClientSound, SinkSound, Received
  <1>2. sinks' \in [Clients -> SinkType] /\ got' \in [Clients -> Seq(Nat)]
    BY <1>1 DEF SseInv, StreamInv
  <1>3. \A d \in Clients : /\ d = c => sinks'[d] = t /\ got'[d] = x
                           /\ d # c => sinks'[d] = sinks[d] /\ got'[d] = got[d]
    BY DEF SseInv, StreamInv
  <1>4. \A d \in Clients : ClientSound(published, got[d], sinks[d])
    BY DEF SseInv, StreamInv
  <1>5. \A d \in Clients : ClientSound(published', got'[d], sinks'[d])
    BY <1>3, <1>4
  <1>6. ~RedisHistory => \A d \in Clients \ excused : Followed(published, got[d], sinks[d])
    BY DEF SseInv, FollowInv
  <1>7. ~RedisHistory => \A d \in Clients \ excused' : Followed(published', got'[d], sinks'[d])
    BY <1>3, <1>6
  <1> QED BY <1>2, <1>5, <1>7 DEF StreamInv, FollowInv, RedisHistory

(* The client as the invariant knows it. *)
LEMMA ClientIs ==
  ASSUME SseInv, NEW c \in Clients
  PROVE  /\ published \in Seq(BOOLEAN)
         /\ sinks[c] \in SinkType /\ got[c] \in Seq(Nat)
         /\ ClientSound(published, got[c], sinks[c])
         /\ SinkSound(sinks[c], Len(published)) /\ Received(published, got[c], sinks[c])
         /\ ~RedisHistory /\ c \notin excused => Followed(published, got[c], sinks[c])
         /\ got = [got EXCEPT ![c] = got[c]]
  BY DEF SseInv, HistoryInv, StreamInv, FollowInv, ClientSound

(* A stream that is opened, or refused at the cap, keeps the invariant.   *)
LEMMA OpeningsAreSound ==
  ASSUME SseInv, NEW c \in Clients, NEW u, NEW s,
         UNCHANGED <<historyStore, published, got, excused>>, Proceed(c, s),
         u.phase = "validating", Opened(s) = Opened(u),
         SinkSound(u, Len(published)), Received(published, got[c], u),
         ~RedisHistory /\ c \notin excused => Followed(published, got[c], u)
  PROVE  StreamInv' /\ FollowInv'
  <1>1. /\ published \in Seq(BOOLEAN) /\ Received(published, got[c], sinks[c])
        /\ ~RedisHistory /\ c \notin excused => Followed(published, got[c], sinks[c])
        /\ got = [got EXCEPT ![c] = got[c]]
    BY ClientIs
  <1>2. excused' = excused /\ got' = got /\ UNCHANGED <<historyStore, published>>
    OBVIOUS
  <1>3. CASE sinks' = [sinks EXCEPT ![c] = Closed]
    <2> DEFINE t == Closed
    <2>1. ClientSound(published, got[c], t)
      BY <1>1, ClosedIsSound DEF ClientSound
    <2>2. ~RedisHistory /\ c \notin excused => Followed(published, got[c], t)
      BY <1>1, ClosedIsSound
    <2> HIDE DEF t
    <2>3. sinks' = [sinks EXCEPT ![c] = t]
      BY <1>3 DEF t
    <2> QED BY <1>1, <1>2, <2>1, <2>2, <2>3, OneClientStep
  <1>4. CASE sinks' = [sinks EXCEPT ![c] = Opened(s)]
    <2> DEFINE t == Opened(u)
    <2>1. ClientSound(published, got[c], t)
      BY <1>1, OpenIsSound DEF ClientSound
    <2>2. ~RedisHistory /\ c \notin excused => Followed(published, got[c], t)
      BY <1>1, OpenIsSound
    <2>3. sinks' = [sinks EXCEPT ![c] = t]
      BY <1>4
    <2> HIDE DEF t
    <2> QED BY <1>1, <1>2, <2>1, <2>2, <2>3, OneClientStep
  <1> QED BY <1>3, <1>4 DEF Proceed

(* GET /sub with a ticket.                                                *)
LEMMA TicketSubscribes ==
  ASSUME SseInv, NEW c \in Clients, NEW k, SubscribeByTicket(c, k)
  PROVE  SseInv'
  <1> DEFINE u == [Requested(c) EXCEPT !.phase = "validating"]
  <1>1. /\ sinks[c] = Closed /\ Proceed(c, Requested(c))
        /\ UNCHANGED <<historyStore, published, millis, hist, adding, got, excused>>
    BY DEF SubscribeByTicket
  <1>2. /\ published \in Seq(BOOLEAN) /\ Received(published, got[c], Closed)
        /\ ~RedisHistory /\ c \notin excused => Followed(published, got[c], Closed)
    BY <1>1, ClientIs
  <1>3. /\ SinkSound(u, Len(published)) /\ Received(published, got[c], u)
        /\ Followed(published, got[c], Closed) => Followed(published, got[c], u)
        /\ u.phase = "validating"
    BY <1>2, RequestIsSound
  <1>4. Opened(Requested(c)) = Opened(u)
    BY DEF Opened, Requested, Closed
  <1> HIDE DEF u
  <1>5. StreamInv' /\ FollowInv'
    BY <1>1, <1>2, <1>3, <1>4, OpeningsAreSound
  <1>6. HistoryInv'
    BY <1>1, SameHistory DEF SseInv
  <1> QED BY <1>5, <1>6 DEF SseInv

(* GET /sub with a bearer token, and the answer of validateToken.         *)
LEMMA TokenSubscribes ==
  ASSUME SseInv, NEW c \in Clients, SubscribeByToken(c) \/ TokenValidated(c)
  PROVE  SseInv'
  <1>1. /\ UNCHANGED <<historyStore, published, millis, hist, adding, got, excused>>
    BY DEF SubscribeByToken, TokenValidated
  <1>2. HistoryInv'
    BY <1>1, SameHistory DEF SseInv
  <1>3. /\ published \in Seq(BOOLEAN)
        /\ SinkSound(sinks[c], Len(published)) /\ Received(published, got[c], sinks[c])
        /\ ~RedisHistory /\ c \notin excused => Followed(published, got[c], sinks[c])
        /\ got = [got EXCEPT ![c] = got[c]]
    BY ClientIs
  <1>4. CASE SubscribeByToken(c)
    <2> DEFINE u == [Requested(c) EXCEPT !.phase = "validating"]
    <2>1. sinks[c] = Closed /\ sinks' = [sinks EXCEPT ![c] = u]
      BY <1>4 DEF SubscribeByToken
    <2>2. /\ SinkSound(u, Len(published)) /\ Received(published, got[c], u)
          /\ Followed(published, got[c], Closed) => Followed(published, got[c], u)
      BY <1>3, <2>1, RequestIsSound
    <2> HIDE DEF u
    <2>3. ClientSound(published, got[c], u)
      BY <2>2 DEF ClientSound
    <2>4. StreamInv' /\ FollowInv'
      BY <1>1, <1>3, <2>1, <2>2, <2>3, OneClientStep
    <2> QED BY <1>2, <2>4 DEF SseInv
  <1>5. CASE TokenValidated(c)
    <2>1. /\ sinks[c].phase = "validating"
          /\ Proceed(c, sinks[c]) \/ sinks' = [sinks EXCEPT ![c] = Closed]
      BY <1>5 DEF TokenValidated
    <2>2. CASE Proceed(c, sinks[c])
      <3>1. StreamInv' /\ FollowInv'
        BY <1>1, <1>3, <2>1, <2>2, OpeningsAreSound
      <3> QED BY <1>2, <3>1 DEF SseInv
    <2>3. CASE sinks' = [sinks EXCEPT ![c] = Closed]
      <3> DEFINE t == Closed
      <3>1. ClientSound(published, got[c], t)
        BY <1>3, ClosedIsSound DEF ClientSound
      <3>2. ~RedisHistory /\ c \notin excused => Followed(published, got[c], t)
        BY <1>3, ClosedIsSound
      <3>3. sinks' = [sinks EXCEPT ![c] = t]
        BY <2>3
      <3> HIDE DEF t
      <3>4. StreamInv' /\ FollowInv'
        BY <1>1, <1>3, <3>1, <3>2, <3>3, OneClientStep
      <3> QED BY <1>2, <3>4 DEF SseInv
    <2> QED BY <2>1, <2>2, <2>3
  <1> QED BY <1>4, <1>5

(* replaySseHistory, whether the store answers or fails.                  *)
LEMMA ReplayStep ==
  ASSUME SseInv, NEW c \in Clients, ReplaySseHistory(c)
  PROVE  SseInv'
  <1> DEFINE s == sinks[c]
             fr == FramesOf(Newest(AfterResume(hist, s.resume)))
             t1 == LiveAfter(s, WriteAll(s, fr \o HeldBack(s, fr)))
             t2 == LiveAfter(s, WriteAll(s, <<>> \o s.buffer))
             long == Len(AfterResume(hist, s.resume)) > ReplayMax
  <1>1. /\ s.phase = "replaying" /\ s.registered
        /\ \/ /\ sinks' = [sinks EXCEPT ![c] = t1]
              /\ excused' = IF long THEN excused \cup {c} ELSE excused
           \/ /\ sinks' = [sinks EXCEPT ![c] = t2]
              /\ excused' = excused \cup {c}
        /\ UNCHANGED <<historyStore, published, millis, hist, adding, got>>
    BY ReplayIs
  <1>2. /\ published \in Seq(BOOLEAN) /\ ClientSound(published, got[c], s)
        /\ ~RedisHistory /\ c \notin excused => Followed(published, got[c], s)
        /\ got = [got EXCEPT ![c] = got[c]]
    BY ClientIs
  <1>3. /\ HistorySound(hist, adding, Len(published))
        /\ ~RedisHistory => HistoryWhole(hist, published)
    BY DEF SseInv, HistoryInv
  <1>4. /\ ClientSound(published, got[c], t1)
        /\ Followed(published, got[c], s) /\ HistoryWhole(hist, published)
             /\ Len(AfterResume(hist, s.resume)) <= ReplayMax
           => Followed(published, got[c], t1)
    BY <1>1, <1>2, <1>3, ReplayIsSound
  <1>5. ClientSound(published, got[c], t2)
    BY <1>1, <1>2, UnreadIsSound
  <1>6. ~long => Len(AfterResume(hist, s.resume)) <= ReplayMax
    <2>1. hist \in Seq(HistoryRow)
      BY <1>3 DEF HistorySound
    <2>2. PICK d \in Nat :
            d <= Len(hist) /\ AfterResume(hist, s.resume) = SubSeq(hist, d + 1, Len(hist))
      BY <2>1, AfterIs
    <2>3. Len(SubSeq(hist, d + 1, Len(hist))) = Len(hist) - d /\ Len(hist) \in Nat
      BY <2>1, <2>2, TailIs
    <2>4. Len(AfterResume(hist, s.resume)) \in Int /\ ReplayMax \in Nat
      BY <2>2, <2>3, SseAssumption
    <2> QED BY <2>4
  <1>7. ~long /\ ~RedisHistory /\ c \notin excused => Followed(published, got[c], t1)
    BY <1>2, <1>3, <1>4, <1>6
  <1> HIDE DEF t1, t2, long, s, fr
  <1>8. HistoryInv'
    BY <1>1, SameHistory DEF SseInv
  <1>9. CASE /\ sinks' = [sinks EXCEPT ![c] = t1]
             /\ excused' = IF long THEN excused \cup {c} ELSE excused
    <2>1. /\ excused \subseteq excused'
          /\ ~RedisHistory /\ c \notin excused' => Followed(published, got[c], t1)
      BY <1>7, <1>9
    <2>2. StreamInv' /\ FollowInv'
      BY <1>1, <1>2, <1>4, <1>9, <2>1, OneClientStep
    <2> QED BY <1>8, <2>2 DEF SseInv
  <1>10. CASE sinks' = [sinks EXCEPT ![c] = t2] /\ excused' = excused \cup {c}
    <2>1. excused \subseteq excused' /\ c \in excused'
      BY <1>10
    <2>2. StreamInv' /\ FollowInv'
      BY <1>1, <1>2, <1>5, <1>10, <2>1, OneClientStep
    <2> QED BY <1>8, <2>2 DEF SseInv
  <1> QED BY <1>1, <1>9, <1>10

(* The connection: flushes, reads, ends and is cleaned up after.          *)
LEMMA ConnectionStep ==
  ASSUME SseInv, NEW c \in Clients, Flush(c) \/ Receive(c) \/ Depart(c) \/ Cleanup(c)
  PROVE  SseInv'
  <1> DEFINE s == sinks[c]
             g == got[c]
             n == Len(published)
  <1>1. UNCHANGED <<historyStore, published, millis, hist, adding, excused>>
    BY DEF Flush, Receive, Depart, Cleanup
  <1>2. HistoryInv'
    BY <1>1, SameHistory DEF SseInv
  <1>3. /\ published \in Seq(BOOLEAN) /\ s \in SinkType /\ g \in Seq(Nat)
        /\ SinkSound(s, n) /\ Received(published, g, s)
        /\ ~RedisHistory /\ c \notin excused => Followed(published, g, s)
        /\ got = [got EXCEPT ![c] = g]
        /\ s.read \in Nat /\ s.queued \in Nat /\ Len(s.sent) \in Nat
    BY ClientIs DEF SinkType
  <1>4. ASSUME NEW t \in SinkType, t.sent = s.sent, t.buffer = s.buffer, t.read = s.read,
               t.resume = s.resume, t.phase = s.phase, t.registered => s.registered,
               t.queued = s.queued \/ s.queued # 0,
               sinks' = [sinks EXCEPT ![c] = t], got' = got
        PROVE  SseInv'
    <2>1. /\ SinkSound(t, n) /\ Received(published, g, t)
          /\ Followed(published, g, s) => Followed(published, g, t)
      BY <1>3, <1>4, SameStream
    <2>2. ClientSound(published, g, t)
      BY <2>1 DEF ClientSound
    <2>3. StreamInv' /\ FollowInv'
      BY <1>1, <1>3, <1>4, <2>1, <2>2, OneClientStep
    <2> QED BY <1>2, <2>3 DEF SseInv
  <1>5. CASE Flush(c)
    <2> DEFINE t == [s EXCEPT !.queued = s.queued - 1]
    <2>1. s.queued > 0 /\ sinks' = [sinks EXCEPT ![c] = t] /\ got' = got
      BY <1>5 DEF Flush
    <2>2. s.queued - 1 \in Nat /\ s.queued # 0
      BY <1>3, <2>1
    <2>3. /\ t \in SinkType /\ t.sent = s.sent /\ t.buffer = s.buffer /\ t.read = s.read
          /\ t.resume = s.resume /\ t.phase = s.phase /\ t.registered = s.registered
      BY <1>3, <2>2 DEF SinkType
    <2> HIDE DEF t, s
    <2> QED BY <1>4, <2>1, <2>2, <2>3
  <1>6. CASE Depart(c)
    <2> DEFINE t == [s EXCEPT !.there = FALSE]
    <2>1. sinks' = [sinks EXCEPT ![c] = t] /\ got' = got
      BY <1>6 DEF Depart
    <2>2. /\ t \in SinkType /\ t.sent = s.sent /\ t.buffer = s.buffer /\ t.read = s.read
          /\ t.resume = s.resume /\ t.phase = s.phase /\ t.registered = s.registered
          /\ t.queued = s.queued
      BY <1>3 DEF SinkType
    <2> HIDE DEF t, s
    <2> QED BY <1>4, <2>1, <2>2
  <1>7. CASE Cleanup(c)
    <2>1. /\ sinks' = [sinks EXCEPT ![c] = IF s.registered THEN RemoveSseSink(s) ELSE Closed]
          /\ got' = got
      BY <1>7 DEF Cleanup
    <2>2. CASE s.registered
      <3> DEFINE t == [s EXCEPT !.registered = FALSE]
      <3>1. sinks' = [sinks EXCEPT ![c] = t]
        BY <2>1, <2>2 DEF RemoveSseSink
      <3>2. /\ t \in SinkType /\ t.sent = s.sent /\ t.buffer = s.buffer /\ t.read = s.read
            /\ t.resume = s.resume /\ t.phase = s.phase /\ ~t.registered
            /\ t.queued = s.queued
        BY <1>3 DEF SinkType
      <3> HIDE DEF t, s
      <3> QED BY <1>4, <2>1, <3>1, <3>2
    <2>3. CASE ~s.registered
      <3> DEFINE t == Closed
      <3>1. ClientSound(published, g, t)
        BY <1>3, ClosedIsSound DEF ClientSound
      <3>2. ~RedisHistory /\ c \notin excused => Followed(published, g, t)
        BY <1>3, ClosedIsSound
      <3>3. sinks' = [sinks EXCEPT ![c] = t]
        BY <2>1, <2>3
      <3> HIDE DEF t
      <3>4. StreamInv' /\ FollowInv'
        BY <1>1, <1>3, <2>1, <3>1, <3>2, <3>3, OneClientStep
      <3> QED BY <1>2, <3>4 DEF SseInv
    <2> QED BY <2>2, <2>3
  <1>8. CASE Receive(c)
    <2> DEFINE r == s.read + 1
               t == [s EXCEPT !.read = r]
               x == Append(g, s.sent[r])
    <2>1. /\ s.read < Len(s.sent) - s.queued
          /\ sinks' = [sinks EXCEPT ![c] = t] /\ got' = [got EXCEPT ![c] = x]
      BY <1>8 DEF Receive
    <2>2. ReadOutcome(x, t, g, s, r) /\ n = Len(published)
      BY <1>3, <2>1 DEF ReadOutcome
    <2> HIDE DEF t, x, r, n, s, g
    <2>3. /\ SinkSound(t, n) /\ Received(published, x, t)
          /\ Followed(published, g, s) => Followed(published, x, t)
      BY <1>3, <2>2, ReadIsSound
    <2>4. ClientSound(published, x, t)
      BY <2>2, <2>3 DEF ClientSound
    <2>5. StreamInv' /\ FollowInv'
      <3>1. ~RedisHistory /\ c \notin excused' => Followed(published, x, t)
        BY <1>1, <1>3, <2>3
      <3>2. excused \subseteq excused'
        BY <1>1
      <3> QED BY <1>1, <2>1, <2>4, <3>1, <3>2, OneClientStep
    <2> QED BY <1>2, <2>5 DEF SseInv
  <1> QED BY <1>5, <1>6, <1>7, <1>8

(* Publishing puts the frame behind all others, in every stream. *)
LEMMA PublishKeepsStreams ==
  ASSUME SseInv, NEW b \in BOOLEAN, SsePublish(b)
  PROVE  StreamInv' /\ FollowInv'
  <1> DEFINE p == published
             n == Len(p)
             q == Append(p, b)
  <1>1. /\ published' = q /\ got' = got /\ excused' = excused /\ historyStore' = historyStore
        /\ sinks' = [c \in Clients |-> WriteSseSink(sinks[c], n + 1)]
    BY DEF SsePublish
  <1>2. p \in Seq(BOOLEAN) /\ n \in Nat /\ Len(q) = n + 1 /\ n + 1 \in Nat
    <2>1. p \in Seq(BOOLEAN)
      BY DEF SseInv, HistoryInv
    <2> QED BY <2>1, AppendFacts
  <1> HIDE DEF p, n, q
  <1>3. ASSUME NEW c \in Clients
        PROVE  /\ SinkOutcome(sinks'[c], sinks[c], n + 1)
               /\ SinkSound(sinks[c], n) /\ Received(p, got[c], sinks[c])
               /\ ~RedisHistory /\ c \notin excused => Followed(p, got[c], sinks[c])
    <2>1. /\ sinks[c] \in SinkType
          /\ SinkSound(sinks[c], n) /\ Received(p, got[c], sinks[c])
          /\ ~RedisHistory /\ c \notin excused => Followed(p, got[c], sinks[c])
      BY ClientIs DEF p, n
    <2>2. sinks'[c] = WriteSseSink(sinks[c], n + 1)
      BY <1>1
    <2> QED BY <1>2, <2>1, <2>2, PublishOutcome
  <1>4. ASSUME NEW c \in Clients
        PROVE  /\ ClientSound(q, got[c], sinks'[c]) /\ sinks'[c] \in SinkType
               /\ ~RedisHistory /\ c \notin excused => Followed(q, got[c], sinks'[c])
    <2> DEFINE s == sinks[c]
               t == sinks'[c]
               g == got[c]
    <2>1. /\ SinkOutcome(t, s, Len(p) + 1)
          /\ SinkSound(s, Len(p)) /\ Received(p, g, s)
          /\ ~RedisHistory /\ c \notin excused => Followed(p, g, s)
      BY <1>3 DEF n
    <2> HIDE DEF s, t, g
    <2>2. SinkSound(t, n + 1)
      BY <1>2, <2>1, PublishKeepsSink DEF n
    <2>3. Received(q, g, t)
      BY <1>2, <2>1, PublishKeepsReceived DEF q
    <2>4. Followed(p, g, s) => Followed(q, g, t)
      BY <1>2, <2>1, PublishKeepsFollowed DEF q
    <2>5. t \in SinkType
      BY <2>2 DEF SinkSound
    <2> QED BY <1>2, <2>1, <2>2, <2>3, <2>4, <2>5 DEF ClientSound, t, g
  <1>5. sinks' \in [Clients -> SinkType]
    <2>1. \A c \in Clients : WriteSseSink(sinks[c], n + 1) \in SinkType
      BY <1>1, <1>4
    <2> QED BY <1>1, <2>1
  <1>6. got \in [Clients -> Seq(Nat)]
    BY DEF SseInv, StreamInv
  <1>7. StreamInv'
    BY <1>1, <1>4, <1>5, <1>6 DEF StreamInv
  <1>8. FollowInv'
    BY <1>1, <1>4 DEF FollowInv, RedisHistory
  <1> QED BY <1>7, <1>8

(* routeProducedMessage keeps the history sound and, in one step, whole.  *)
LEMMA PublishKeepsHistory ==
  ASSUME SseInv, NEW b \in BOOLEAN, SsePublish(b)
  PROVE  HistoryInv'
  <1> DEFINE p == published
             n == Len(p)
             row == [frame |-> n + 1, score |-> millis]
  <1>1. /\ published' = Append(p, b) /\ historyStore' = historyStore /\ millis' = millis
        /\ \/ ~b /\ UNCHANGED <<hist, adding>>
           \/ b /\ RedisHistory /\ adding' = adding \cup {row} /\ UNCHANGED hist
           \/ b /\ ~RedisHistory /\ hist' \in Indexed(hist, row) /\ UNCHANGED adding
    BY DEF SsePublish
  <1>2. /\ historyStore \in {"memory", "redis"} /\ p \in Seq(BOOLEAN) /\ millis \in Nat
        /\ HistorySound(hist, adding, n)
        /\ ~RedisHistory => adding = {} /\ HistoryWhole(hist, p)
    BY DEF SseInv, HistoryInv
  <1>3. /\ n \in Nat /\ Len(Append(p, b)) = n + 1 /\ Append(p, b) \in Seq(BOOLEAN)
        /\ n + 1 \in 1..(n + 1)
    <2>1. n \in Nat /\ Len(Append(p, b)) = n + 1 /\ Append(p, b) \in Seq(BOOLEAN)
      BY <1>2, AppendFacts
    <2> HIDE DEF n
    <2> QED BY <2>1
  <1>4. row \in HistoryRow /\ row.frame = n + 1
    BY <1>2, <1>3 DEF HistoryRow
  <1>5. /\ HistorySound(hist, adding, n + 1)
        /\ \A k \in 1..Len(hist) : hist[k].frame # n + 1
        /\ \A r \in adding : r.frame # n + 1
    BY <1>2, <1>3, HistoryMore
  <1> HIDE DEF p, n, row
  <1>6. CASE ~b /\ UNCHANGED <<hist, adding>>
    <2>1. ~RedisHistory => HistoryWhole(hist, Append(p, FALSE))
      BY <1>2, WholeWithout DEF n
    <2>2. b = FALSE
      BY <1>6
    <2> QED BY <1>1, <1>2, <1>3, <1>5, <1>6, <2>1, <2>2 DEF HistoryInv, RedisHistory
  <1>7. CASE b /\ RedisHistory /\ adding' = adding \cup {row} /\ UNCHANGED hist
    <2>1. HistorySound(hist, adding \cup {row}, n + 1)
      BY <1>3, <1>4, <1>5 DEF HistorySound
    <2> QED BY <1>1, <1>2, <1>3, <1>7, <2>1 DEF HistoryInv, RedisHistory
  <1>8. CASE b /\ ~RedisHistory /\ hist' \in Indexed(hist, row) /\ UNCHANGED adding
    <2>1. PICK k \in 1..(Len(hist) + 1) :
            /\ hist' = InsertAt(hist, k, row)
            /\ \A j \in k..Len(hist) : RedisHistory
      BY <1>8 DEF Indexed
    <2>2. hist \in Seq(HistoryRow) /\ Len(hist) \in Nat
      BY <1>5 DEF HistorySound
    <2>3. k = Len(hist) + 1
      <3>1. ~(k \in k..Len(hist))
        BY <1>8, <2>1
      <3> QED BY <2>2, <3>1
    <2>4. HistorySound(hist', adding, n + 1)
      <3> DEFINE q == InsertAt(hist, k, row)
      <3>1. row.frame \in 1..(n + 1) /\ n + 1 \in Nat
        BY <1>3, <1>4
      <3>2. /\ \A j \in 1..Len(hist) : hist[j].frame # row.frame
            /\ \A r \in adding : r.frame # row.frame
        BY <1>4, <1>5
      <3>3. HistorySound(q, adding, n + 1)
        BY <1>4, <1>5, <3>1, <3>2, InsertSound
      <3> QED BY <2>1, <3>3
    <2>5. Inserted(hist', hist, Len(hist) + 1, row)
      <3> DEFINE q == InsertAt(hist, k, row)
      <3>1. Inserted(q, hist, k, row)
        BY <1>4, <2>2, InsertedIs
      <3> QED BY <2>1, <2>3, <3>1
    <2>6. HistoryWhole(hist', Append(p, TRUE))
      <3> DEFINE q == hist'
      <3>1. HistorySound(hist, adding, Len(p)) /\ HistoryWhole(hist, p) /\ row.frame = Len(p) + 1
            /\ Inserted(q, hist, Len(hist) + 1, row)
        BY <1>2, <1>4, <1>8, <2>5 DEF n
      <3> HIDE DEF q
      <3>2. HistoryWhole(q, Append(p, TRUE))
        BY <1>2, <3>1, InsertWhole
      <3> QED BY <3>2 DEF q
    <2>7. b = TRUE
      BY <1>8
    <2> QED BY <1>1, <1>2, <1>3, <1>8, <2>4, <2>6, <2>7 DEF HistoryInv, RedisHistory
  <1> QED BY <1>1, <1>6, <1>7, <1>8

(* Redis indexes a row that is on its way.                                *)
LEMMA ZAddStep ==
  ASSUME SseInv, NEW row \in adding, ZAdd(row)
  PROVE  SseInv'
  <1> DEFINE n == Len(published)
             rest == adding \ {row}
  <1>1. /\ adding' = rest /\ hist' \in Indexed(hist, row)
        /\ UNCHANGED <<historyStore, published, millis, sinks, got, excused>>
    BY DEF ZAdd
  <1>2. /\ HistoryInv /\ published \in Seq(BOOLEAN) /\ HistorySound(hist, adding, n)
        /\ RedisHistory
    BY DEF SseInv, HistoryInv
  <1>3. n \in Nat
    BY <1>2
  <1> HIDE DEF n
  <1>4. /\ HistorySound(hist, rest, n) /\ row \in HistoryRow /\ row.frame \in 1..n
        /\ \A j \in 1..Len(hist) : hist[j].frame # row.frame
        /\ \A r \in rest : r.frame # row.frame
    BY <1>2 DEF HistorySound
  <1> HIDE DEF rest
  <1>5. PICK k \in 1..(Len(hist) + 1) : hist' = InsertAt(hist, k, row)
    BY <1>1 DEF Indexed
  <1>6. HistorySound(hist', rest, n)
    <2> DEFINE q == InsertAt(hist, k, row)
    <2>1. HistorySound(q, rest, n)
      BY <1>3, <1>4, InsertSound
    <2> QED BY <1>5, <2>1
  <1>7. HistoryInv'
    BY <1>1, <1>2, <1>6 DEF HistoryInv, RedisHistory, n
  <1>8. StreamInv' /\ FollowInv'
    BY <1>1, SameStreams DEF SseInv
  <1> QED BY <1>7, <1>8 DEF SseInv

(* The clock, and the tickets that are issued and swept.                  *)
LEMMA TickStep ==
  ASSUME SseInv, SseTick \/ (\E t : IssueSseTicket(t) \/ SweepSseTickets(t))
                 \/ UNCHANGED sseVars
  PROVE  SseInv'
  <1>1. UNCHANGED <<historyStore, published, sinks, got, excused, hist, adding>>
    BY DEF SseTick, IssueSseTicket, SweepSseTickets, sseVars
  <1>2. StreamInv' /\ FollowInv'
    BY <1>1, SameStreams DEF SseInv
  <1>3. millis' \in Nat
    <2>1. millis \in Nat
      BY DEF SseInv, HistoryInv
    <2>2. millis' = millis + 1 \/ millis' = millis
      BY DEF SseTick, IssueSseTicket, SweepSseTickets, sseVars
    <2> QED BY <2>1, <2>2
  <1>4. HistoryInv'
    BY <1>1, <1>3 DEF SseInv, HistoryInv, RedisHistory
  <1> QED BY <1>2, <1>4 DEF SseInv

(* Every step keeps the history, the connections and what was received.   *)
LEMMA SseInvStep ==
  ASSUME SseInv, [SseNext]_sseVars
  PROVE  SseInv'
  <1>1. CASE SseTick \/ (\E t : IssueSseTicket(t) \/ SweepSseTickets(t)) \/ UNCHANGED sseVars
    BY <1>1, TickStep
  <1>2. CASE \E b \in BOOLEAN : SsePublish(b)
    BY <1>2, PublishKeepsStreams, PublishKeepsHistory DEF SseInv
  <1>3. CASE \E row \in adding : ZAdd(row)
    BY <1>3, ZAddStep
  <1>4. ASSUME NEW c \in Clients,
               \/ \E t \in SseTickets : SubscribeByTicket(c, t)
               \/ SubscribeByToken(c) \/ TokenValidated(c) \/ ReplaySseHistory(c)
               \/ Flush(c) \/ Receive(c) \/ Depart(c) \/ Cleanup(c)
        PROVE  SseInv'
    BY <1>4, TicketSubscribes, TokenSubscribes, ReplayStep, ConnectionStep
  <1> QED BY <1>1, <1>2, <1>3, <1>4 DEF SseNext

(* Nothing is published and nobody is connected at the start.             *)
LEMMA SseInvInitially == SseInit => SseInv
  <1> SUFFICES ASSUME SseInit PROVE SseInv
    OBVIOUS
  <1>1. /\ historyStore \in {"memory", "redis"}
        /\ published = <<>> /\ millis = 0 /\ hist = <<>> /\ adding = {}
        /\ sinks = [c \in Clients |-> Closed] /\ got = [c \in Clients |-> <<>>]
    BY SseAssumption DEF SseInit
  <1>2. /\ published \in Seq(BOOLEAN) /\ Len(published) = 0 /\ hist \in Seq(HistoryRow)
        /\ Len(hist) = 0 /\ \A k \in 1..0 : FALSE
    BY <1>1
  <1>3. HistorySound(hist, adding, Len(published))
    BY <1>1, <1>2 DEF HistorySound
  <1>4. HistoryWhole(hist, published)
    BY <1>2 DEF HistoryWhole
  <1>5. HistoryInv
    BY <1>1, <1>2, <1>3, <1>4 DEF HistoryInv
  <1>6. Received(published, <<>>, Closed) /\ Followed(published, <<>>, Closed)
    <2>1. /\ Len(Closed.sent) = 0 /\ Len(Closed.buffer) = 0 /\ Closed.phase = "none"
          /\ Closed.read = 0
      BY DEF Closed
    <2>2. <<>> \in Seq(Nat) /\ Len(<<>>) = 0
      OBVIOUS
    <2> HIDE DEF Closed
    <2>3. Within(<<>>, Len(published))
      BY <1>2, <2>2 DEF Within
    <2> QED BY <1>2, <2>1, <2>2, <2>3 DEF Received, Followed
  <1>7. ClientSound(published, <<>>, Closed) /\ Closed \in SinkType /\ <<>> \in Seq(Nat)
    <2>1. SinkSound(Closed, Len(published))
      BY <1>2, <1>6, ClosedIsSound
    <2>2. Closed \in SinkType
      BY <2>1 DEF SinkSound
    <2>3. <<>> \in Seq(Nat)
      OBVIOUS
    <2> HIDE DEF Closed
    <2> QED BY <1>6, <2>1, <2>2, <2>3 DEF ClientSound
  <1> HIDE DEF Closed
  <1>8. StreamInv
    BY <1>1, <1>7 DEF StreamInv
  <1>9. FollowInv
    BY <1>1, <1>6 DEF FollowInv
  <1> QED BY <1>5, <1>8, <1>9 DEF SseInv

(* The invariant holds throughout.                                        *)
LEMMA SseInvHolds == SseSpec => []SseInv
  BY SseInvInitially, SseInvStep, PTL DEF SseSpec

(* The invariant says what a stream promises.                             *)
LEMMA SseInvIsWhole ==
  ASSUME SseInv
  PROVE  OncePerConnection /\ NoGapInOneStep
  <1>1. ASSUME NEW c \in Clients PROVE IsInjective(sinks[c].sent)
    <2> DEFINE q == sinks[c].sent
    <2>1. OnlyOnce(q) /\ q \in Seq(Nat)
      BY ClientIs DEF SinkSound, SinkType
    <2> HIDE DEF q
    <2>2. DOMAIN q = 1..Len(q)
      BY <2>1
    <2>3. IsInjective(q)
      BY <2>1, <2>2 DEF IsInjective, OnlyOnce
    <2> QED BY <2>3 DEF q
  <1>2. ASSUME ~RedisHistory, NEW c \in Clients \ excused,
               sinks[c].phase = "live", sinks[c].registered, got[c] # <<>>,
               NEW f \in (got[c][1])..Len(published), Guaranteed(f)
        PROVE  f \in Range(got[c]) \cup Range(sinks[c].sent)
    <2> DEFINE g == got[c]
               s == sinks[c]
    <2>1. Followed(published, g, s) /\ g \in Seq(Nat) /\ s.sent \in Seq(Nat)
      BY <1>2, ClientIs DEF SinkType
    <2>2. Every(published, FirstFrame(g, s), Len(published), Seen(g) \cup Written(s, Len(s.sent)))
      BY <1>2, <2>1 DEF Followed
    <2>3. FirstFrame(g, s) = g[1]
      BY <1>2 DEF FirstFrame
    <2>4. f \in Seen(g) \cup Written(s, Len(s.sent))
      BY <1>2, <2>2, <2>3 DEF Every, Guaranteed
    <2>5. Seen(g) = Range(g) /\ Written(s, Len(s.sent)) = Range(s.sent)
      <3>1. DOMAIN g = 1..Len(g) /\ DOMAIN s.sent = 1..Len(s.sent)
        BY <2>1
      <3> QED BY <3>1 DEF Seen, Written, Range
    <2> QED BY <2>4, <2>5
  <1>3. OncePerConnection
    BY <1>1 DEF OncePerConnection
  <1>4. NoGapInOneStep
    BY <1>2 DEF NoGapInOneStep, ResumeLeavesNoGap
  <1> QED BY <1>3, <1>4

(* What a connection is sent has no frame twice, what a client has been    *)
(* sent over its connections has no gap where the history is written with  *)
(* the publication, and the count of streams is that of the open ones, for *)
(* any clients, caps, replay lengths and buffers (openSseStream,           *)
(* writeSseSink, replaySseHistory, removeSseSink).                         *)
THEOREM StreamsStayWhole == SseSpec => []StreamsAreWhole
  <1>1. SseInv => OncePerConnection /\ NoGapInOneStep
    BY SseInvIsWhole
  <1>2. CapsCountStreams /\ sinkCount <= SseCap /\ OncePerConnection /\ NoGapInOneStep
          => StreamsAreWhole
    BY DEF StreamsAreWhole
  <1> QED BY <1>1, <1>2, SseInvHolds, StreamsAreCounted, PTL
=============================================================================
