------------------------------- MODULE Limits -------------------------------
(***************************************************************************)
(* Rate limits and quotas of the broker (lib/limits.js) for one client     *)
(* address: the token buckets for new connections and for new realms, the  *)
(* count of connections, and the pruning of idle buckets.                  *)
(*                                                                         *)
(* Tokens are counted in units: a bucket gets one unit per tick and an     *)
(* operation costs as many units as it has ticks between two tokens.       *)
(***************************************************************************)
EXTENDS Naturals, Sequences, FiniteSets

CONSTANTS LSockets,
          MaxConnections,        \* max_connections_per_ip
          Kinds, ConnKind, RealmKind,
          Burst,                 \* by kind: the tokens of a full bucket
          Cost,                  \* by kind: ticks between two tokens
          BucketIdle,            \* BUCKET_IDLE_MS
          PruneInterval,         \* PRUNE_INTERVAL_MS
          NoBucket,
          MaxLimitClock, MaxTakes   \* bounds: clock, operations let through

ASSUME LimitsAssumption ==
  /\ {ConnKind, RealmKind} \subseteq Kinds
  /\ \A k \in Kinds : Burst[k] \in Nat /\ Cost[k] \in Nat
  /\ {MaxConnections, BucketIdle} \subseteq Nat
  /\ NoBucket \notin [units : Nat, at : Nat]

VARIABLES
  lclock,
  enforced,     \* whether a limits block is configured
  buckets,      \* by kind: _buckets
  lastPrune,    \* _lastPruneAt
  connections,  \* _connections
  lsocket,      \* by socket: closed, or open and counted or not (_tyoLimitIp)
  passed        \* history: by kind, the times of operations let through

limitVars == <<lclock, enforced, buckets, lastPrune, connections, lsocket, passed>>

LimitInit ==
  /\ lclock = 0 /\ lastPrune = 0 /\ enforced = TRUE
  /\ buckets = [k \in Kinds |-> NoBucket]
  /\ connections = 0
  /\ lsocket = [s \in LSockets |-> "closed"]
  /\ passed = [k \in Kinds |-> <<>>]

LimitTick ==
  /\ lclock < MaxLimitClock /\ lclock' = lclock + 1
  /\ UNCHANGED <<enforced, buckets, lastPrune, connections, lsocket, passed>>

(* Settings are reloaded while sockets are connected.                      *)
SetLimits(on) ==
  /\ enforced # on /\ enforced' = on
  /\ UNCHANGED <<lclock, buckets, lastPrune, connections, lsocket, passed>>

-----------------------------------------------------------------------------

Smaller(a, b) == IF a < b THEN a ELSE b

(* _prune: at most once per interval, drops the buckets that were idle.    *)
Pruned ==
  IF lclock - lastPrune < PruneInterval THEN buckets
  ELSE [k \in Kinds |->
          IF buckets[k] # NoBucket /\ lclock - buckets[k].at > BucketIdle
          THEN NoBucket ELSE buckets[k]]

(* _take: the bucket as it is now, refilled up to the burst.               *)
(* Mutant: the refill has no limit. *)
RefilledBeyond(k) ==
  IF Pruned[k] = NoBucket THEN Burst[k] * Cost[k]
  ELSE Pruned[k].units + (lclock - Pruned[k].at)
Refilled(k) ==
  IF Pruned[k] = NoBucket THEN Burst[k] * Cost[k]
  ELSE Smaller(Burst[k] * Cost[k], Pruned[k].units + (lclock - Pruned[k].at))

Take(k) ==
  LET enough == Refilled(k) >= Cost[k]
      left   == IF enough THEN Refilled(k) - Cost[k] ELSE Refilled(k)
  IN /\ buckets' = [Pruned EXCEPT ![k] = [units |-> left, at |-> lclock]]
     /\ lastPrune' = IF lclock - lastPrune < PruneInterval THEN lastPrune ELSE lclock

Enough(k) == Refilled(k) >= Cost[k]
Passing(k) == passed' = [passed EXCEPT ![k] = Append(@, lclock)]

-----------------------------------------------------------------------------

(* A socket connects: it is counted if limits are enforced and it passes.  *)
(* A connection that is refused takes a token but is not counted.          *)
LimitConnect(s) ==
  /\ lsocket[s] = "closed" /\ Len(passed[ConnKind]) < MaxTakes
  /\ UNCHANGED <<lclock, enforced>>
  /\ \/ /\ ~enforced
        /\ lsocket' = [lsocket EXCEPT ![s] = "uncounted"]
        /\ UNCHANGED <<buckets, lastPrune, connections, passed>>
     \/ /\ enforced /\ connections < MaxConnections /\ Take(ConnKind)
        /\ IF Enough(ConnKind)
           THEN /\ connections' = connections + 1
                /\ lsocket' = [lsocket EXCEPT ![s] = "counted"]
                /\ Passing(ConnKind)
           ELSE UNCHANGED <<connections, lsocket, passed>>

(* Mutant: sockets that were never counted are released. *)
ReleasedAll(s) == IF connections <= 1 THEN 0 ELSE connections - 1
Released(s) ==
  IF lsocket[s] = "counted" THEN (IF connections <= 1 THEN 0 ELSE connections - 1)
  ELSE connections

LimitDisconnect(s) ==
  /\ lsocket[s] # "closed"
  /\ connections' = Released(s)
  /\ lsocket' = [lsocket EXCEPT ![s] = "closed"]
  /\ UNCHANGED <<lclock, enforced, buckets, lastPrune, passed>>

(* POST /api/realms.                                                       *)
RealmCreation ==
  /\ enforced /\ Len(passed[RealmKind]) < MaxTakes
  /\ Take(RealmKind)
  /\ IF Enough(RealmKind) THEN Passing(RealmKind) ELSE UNCHANGED passed
  /\ UNCHANGED <<lclock, enforced, connections, lsocket>>

LimitNext ==
  \/ LimitTick \/ RealmCreation
  \/ \E on \in BOOLEAN : SetLimits(on)
  \/ \E s \in LSockets : LimitConnect(s) \/ LimitDisconnect(s)

LimitSpec == LimitInit /\ [][LimitNext]_limitVars

-----------------------------------------------------------------------------

(* The operations let through in some interval are at most a full bucket   *)
(* and what the bucket gets in that time.                                  *)
WithinRate(k) ==
  \A n \in DOMAIN passed[k] : \A m \in n..Len(passed[k]) :
    (m - n + 1) * Cost[k] <= Burst[k] * Cost[k] + (passed[k][m] - passed[k][n])

(* README.md:258, "connections_per_minute_per_ip": no pattern of refused,  *)
(* closed and repeated connections, reloads of the settings and pruned     *)
(* buckets gets more connections through than the bucket allows            *)
(* (connectionAllowed, _take, _prune).                                     *)
ConnectionRate == WithinRate(ConnKind)

(* The broker counts the connections that it let through while limits were *)
(* enforced, and no others, also when limits come and go with sockets      *)
(* connected (connectionAllowed, releaseConnection).                       *)
ConnectionsAreCounted ==
  /\ connections = Cardinality({s \in LSockets : lsocket[s] = "counted"})
  /\ connections <= MaxConnections

(* README.md:262, "realms_per_hour_per_ip": 10, with the tokens that the   *)
(* bucket gets in that time (realmCreationAllowed).                        *)
RealmRate == WithinRate(RealmKind)

(* The connections of an address are limited in rate and in number.         *)
ConnectionsAreLimited == ConnectionRate /\ ConnectionsAreCounted
=============================================================================
