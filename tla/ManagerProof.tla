---------------------------- MODULE ManagerProof ----------------------------
(***************************************************************************)
(* Single use of signed manager proofs: the envelope check against         *)
(* NonceCache (lib/nonce-cache.js), the freshness window of the signature, *)
(* and, in a cluster, the claim of the nonce in Redis before the command   *)
(* of the proof is executed (lib/server.js, lib/cluster.js).               *)
(*                                                                         *)
(* A proof stands for its nonce, its timestamp and a signature that is     *)
(* valid; what its secret authorises (global or one realm) is not          *)
(* modelled.  Time is counted in milliseconds, and handlers take none.     *)
(***************************************************************************)
EXTENDS Integers

CONSTANTS
    Nodes,          \* brokers
    Proofs,         \* proofs, each with a nonce of its own
    MaxAge,         \* MANAGER_PROOF_MAX_AGE_MS
    PruneEvery,     \* pruneEveryMs
    Clustered,      \* whether the brokers share a Redis
    MaxNow,         \* bound: the clock
    MaxRestarts,    \* bound: restarts of brokers
    MaxOutages      \* bound: claims that Redis fails to answer

ASSUME MaxAgeAssumption == MaxAge \in Nat \ {0}
ASSUME PruneEveryAssumption == PruneEvery \in Nat \ {0}
ASSUME ClusteredAssumption == Clustered \in BOOLEAN
ASSUME ProofBoundsAssumption ==
    MaxNow \in Nat /\ MaxRestarts \in Nat /\ MaxOutages \in Nat

(* Brokers that share no Redis are systems of their own. *)
ASSUME NodesAssumption == Clustered \/ \A m, n \in Nodes : m = n

VARIABLES
    now,            \* Date.now()
    stamp,          \* by proof: proof.timestamp
    entries,        \* by node and proof: usedManagerNonces.entries
    lastPrune,      \* by node: usedManagerNonces._lastPrune
    claims,         \* <<node, proof>>: claimNonce calls in flight
    claimedUntil,   \* by proof: expiry of its nonce key in Redis
    accepted,       \* by node and proof: its last acceptance since the start
    executed,       \* by proof: when its command was last executed
    uses,           \* by proof: how often, up to 2
    restarts,
    outages

vars == <<now, stamp, entries, lastPrune, claims, claimedUntil, accepted,
          executed, uses, restarts, outages>>

Never == -1
retainMs == 2 * MaxAge
ClaimTtl == 2 * MaxAge      \* NONCE_CLAIM_TTL_MS

TypeOK ==
    /\ now \in Nat
    /\ stamp \in [Proofs -> Int]
    /\ entries \in [Nodes -> [Proofs -> Nat \cup {Never}]]
    /\ lastPrune \in [Nodes -> Nat]
    /\ claims \subseteq Nodes \X Proofs
    /\ claimedUntil \in [Proofs -> Nat]
    /\ accepted \in [Nodes -> [Proofs -> Nat \cup {Never}]]
    /\ executed \in [Proofs -> Nat \cup {Never}]
    /\ uses \in [Proofs -> 0..2]
    /\ restarts \in Nat
    /\ outages \in Nat

Init ==
    /\ now = 0
    /\ stamp \in [Proofs -> 0..MaxNow]
    /\ entries = [n \in Nodes |-> [p \in Proofs |-> Never]]
    /\ lastPrune = [n \in Nodes |-> 0]
    /\ claims = {}
    /\ claimedUntil = [p \in Proofs |-> 0]
    /\ accepted = [n \in Nodes |-> [p \in Proofs |-> Never]]
    /\ executed = [p \in Proofs |-> Never]
    /\ uses = [p \in Proofs |-> 0]
    /\ restarts = 0
    /\ outages = 0

-----------------------------------------------------------------------------
(* NonceCache.  Pruning drops what `has' no longer reports.                *)

(* Mutant: only one side of the acceptance window is remembered. *)
RemembersMaxAge(insertedAt) ==
    insertedAt # Never /\ insertedAt > now - MaxAge

Remembers(insertedAt) == insertedAt # Never /\ insertedAt > now - retainMs

(* Mutant: a prune drops what is half way through its retention. *)
PrunedEarly(n) ==
    [p \in Proofs |-> IF entries[n][p] > now - MaxAge THEN entries[n][p]
                      ELSE Never]

(* The entries after _maybePrune. *)
Pruned(n) ==
    [p \in Proofs |->
        IF now - lastPrune[n] >= PruneEvery /\ ~Remembers(entries[n][p])
        THEN Never ELSE entries[n][p]]

(* Mutant: the horizon is kept as the time of the prune. *)
PruneTimeHorizon(n) ==
    IF now - lastPrune[n] >= PruneEvery THEN now - retainMs ELSE lastPrune[n]

PruneTime(n) ==
    IF now - lastPrune[n] >= PruneEvery THEN now ELSE lastPrune[n]

Has(n, p) == Remembers(entries[n][p])

-----------------------------------------------------------------------------
(* verifyAdminProof (tyo-mq-protocol): accepts a timestamp that is at most *)
(* MaxAge from now, in either direction.                                   *)
Fresh(p) ==
    /\ stamp[p] - MaxAge <= now
    /\ now <= stamp[p] + MaxAge

(* The command of the proof runs.                                          *)
Execute(p) ==
    /\ executed' = [executed EXCEPT ![p] = now]
    /\ uses' = [uses EXCEPT ![p] = IF @ < 2 THEN @ + 1 ELSE @]

(* A proof arrives and is valid: its nonce is marked as used.  Alone, the  *)
(* broker executes it; in a cluster it first claims the nonce in Redis.    *)
Accept(n, p) ==
    /\ Fresh(p)
    /\ ~Has(n, p)
    /\ <<n, p>> \notin claims
    /\ entries' = [entries EXCEPT ![n] = [Pruned(n) EXCEPT ![p] = now]]
    /\ lastPrune' = [lastPrune EXCEPT ![n] = PruneTime(n)]
    /\ accepted' = [accepted EXCEPT ![n] = [@ EXCEPT ![p] = now]]
    /\ IF Clustered
       THEN claims' = claims \cup {<<n, p>>} /\ UNCHANGED <<executed, uses>>
       ELSE Execute(p) /\ UNCHANGED claims
    /\ UNCHANGED <<now, stamp, claimedUntil, restarts, outages>>

(* A proof arrives and is refused: used already, or not fresh. *)
Refuse(n, p) ==
    /\ Has(n, p) \/ ~Fresh(p)
    /\ entries' = [entries EXCEPT ![n] = Pruned(n)]
    /\ lastPrune' = [lastPrune EXCEPT ![n] = PruneTime(n)]
    /\ UNCHANGED <<now, stamp, claims, claimedUntil, accepted, executed, uses,
                   restarts, outages>>

(* Mutant: SET without NX. *)
ClaimAnyway(n, p) ==
    /\ <<n, p>> \in claims
    /\ claims' = claims \ {<<n, p>>}
    /\ claimedUntil' = [claimedUntil EXCEPT ![p] = now + ClaimTtl]
    /\ Execute(p)
    /\ UNCHANGED <<now, stamp, entries, lastPrune, accepted, restarts, outages>>

(* SET NX PX.  The broker that gets OK executes the command, any other     *)
(* answers that the nonce was already used.                                *)
Claim(n, p) ==
    /\ <<n, p>> \in claims
    /\ claims' = claims \ {<<n, p>>}
    /\ IF claimedUntil[p] <= now
       THEN /\ claimedUntil' = [claimedUntil EXCEPT ![p] = now + ClaimTtl]
            /\ Execute(p)
       ELSE UNCHANGED <<claimedUntil, executed, uses>>
    /\ UNCHANGED <<now, stamp, entries, lastPrune, accepted, restarts, outages>>

(* Redis does not answer: claimClusterNonce fails open. *)
ClaimFails(n, p) ==
    /\ <<n, p>> \in claims
    /\ outages < MaxOutages
    /\ outages' = outages + 1
    /\ claims' = claims \ {<<n, p>>}
    /\ Execute(p)
    /\ UNCHANGED <<now, stamp, entries, lastPrune, claimedUntil, accepted,
                   restarts>>

(* The cache of a broker is in its memory only. *)
Restart(n) ==
    /\ restarts < MaxRestarts
    /\ restarts' = restarts + 1
    /\ entries' = [entries EXCEPT ![n] = [p \in Proofs |-> Never]]
    /\ lastPrune' = [lastPrune EXCEPT ![n] = now]
    /\ accepted' = [accepted EXCEPT ![n] = [p \in Proofs |-> Never]]
    /\ claims' = {c \in claims : c[1] # n}
    /\ UNCHANGED <<now, stamp, claimedUntil, executed, uses, outages>>

Tick ==
    /\ now < MaxNow
    /\ now' = now + 1
    /\ UNCHANGED <<stamp, entries, lastPrune, claims, claimedUntil, accepted,
                   executed, uses, restarts, outages>>

Next ==
    \/ \E n \in Nodes, p \in Proofs :
          Accept(n, p) \/ Refuse(n, p) \/ Claim(n, p) \/ ClaimFails(n, p)
    \/ \E n \in Nodes : Restart(n)
    \/ Tick

Spec == Init /\ [][Next]_vars

-----------------------------------------------------------------------------
(* A broker does not accept a proof again before its retention is over,    *)
(* whatever pruning happens in between: two acceptances by one broker that *)
(* did not restart are at least 2 * MaxAge apart (NonceCache.has).         *)
AcceptedApart ==
    [][\A n \in Nodes, p \in Proofs :
          (/\ accepted[n][p] # Never
           /\ accepted'[n][p] \notin {accepted[n][p], Never})
              => accepted'[n][p] - accepted[n][p] >= 2 * MaxAge]_vars

(* "... so a captured signed command cannot be replayed against another    *)
(* node" (docs/CLUSTERING.md:187): until Redis first fails to answer, a    *)
(* cluster executes a proof twice only with 2 * MaxAge between, whichever  *)
(* brokers it reaches, restart, or wait for their claim (claimNonce).      *)
ExecutedApart ==
    [][\A p \in Proofs :
          (outages' = 0 /\ executed'[p] # executed[p] /\ executed[p] # Never)
              => executed'[p] - executed[p] >= 2 * MaxAge]_vars

(* "The cache must outlive that" (tests/nonce-cache.test.js:45), and it    *)
(* does up to one instant: until Redis first fails to answer, a proof is   *)
(* only executed twice if the second execution is no earlier than the last *)
(* moment at which verifyAdminProof takes it for fresh, so only one whose  *)
(* timestamp was MaxAge ahead of the clock can be.                         *)
SecondUseOnlyAtTheEdge ==
    outages = 0 =>
        \A p \in Proofs : uses[p] > 1 => executed[p] >= stamp[p] + MaxAge

=============================================================================
