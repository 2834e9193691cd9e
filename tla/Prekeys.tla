------------------------------- MODULE Prekeys -------------------------------
(***************************************************************************)
(* The directory of Signal prekey bundles (PREKEY_PUBLISH, PREKEY_TAKE and *)
(* SEALED_UAK_SET in lib/server.js) with its SQLite mirror                 *)
(* (lib/prekey-store.js): the memory is what requests are served from, the *)
(* mirror is what a restart of the broker finds.                           *)
(*                                                                         *)
(* An account's identity key is the number of its installation.  A one-time*)
(* prekey is <<installation, id>>: a client numbers its keys from 1 and    *)
(* publishes each once.  Key bytes, signatures and the signed prekeys that *)
(* travel with the identity key are left out.                              *)
(***************************************************************************)
EXTENDS Naturals, Sequences, FiniteSets, SequencesExt

CONSTANTS
  Accounts,
  PoolMax,        \* PREKEY_POOL_MAX
  BatchMax,       \* PREKEY_PUBLISH_BATCH_MAX
  MaxInstalls,    \* bound: installations of an account
  MaxPrekeys,     \* bound: one-time prekeys of an installation
  MaxCrashes,     \* bound: restarts of the broker
  MaxWriteErrors  \* bound: writes of the mirror that fail

ASSUME PrekeyAssumption ==
  /\ {PoolMax, BatchMax, MaxPrekeys} \subseteq Nat /\ MaxInstalls \in Nat \ {0}

OneTime == (1..MaxInstalls) \X (1..MaxPrekeys)
Modes == {"unset", "require-uak", "unrestricted"}

VARIABLES
  install,      \* by account: the identity key its client uses
  numbered,     \* by account: the last id its client has used
  identityKey,  \* by account: realm.prekeys[].identity_key, 0 = no bundle
  pool,         \* by account: realm.prekeys[].one_time
  diskKey,      \* by account: prekey_bundles
  diskPool,     \* by account: prekey_one_time, unique by id
  access,       \* by account: realm.sealedUak[].mode
  diskAccess,   \* by account: sealed_uak
  handed,       \* by account and one-time prekey: how often it was taken
  served,       \* by account: what the last take answered
  crashes, writeErrors

prekeyVars == <<install, numbered, identityKey, pool, diskKey, diskPool, access,
                diskAccess, handed, served, crashes, writeErrors>>

PrekeyInit ==
  /\ install = [a \in Accounts |-> 1]
  /\ numbered = [a \in Accounts |-> 0]
  /\ identityKey = [a \in Accounts |-> 0] /\ diskKey = [a \in Accounts |-> 0]
  /\ pool = [a \in Accounts |-> <<>>] /\ diskPool = [a \in Accounts |-> {}]
  /\ access = [a \in Accounts |-> "unset"]
  /\ diskAccess = [a \in Accounts |-> "unset"]
  /\ handed = [a \in Accounts |-> [k \in OneTime |-> 0]]
  /\ served = [a \in Accounts |-> <<0, <<>>>>]
  /\ crashes = 0 /\ writeErrors = 0

(* The user installs the application again: a new identity, new numbers.   *)
Reinstall(a) ==
  /\ install[a] < MaxInstalls
  /\ install' = [install EXCEPT ![a] = @ + 1]
  /\ numbered' = [numbered EXCEPT ![a] = 0]
  /\ UNCHANGED <<identityKey, pool, diskKey, diskPool, access, diskAccess,
                 handed, served, crashes, writeErrors>>

(* A write of the mirror may fail: it is logged and the request goes on.   *)
WriteOrError(write, keep) ==
  \/ write /\ UNCHANGED writeErrors
  \/ writeErrors < MaxWriteErrors /\ writeErrors' = writeErrors + 1 /\ keep

(* putBundle rewrites the pool of the account; rows are unique by id.      *)
LastById(keys) ==
  {keys[n] : n \in {m \in DOMAIN keys :
                      \A l \in DOMAIN keys : l > m => keys[l][2] # keys[m][2]}}

(* Mutant: the pool of another identity is kept. *)
PoolKept(a, key) == pool[a]
PoolFor(a, key) == IF identityKey[a] = key THEN pool[a] ELSE <<>>

(* PREKEY_PUBLISH with the next n one-time prekeys of the client.          *)
PrekeyPublish(a, n) ==
  LET key == install[a]
      batch == [m \in 1..n |-> <<key, numbered[a] + m>>]
      all == PoolFor(a, key) \o batch
      kept == SubSeq(all, 1, IF Len(all) < PoolMax THEN Len(all) ELSE PoolMax)
  IN /\ numbered[a] + n <= MaxPrekeys
     /\ numbered' = [numbered EXCEPT ![a] = @ + n]
     /\ identityKey' = [identityKey EXCEPT ![a] = key]
     /\ pool' = [pool EXCEPT ![a] = kept]
     /\ WriteOrError(/\ diskKey' = [diskKey EXCEPT ![a] = key]
                     /\ diskPool' = [diskPool EXCEPT ![a] = LastById(kept)],
                     UNCHANGED <<diskKey, diskPool>>)
     /\ UNCHANGED <<install, access, diskAccess, handed, served, crashes>>

(* Mutant: the mirror keeps what was taken. *)
DiskAfterTakeKept(a, k) == diskPool[a]
DiskAfterTake(a, k) == {d \in diskPool[a] : d[2] # k[2]}

(* PREKEY_TAKE: one one-time prekey, if there is any left.                 *)
PrekeyTake(a) ==
  LET k == Head(pool[a]) IN
  /\ identityKey[a] # 0
  /\ IF pool[a] = <<>>
     THEN /\ served' = [served EXCEPT ![a] = <<identityKey[a], <<>>>>]
          /\ UNCHANGED <<pool, handed, diskPool, writeErrors>>
     ELSE /\ pool' = [pool EXCEPT ![a] = Tail(@)]
          /\ handed' = [handed EXCEPT ![a][k] = @ + 1]
          /\ served' = [served EXCEPT ![a] = <<identityKey[a], k>>]
          /\ WriteOrError(diskPool' = [diskPool EXCEPT ![a] = DiskAfterTake(a, k)],
                          UNCHANGED diskPool)
  /\ UNCHANGED <<install, numbered, identityKey, diskKey, access, diskAccess,
                 crashes>>

(* SEALED_UAK_SET *)
SealedUakSet(a, mode) ==
  /\ mode # access[a]
  /\ access' = [access EXCEPT ![a] = mode]
  /\ WriteOrError(diskAccess' = [diskAccess EXCEPT ![a] = mode],
                  UNCHANGED diskAccess)
  /\ UNCHANGED <<install, numbered, identityKey, pool, diskKey, diskPool,
                 handed, served, crashes>>

(* One-time prekeys in the order of their ids.                             *)
ById(keys) ==
  {q \in [1..Cardinality(keys) -> keys] :
     \A m, n \in DOMAIN q : m < n => q[m][2] < q[n][2]}

(* The broker restarts: allBundles and allSealedUaks.                      *)
Hydrate ==
  /\ crashes < MaxCrashes
  /\ crashes' = crashes + 1
  /\ identityKey' = diskKey
  /\ \E read \in [Accounts -> UNION {ById(diskPool[a]) : a \in Accounts}] :
       (\A a \in Accounts : read[a] \in ById(diskPool[a])) /\ pool' = read
  /\ access' = diskAccess
  /\ UNCHANGED <<install, numbered, diskKey, diskPool, diskAccess, handed,
                 served, writeErrors>>

PrekeyNext ==
  \/ \E a \in Accounts :
       \/ Reinstall(a) \/ PrekeyTake(a)
       \/ \E n \in 0..BatchMax : PrekeyPublish(a, n)
       \/ \E mode \in Modes \ {"unset"} : SealedUakSet(a, mode)
  \/ Hydrate

PrekeySpec == PrekeyInit /\ [][PrekeyNext]_prekeyVars

-----------------------------------------------------------------------------

PrekeyTypeOK ==
  /\ install \in [Accounts -> 1..MaxInstalls]
  /\ identityKey \in [Accounts -> 0..MaxInstalls]
  /\ pool \in [Accounts -> Seq(OneTime)]
  /\ diskPool \in [Accounts -> SUBSET OneTime]
  /\ access \in [Accounts -> Modes] /\ diskAccess \in [Accounts -> Modes]
  /\ \A a \in Accounts : Len(pool[a]) <= PoolMax

(* PREKEY_TAKE: "atomically consuming ONE one-time prekey so no two        *)
(* sessions reuse it", "a restart can't hand the same OTK out twice": as   *)
(* long as the mirror's writes succeed, no one-time prekey is taken twice, *)
(* whatever publications, installations, caps and restarts came between.   *)
TakenOnce ==
  writeErrors = 0 => \A a \in Accounts, k \in OneTime : handed[a][k] <= 1

(* A bundle never mixes two installations: the one-time prekey of an       *)
(* answer belongs to the identity key of the answer, after restarts and    *)
(* failed writes too (PREKEY_PUBLISH evicts, putBundle is a transaction).  *)
BundleIsOfOneIdentity ==
  \A a \in Accounts : served[a][2] # <<>> => served[a][2][1] = served[a][1]

(* "disk stays a true mirror of memory" (lib/prekey-store.js:110): until a *)
(* write fails, a restart finds exactly what is being served, and the      *)
(* sealed-sender access of every account.                                  *)
RestartFindsTheDirectory ==
  writeErrors = 0 =>
    /\ diskKey = identityKey /\ diskAccess = access
    /\ \A a \in Accounts : diskPool[a] = ToSet(pool[a])

(* The directory in memory and on disk is of its type, agrees, and serves   *)
(* bundles of one installation (PREKEY_PUBLISH, PREKEY_TAKE, hydration).    *)
DirectoryIsSound ==
  PrekeyTypeOK /\ BundleIsOfOneIdentity /\ RestartFindsTheDirectory
=============================================================================
