---------------------------- MODULE KeyDirectory ----------------------------
(***************************************************************************)
(* The directory of end-to-end public keys in a cluster: KEY_PUBLISH on a  *)
(* broker changes its own directory and mirrors the identity's list to one *)
(* document in Redis, by a chain of read-modify-write jobs per broker; the *)
(* peers are told and adopt the document (mirrorKeyDirectoryToCluster,     *)
(* purgeRealmKeysFromCluster, renameRealmKeysInCluster and                 *)
(* adoptClusterKeys in lib/server.js; getE2eeKeys, putE2eeKeys and         *)
(* onE2eeKeysChange in lib/cluster.js).                                    *)
(*                                                                         *)
(* The list of an identity maps key ids to the number of the publication   *)
(* that set them, 0 when there is none: later ones replace earlier ones.   *)
(***************************************************************************)
EXTENDS Naturals, Sequences, FiniteSets

CONSTANTS
  KeyBrokers, KeyRealms, Owners, KeyIds,
  Publishers,       \* brokers that clients publish keys on
  LateBrokers,      \* brokers that join (and may rejoin) later
  MaxKeys,          \* E2EE_MAX_KEYS_PER_IDENTITY
  MaxPublications,  \* bound: KEY_PUBLISH
  MaxPurges         \* bound: removals and renames of realms

ASSUME KeyAssumption == MaxPublications \in Nat

Lists == [KeyIds -> 0..MaxPublications]
NoKeys == [k \in KeyIds |-> 0]
Directories == [KeyRealms -> [Owners -> Lists]]
NoDirectory == [r \in KeyRealms |-> [i \in Owners |-> NoKeys]]

VARIABLES
  keys,          \* by broker: realms[r].keys[i]
  keyDoc,        \* Redis: <prefix>:e2eekeys; an absent list has no keys
  chain,         \* by broker: keyDirectoryMirrorChain, the jobs not yet done
  job,           \* by broker: how far the first job is, and what it read
  toldKeys,      \* by broker: announcements not yet handled
  adoptions,     \* by broker: adoptClusterKeys under way: read or not
  joined,        \* by broker: subscribed and running
  publications, purges

keyVars == <<keys, keyDoc, chain, job, toldKeys, adoptions, joined,
             publications, purges>>

Idle == [step |-> "get", doc |-> NoDirectory]
Unread == [read |-> FALSE, doc |-> NoDirectory]

KeyInit ==
  /\ keys = [b \in KeyBrokers |-> NoDirectory]
  /\ keyDoc = NoDirectory
  /\ chain = [b \in KeyBrokers |-> <<>>]
  /\ job = [b \in KeyBrokers |-> Idle]
  /\ toldKeys = [b \in KeyBrokers |-> 0]
  /\ adoptions = [b \in KeyBrokers |-> <<>>]
  /\ joined = [b \in KeyBrokers |-> b \notin LateBrokers]
  /\ publications = 0 /\ purges = 0

Published(l) == {k \in KeyIds : l[k] # 0}

(* KEY_PUBLISH, with the cap on distinct key ids.  The job carries the     *)
(* list as it is now: the job of a later change follows it in the chain.   *)
KeyPublish(b, r, i, k) ==
  LET n == publications + 1
      list == [keys[b][r][i] EXCEPT ![k] = n]
  IN /\ b \in Publishers /\ joined[b] /\ n <= MaxPublications
     /\ keys[b][r][i][k] # 0 \/ Cardinality(Published(keys[b][r][i])) < MaxKeys
     /\ publications' = n
     /\ keys' = [keys EXCEPT ![b][r][i] = list]
     /\ chain' = [chain EXCEPT ![b] =
                    Append(@, [op |-> "mirror", realm |-> r, to |-> r, owner |-> i, list |-> list])]
     /\ UNCHANGED <<keyDoc, job, toldKeys, adoptions, joined, purges>>

(* remove_realm and rename_realm: the broker's own directory moves with    *)
(* the realm at once.                                                      *)
PurgeRealmKeys(b, r) ==
  /\ b \in Publishers /\ joined[b] /\ purges < MaxPurges
  /\ purges' = purges + 1
  /\ keys' = [keys EXCEPT ![b][r] = NoDirectory[r]]
  /\ chain' = [chain EXCEPT ![b] = Append(@,
       [op |-> "purge", realm |-> r, to |-> r])]
  /\ UNCHANGED <<keyDoc, job, toldKeys, adoptions, joined, publications>>

RenameRealmKeys(b, r, to) ==
  /\ b \in Publishers /\ joined[b] /\ purges < MaxPurges
  /\ r # to /\ keys[b][to] = NoDirectory[to]
  /\ purges' = purges + 1
  /\ keys' = [keys EXCEPT ![b][to] = keys[b][r], ![b][r] = NoDirectory[r]]
  /\ chain' = [chain EXCEPT ![b] = Append(@,
       [op |-> "rename", realm |-> r, to |-> to])]
  /\ UNCHANGED <<keyDoc, job, toldKeys, adoptions, joined, publications>>

-----------------------------------------------------------------------------
(* The first job of a broker's chain: GET, then SET and PUBLISH.           *)

GetKeys(b) ==
  /\ chain[b] # <<>> /\ job[b].step = "get"
  /\ job' = [job EXCEPT ![b] = [step |-> "act", doc |-> keyDoc]]
  /\ UNCHANGED <<keys, keyDoc, chain, toldKeys, adoptions, joined,
                 publications, purges>>

Changed(j, doc) ==
  CASE j.op = "mirror" -> [doc EXCEPT ![j.realm][j.owner] = j.list]
    [] j.op = "purge" -> [doc EXCEPT ![j.realm] = NoDirectory[j.realm]]
    [] j.op = "rename" ->
         [doc EXCEPT ![j.to] = IF @ = NoDirectory[j.to] THEN doc[j.realm] ELSE @,
                     ![j.realm] = NoDirectory[j.realm]]

(* Nothing is written when there is nothing to purge or rename.            *)
(* Mutant: nor when the realm is not in the document yet. *)
WritesIfKnown(j, doc) == doc[j.realm] # NoDirectory[j.realm]
Writes(j, doc) == j.op = "mirror" \/ doc[j.realm] # NoDirectory[j.realm]

NextJob(b) ==
  /\ chain' = [chain EXCEPT ![b] = Tail(@)]
  /\ job' = [job EXCEPT ![b] = Idle]

SkipJob(b) ==
  /\ chain[b] # <<>> /\ job[b].step = "act" /\ ~Writes(Head(chain[b]), job[b].doc)
  /\ NextJob(b)
  /\ UNCHANGED <<keys, keyDoc, toldKeys, adoptions, joined, publications, purges>>

PutKeys(b) ==
  /\ chain[b] # <<>> /\ job[b].step = "act" /\ Writes(Head(chain[b]), job[b].doc)
  /\ keyDoc' = Changed(Head(chain[b]), job[b].doc)
  /\ job' = [job EXCEPT ![b].step = "publish"]
  /\ UNCHANGED <<keys, chain, toldKeys, adoptions, joined, publications, purges>>

PublishChange(b) ==
  /\ chain[b] # <<>> /\ job[b].step = "publish"
  /\ toldKeys' = [p \in KeyBrokers |->
       IF p # b /\ joined[p] THEN toldKeys[p] + 1 ELSE toldKeys[p]]
  /\ NextJob(b)
  /\ UNCHANGED <<keys, keyDoc, adoptions, joined, publications, purges>>

-----------------------------------------------------------------------------
(* Peers: onE2eeKeysChange starts an adoption.  Replies come in order.     *)

OnKeysChange(b) ==
  /\ joined[b] /\ toldKeys[b] > 0
  /\ toldKeys' = [toldKeys EXCEPT ![b] = @ - 1]
  /\ adoptions' = [adoptions EXCEPT ![b] = Append(@, Unread)]
  /\ UNCHANGED <<keys, keyDoc, chain, job, joined, publications, purges>>

ReadForAdoption(b) ==
  /\ \E n \in DOMAIN adoptions[b] :
       /\ ~adoptions[b][n].read /\ \A m \in 1..(n - 1) : adoptions[b][m].read
       /\ adoptions' = [adoptions EXCEPT ![b][n] = [read |-> TRUE, doc |-> keyDoc]]
  /\ UNCHANGED <<keys, keyDoc, chain, job, toldKeys, joined, publications, purges>>

(* adoptClusterKeys: the lists of the document replace the broker's; what  *)
(* is not in the document stays.                                           *)
AdoptedKeys(mine, theirs) == IF theirs # NoKeys THEN theirs ELSE mine

AdoptClusterKeys(b) ==
  /\ adoptions[b] # <<>> /\ Head(adoptions[b]).read
  /\ keys' = [keys EXCEPT ![b] = [r \in KeyRealms |-> [i \in Owners |->
                AdoptedKeys(@[r][i], Head(adoptions[b]).doc[r][i])]]]
  /\ adoptions' = [adoptions EXCEPT ![b] = Tail(@)]
  /\ UNCHANGED <<keyDoc, chain, job, toldKeys, joined, publications, purges>>

(* initCluster subscribes first and then adopts the document.              *)
JoinCluster(b) ==
  /\ ~joined[b]
  /\ joined' = [joined EXCEPT ![b] = TRUE]
  /\ adoptions' = [adoptions EXCEPT ![b] = <<Unread>>]
  /\ UNCHANGED <<keys, keyDoc, chain, job, toldKeys, publications, purges>>

KeyNext ==
  \E b \in KeyBrokers :
    \/ \E r \in KeyRealms :
         \/ \E i \in Owners, k \in KeyIds : KeyPublish(b, r, i, k)
         \/ PurgeRealmKeys(b, r)
         \/ \E to \in KeyRealms : RenameRealmKeys(b, r, to)
    \/ GetKeys(b) \/ SkipJob(b) \/ PutKeys(b) \/ PublishChange(b)
    \/ OnKeysChange(b) \/ ReadForAdoption(b) \/ AdoptClusterKeys(b)
    \/ JoinCluster(b)

KeySpec == KeyInit /\ [][KeyNext]_keyVars

-----------------------------------------------------------------------------

KeyTypeOK ==
  /\ keys \in [KeyBrokers -> Directories]
  /\ keyDoc \in Directories
  /\ joined \in [KeyBrokers -> BOOLEAN]
  /\ publications \in 0..MaxPublications

KeyQuiet ==
  \A b \in KeyBrokers :
    joined[b] /\ chain[b] = <<>> /\ toldKeys[b] = 0 /\ adoptions[b] = <<>>

(* lib/cluster.js:184: "a KEY_LOOKUP on any node sees keys published on    *)
(* any other".  When all keys are published on one broker and nothing is   *)
(* under way, every broker finds the same keys for every identity in the   *)
(* document, and the publisher's own: no job of its chain undid another,   *)
(* and no adoption, that of a late broker included, was left with an older *)
(* document.                                                               *)
LookupsAgree ==
  KeyQuiet => \A b \in KeyBrokers, r \in KeyRealms, i \in Owners :
    /\ b \in Publishers => keys[b][r][i] = keyDoc[r][i]
    /\ keyDoc[r][i] # NoKeys => keys[b][r][i] = keyDoc[r][i]
=============================================================================
