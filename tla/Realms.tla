------------------------------- MODULE Realms -------------------------------
(***************************************************************************)
(* Realms of one broker: their configuration and the commands that change  *)
(* it, and how a socket gets into one (lib/server.js:                       *)
(* applyAuthManagementCommand, sweepEphemeralRealms, authorize,            *)
(* AUTHENTICATION, validateToken, registrations, disconnect;               *)
(* lib/realm-keys.js).  Authentication is on.                              *)
(*                                                                         *)
(* A realm that is removed and added again is another realm of the same    *)
(* name: `ended' counts the ones before it.                                *)
(*                                                                         *)
(* Two things end later than they begin.  A token may be with an external  *)
(* validator, and the session that it opens is in the realm that was there *)
(* when it was asked for.  With Redis a message is stored, and a realm     *)
(* purged, by several commands, between which others take effect.          *)
(***************************************************************************)
EXTENDS Naturals, FiniteSets, FiniteSetsExt

CONSTANTS ConfiguredRealms,  \* realms that managers add and remove
          Default,           \* DEFAULT_REALM
          RSockets, RKeys, RTokens, NoKey,
          GracePeriod,       \* the grace of a rotation
          RealmTtl,          \* ttl of an ephemeral realm
          RealmStores,       \* stores to look at: "memory", "redis"
          Crossing,          \* whether realms are renamed while in use,
                             \* tokens are for other realms than asked for,
                             \* and a socket that waits for a validator asks
                             \* for another realm
          MaxRealmClock, MaxCommanded, MaxJoins,  \* bounds, the last one
          MaxTogether                             \* of commands and joins

ASSUME RealmsAssumption ==
  /\ Default \notin ConfiguredRealms   \* remove_realm refuses it
  /\ NoKey \notin RKeys /\ RKeys # {}
  /\ Crossing \in BOOLEAN /\ RealmStores \subseteq {"memory", "redis"}
  /\ GracePeriod \in Nat /\ RealmTtl \in Nat /\ MaxRealmClock \in Nat

Forever == MaxRealmClock + GracePeriod + RealmTtl + 1
AllRealms == ConfiguredRealms \cup {Default}
TheKey == CHOOSE k \in RKeys : TRUE

VARIABLES
  rclock,
  config,      \* auth.realms: by realm, its configuration
  granted,     \* auth.tokens: by token, the realm and role it is good for
  rsession,    \* by socket: tyoAuth
  wish,        \* by socket: _pendingRealm
  asking,      \* by socket: the external validation under way, if any
  bound,       \* by realm: sockets its registry holds as online
  kept,        \* by realm: realms (by birth) with messages in the store
  realmStore,  \* "memory" (or sqlite, which answers at once as well), "redis"
  storing,     \* enqueues under way, by the realm they are for
  purges,      \* purges under way, with the realms whose messages they found
  loose,       \* history: realms that ended while an enqueue or a
               \* validation for them was under way, or whose purge failed
  rsockets,    \* connected sockets
  commanded, joins,
  ended,       \* history: by name, how many realms that had it are gone
  promised     \* history: by realm and key, the time until which it is good

keptVars == <<kept, realmStore, storing, purges, loose>>
realmVars == <<rclock, config, granted, rsession, wish, asking, bound, keptVars,
               rsockets, commanded, joins, ended, promised>>

None == [realm |-> Default, role |-> "none", birth |-> 0]
Absent == [exists |-> FALSE]
Fresh0(required, key, expires) ==
  [exists |-> TRUE, required |-> required, key |-> key, prev |-> NoKey, until |-> 0,
   requireKey |-> "unset", acceptance |-> "unset", expires |-> expires]
NoPromise == [k \in RKeys |-> 0]

RealmInit ==
  /\ rclock = 0 /\ commanded = 0 /\ joins = 0
  /\ config = [r \in AllRealms |-> Absent]
  /\ granted = [t \in RTokens |-> None]
  /\ rsockets = RSockets
  /\ rsession = [s \in RSockets |-> None]
  /\ wish = [s \in RSockets |-> Default]
  /\ asking = [s \in RSockets |-> None]
  /\ bound = [r \in AllRealms |-> {}] /\ kept = [r \in AllRealms |-> {}]
  /\ realmStore \in RealmStores /\ storing = {} /\ purges = {} /\ loose = {}
  /\ ended = [r \in AllRealms |-> 0]
  /\ promised = [r \in AllRealms |-> NoPromise]

RealmTick ==
  /\ rclock < MaxRealmClock /\ rclock' = rclock + 1
  /\ UNCHANGED <<config, granted, rsession, wish, asking, bound, keptVars, rsockets,
                 commanded, joins, ended, promised>>

-----------------------------------------------------------------------------
(* What a realm asks of those who come *)

IsAuthRequiredForRealm(r) == config[r].exists => config[r].required

Explicit(setting, otherwise) ==
  CASE setting = "yes" -> TRUE [] setting = "no" -> FALSE [] OTHER -> otherwise

IsKeyRequiredForRealm(r) ==
  config[r].exists /\ Explicit(config[r].requireKey, config[r].key # NoKey)

IsAcceptanceRequiredForRealm(r) ==
  IF config[r].exists
  THEN Explicit(config[r].acceptance, IsAuthRequiredForRealm(r))
  ELSE TRUE

(* The current key, or the previous one inside its window.                 *)
(* Mutant: the window is not looked at. *)
RealmKeyAcceptedAlways(r, k) == config[r].exists /\ k \in {config[r].key, config[r].prev}
RealmKeyAccepted(r, k) ==
  /\ config[r].exists
  /\ k = config[r].key \/ (k = config[r].prev /\ config[r].until > rclock)

-----------------------------------------------------------------------------
(* applyAuthManagementCommand *)

Managing ==
  /\ commanded < MaxCommanded /\ commanded + joins < MaxTogether
  /\ commanded' = commanded + 1
  /\ UNCHANGED <<rclock, joins, wish, asking>>

AddRealm(r, required, k, expires) ==
  /\ ~config[r].exists /\ Managing
  /\ config' = [config EXCEPT ![r] = Fresh0(required, k, expires)]
  /\ promised' = [promised EXCEPT ![r] =
                    [x \in RKeys |-> IF x = k THEN Forever ELSE 0]]
  /\ UNCHANGED <<granted, rsession, bound, keptVars, rsockets, ended>>

(* A new key: with a grace the key that it replaces stays good for a time, *)
(* without one no other key is.                                            *)
(* Mutant: a rotation without grace leaves the previous key as it was. *)
RotatedLoosely(rc, k, grace) ==
  IF k # NoKey /\ grace > 0 /\ rc.key \notin {NoKey, k}
  THEN [rc EXCEPT !.prev = rc.key, !.until = rclock + grace, !.key = k]
  ELSE [rc EXCEPT !.key = k]
Rotated(rc, k, grace) ==
  IF k # NoKey /\ grace > 0 /\ rc.key \notin {NoKey, k}
  THEN [rc EXCEPT !.prev = rc.key, !.until = rclock + grace, !.key = k]
  ELSE [rc EXCEPT !.prev = NoKey, !.until = 0, !.key = k]

SetRealmKey(r, k, grace, requireKey) ==
  LET old == config[r].key IN
  /\ config[r].exists /\ Managing
  /\ config' = [config EXCEPT ![r] =
       [Rotated(config[r], k, grace) EXCEPT !.requireKey =
          IF requireKey = "unset" THEN @ ELSE requireKey]]
  /\ promised' = [promised EXCEPT ![r] = [x \in RKeys |->
       IF x = k THEN Forever
       ELSE IF k = old THEN @[x]
       ELSE IF x = old /\ k # NoKey THEN rclock + grace ELSE 0]]
  /\ UNCHANGED <<granted, rsession, bound, keptVars, rsockets, ended>>

(* set_realm_auth and set_realm_acceptance configure the realm if it is    *)
(* not; set_realm_lifetime does not.                                       *)
SetRealm(r, change) ==
  /\ Managing
  /\ config' = [config EXCEPT ![r] = change]
  /\ UNCHANGED <<granted, rsession, bound, keptVars, rsockets, ended, promised>>
Configured(r) == IF config[r].exists THEN config[r] ELSE Fresh0(TRUE, NoKey, Forever)

SetRealmAuth(r, required) ==
  SetRealm(r, [Configured(r) EXCEPT !.required = required])
SetRealmAcceptance(r, required) ==
  SetRealm(r, [Configured(r) EXCEPT !.acceptance = IF required THEN "yes" ELSE "no"])
SetRealmLifetime(r, expires) ==
  /\ config[r].exists
  /\ SetRealm(r, [config[r] EXCEPT !.expires = expires])

(* remove_realm: configuration, tokens, registry, sockets and messages.    *)
(* Mutant: the tokens stay. *)
TokensLeftAll(R) == granted
TokensLeft(R) ==
  [t \in RTokens |-> IF granted[t].realm \in R THEN None ELSE granted[t]]

(* Mutant: those that have registered are disconnected, not all in it. *)
EvictedRegistered(R) == {s \in rsockets : \E r \in R : s \in bound[r]}
Evicted(R) == {s \in rsockets : rsession[s].role # "none" /\ rsession[s].realm \in R}

(* purgeRealm: at once, or by commands that begin now; nobody waits for it. *)
StartPurge(R) ==
  IF realmStore = "memory"
  THEN /\ kept' = [r \in AllRealms |-> IF r \in R THEN {} ELSE kept[r]]
       /\ UNCHANGED purges
  ELSE /\ purges' = purges \cup
            {[realm |-> r, birth |-> ended[r], step |-> "scan", found |-> {}] : r \in R}
       /\ UNCHANGED kept

(* What was begun for realms of these names and has not come to its end. *)
UnderWay(R) ==
  {<<x.realm, x.birth>> :
     x \in {y \in storing \cup {asking[s] : s \in RSockets} : y.realm \in R}}

Dispose(R) ==
  /\ config' = [r \in AllRealms |-> IF r \in R THEN Absent ELSE config[r]]
  /\ granted' = TokensLeft(R)
  /\ bound' = [r \in AllRealms |-> IF r \in R THEN {} ELSE bound[r]]
  /\ rsockets' = rsockets \ Evicted(R)
  /\ rsession' = [s \in RSockets |-> IF s \in Evicted(R) THEN None ELSE rsession[s]]
  /\ StartPurge(R)
  /\ loose' = loose \cup UnderWay(R)
  /\ UNCHANGED <<realmStore, storing>>
  /\ promised' = [r \in AllRealms |-> IF r \in R THEN NoPromise ELSE promised[r]]
  /\ ended' = [r \in AllRealms |-> IF r \in R THEN ended[r] + 1 ELSE ended[r]]

RemoveRealm(r) == config[r].exists /\ Managing /\ Dispose({r})

(* sweepEphemeralRealms, every minute and at the start.                    *)
Lapsed == {r \in ConfiguredRealms : config[r].exists /\ config[r].expires <= rclock}
SweepEphemeralRealms ==
  /\ Lapsed # {} /\ Dispose(Lapsed)
  /\ UNCHANGED <<rclock, commanded, joins, wish, asking>>

(* rename_realm takes the tokens and the registry along, not the sockets   *)
(* that are in the realm nor its messages in the store.  The registry      *)
(* moves unless the new name has one already, be it empty.                 *)
RenameRealm(from, to) ==
  /\ config[from].exists /\ ~config[to].exists /\ Managing
  /\ Crossing \/ (bound[from] = {} /\ Evicted({from}) = {} /\ kept[from] = {})
  /\ config' = [config EXCEPT ![to] = config[from], ![from] = Absent]
  /\ granted' = [t \in RTokens |->
       IF granted[t].realm = from
       THEN [granted[t] EXCEPT !.realm = to, !.birth = ended[to]] ELSE granted[t]]
  /\ \E moved \in BOOLEAN :
       /\ moved => bound[to] = {}
       /\ bound' = IF moved THEN [bound EXCEPT ![to] = bound[from], ![from] = {}]
                  ELSE bound
  /\ ended' = [ended EXCEPT ![from] = @ + 1]
  /\ loose' = loose \cup UnderWay({from})
  /\ promised' = [promised EXCEPT ![to] = promised[from], ![from] = NoPromise]
  /\ UNCHANGED <<rsession, kept, realmStore, storing, purges, rsockets>>

(* A manager approves a request: the client gets a token (AuthRequests).   *)
GrantToken(t, r, role) ==
  /\ config[r].exists /\ granted[t] = None /\ Managing
  /\ granted' = [granted EXCEPT ![t] = [realm |-> r, role |-> role, birth |-> ended[r]]]
  /\ UNCHANGED <<config, rsession, bound, keptVars, rsockets, ended, promised>>

(* revoke_token: sessions it opened stay.                                  *)
RevokeToken(t) ==
  /\ granted[t] # None /\ Managing
  /\ granted' = [granted EXCEPT ![t] = None]
  /\ UNCHANGED <<config, rsession, bound, keptVars, rsockets, ended, promised>>

-----------------------------------------------------------------------------
(* Sockets *)

Joining ==
  /\ joins < MaxJoins /\ commanded + joins < MaxTogether
  /\ joins' = joins + 1
  /\ UNCHANGED <<rclock, config, granted, keptVars, rsockets, commanded, ended, promised>>
Unknown(s) == s \in rsockets /\ rsession[s] = None
Session(r, role) == [realm |-> r, role |-> role, birth |-> ended[r]]
(* While its token is with the validator, a client stays with its realm.   *)
MayAskFor(s, r) == Crossing \/ asking[s] = None \/ asking[s].realm = r

(* AUTHENTICATION without a token: an open realm, or the key and the       *)
(* acceptance that the role needs.  A refusal only remembers the realm.    *)
Welcome(r, role, k) ==
  \/ ~IsAuthRequiredForRealm(r)
  \/ /\ role \in {"consumer", "both"} /\ IsKeyRequiredForRealm(r) => RealmKeyAccepted(r, k)
     /\ role \in {"producer", "both"} => ~IsAcceptanceRequiredForRealm(r)

Authentication(s, r, role, k) ==
  /\ Unknown(s) /\ MayAskFor(s, r) /\ Joining
  /\ wish' = [wish EXCEPT ![s] = r]
  /\ rsession' = IF Welcome(r, role, k)
                 THEN [rsession EXCEPT ![s] = Session(r, role)] ELSE rsession
  /\ UNCHANGED <<asking, bound>>

(* AUTHENTICATION with a token that the broker knows is answered before    *)
(* another event; one that it does not know goes to an external validator. *)
AuthenticationByToken(s, r, t) ==
  /\ Unknown(s) /\ MayAskFor(s, r) /\ granted[t] # None /\ Joining
  /\ Crossing \/ granted[t].realm = r
  /\ wish' = [wish EXCEPT ![s] = r]
  /\ rsession' = [rsession EXCEPT ![s] = Session(granted[t].realm, granted[t].role)]
  /\ UNCHANGED <<asking, bound>>

ValidateExternalToken(s, r, realm, role) ==
  /\ Unknown(s) /\ asking[s] = None /\ Joining
  /\ Crossing \/ realm = r
  /\ wish' = [wish EXCEPT ![s] = r]
  /\ asking' = [asking EXCEPT ![s] = Session(realm, role)]
  /\ UNCHANGED <<rsession, bound>>

(* The validator answers: what the socket got in the meantime is replaced. *)
(* A realm that went in the meantime lets the socket in all the same: the  *)
(* session is in the realm that was there when the validator was asked.    *)
Validated(s, valid) ==
  /\ asking[s] # None
  /\ asking' = [asking EXCEPT ![s] = None]
  /\ rsession' = IF valid /\ s \in rsockets
                 THEN [rsession EXCEPT ![s] = asking[s]] ELSE rsession
  /\ UNCHANGED <<rclock, config, granted, wish, bound, keptVars, rsockets, commanded,
                 joins, ended, promised>>

(* authorize: the session a registration of that role leads to, if any.    *)
Authorize(s, role) ==
  LET r == wish[s] IN
  IF rsession[s] # None
  THEN IF ~IsAuthRequiredForRealm(rsession[s].realm)
            \/ rsession[s].role \in {"both", role}
       THEN rsession[s] ELSE None
  ELSE IF ~IsAuthRequiredForRealm(r) THEN Session(r, "both")
  ELSE IF \/ role = "consumer" /\ ~IsKeyRequiredForRealm(r)
          \/ role = "producer" /\ ~IsAcceptanceRequiredForRealm(r)
       THEN Session(r, role) ELSE None

(* CONSUMER or PRODUCER: the name is online in the registry of the realm.  *)
Register(s, role) ==
  /\ s \in rsockets /\ Authorize(s, role) # None /\ Joining
  /\ rsession' = [rsession EXCEPT ![s] = Authorize(s, role)]
  /\ bound' = [bound EXCEPT ![rsession'[s].realm] = @ \cup {s}]
  /\ UNCHANGED <<asking, wish>>

(* A durable message for somebody in the realm: in the memory or sqlite    *)
(* store at once; on its way to Redis it is found by nobody before the last *)
(* command, ZADD.                                                           *)
EnqueueDurable(s) ==
  LET x == Authorize(s, "producer") IN
  /\ s \in rsockets /\ x # None
  /\ IF realmStore = "memory"
     THEN /\ kept' = [kept EXCEPT ![x.realm] = @ \cup {x.birth}]
          /\ UNCHANGED storing
     ELSE /\ storing' = storing \cup {[realm |-> x.realm, birth |-> x.birth]}
          /\ UNCHANGED kept
  /\ rsession' = [rsession EXCEPT ![s] = x]
  /\ UNCHANGED <<rclock, config, granted, asking, wish, bound, realmStore, purges,
                 loose, rsockets, commanded, joins, ended, promised>>

InRedis ==
  UNCHANGED <<rclock, config, granted, rsession, asking, wish, bound, realmStore,
              rsockets, commanded, joins, ended, promised>>

(* ZADD takes effect, or one of the commands fails. *)
EnqueueEnds(x) ==
  /\ storing' = storing \ {x}
  /\ \/ kept' = [kept EXCEPT ![x.realm] = @ \cup {x.birth}]
     \/ UNCHANGED kept
  /\ UNCHANGED <<purges, loose>> /\ InRedis

(* SCAN finds the indexes of the realm's name, whichever realm's they are. *)
PurgeScans(p) ==
  /\ p.step = "scan"
  /\ purges' = (purges \ {p}) \cup {[p EXCEPT !.step = "found", !.found = kept[p.realm]]}
  /\ UNCHANGED <<kept, storing, loose>> /\ InRedis

(* What was found is deleted, and what came to the same indexes since.     *)
PurgeDeletes(p) ==
  /\ p.step = "found" /\ purges' = purges \ {p}
  /\ \E gone \in SUBSET kept[p.realm] :
       /\ p.found \cap kept[p.realm] \subseteq gone
       /\ kept' = [kept EXCEPT ![p.realm] = @ \ gone]
  /\ UNCHANGED <<storing, loose>> /\ InRedis

(* A command fails, which is logged: messages may be left.                 *)
PurgeFails(p) ==
  /\ purges' = purges \ {p}
  /\ loose' = loose \cup {<<p.realm, p.birth>>}
  /\ UNCHANGED <<kept, storing>> /\ InRedis

(* The handler looks at the realm the socket is in now.                    *)
(* Mutant: it looks at the default realm. *)
UnboundOfDefault(s) == [bound EXCEPT ![Default] = @ \ {s}]
Unbound(s) == [bound EXCEPT ![rsession[s].realm] = @ \ {s}]

RealmDisconnect(s) ==
  /\ s \in rsockets
  /\ rsockets' = rsockets \ {s}
  /\ bound' = Unbound(s)
  /\ rsession' = [rsession EXCEPT ![s] = None]
  /\ UNCHANGED <<rclock, config, granted, asking, wish, keptVars, commanded, joins,
                 ended, promised>>

Expiries == {Forever, rclock + RealmTtl}

(* Realms come and go, and their keys change.                              *)
RotateNext ==
  \/ RealmTick \/ SweepEphemeralRealms
  \/ \E r \in ConfiguredRealms :
       \/ RemoveRealm(r)
       \/ \E k \in RKeys \cup {NoKey} :
            \/ \E expires \in Expiries : AddRealm(r, TRUE, k, expires)
            \/ \E grace \in {0, GracePeriod} : SetRealmKey(r, k, grace, "unset")
       \/ \E expires \in Expiries : SetRealmLifetime(r, expires)
       \/ \E to \in ConfiguredRealms : RenameRealm(r, to)

(* Realms come and go, and sockets come to them.                           *)
ConnectRoles == {"producer", "consumer", "both"}
JoinNext ==
  \/ RealmTick \/ SweepEphemeralRealms
  \/ \E x \in storing : EnqueueEnds(x)
  \/ \E p \in purges : PurgeScans(p) \/ PurgeDeletes(p) \/ PurgeFails(p)
  \/ \E r \in ConfiguredRealms :
       \/ RemoveRealm(r)
       \/ \E required \in BOOLEAN :
            SetRealmAuth(r, required) \/ SetRealmAcceptance(r, required)
       \/ \E k \in {NoKey, TheKey}, expires \in Expiries : AddRealm(r, TRUE, k, expires)
       \/ \E q \in {"yes", "no"} : SetRealmKey(r, NoKey, 0, q)
       \/ \E to \in ConfiguredRealms : RenameRealm(r, to)
       \/ \E t \in RTokens, role \in {"producer", "both"} : GrantToken(t, r, role)
  \/ \E t \in RTokens : RevokeToken(t)
  \/ \E s \in RSockets :
       \/ RealmDisconnect(s) \/ EnqueueDurable(s)
       \/ \E role \in {"producer", "consumer"} : Register(s, role)
       \/ \E valid \in BOOLEAN : Validated(s, valid)
       \/ \E r \in AllRealms :
            \/ \E role \in ConnectRoles, k \in {NoKey, TheKey} : Authentication(s, r, role, k)
            \/ \E t \in RTokens : AuthenticationByToken(s, r, t)
            \/ \E realm \in AllRealms : ValidateExternalToken(s, r, realm, "both")

RealmNext == RotateNext \/ JoinNext
RealmSpec == RealmInit /\ [][RealmNext]_realmVars

-----------------------------------------------------------------------------

(* README.md:433-436, "dropped at the deadline or on the next rotation": a *)
(* key opens the realm only while it is the current one or within the      *)
(* grace of the one rotation that replaced it, whatever rotations, clears, *)
(* renames and removals follow (set_realm_key, realmKeyAccepted).          *)
NoKeyOutlivesItsGrace ==
  \A r \in AllRealms, k \in RKeys :
    RealmKeyAccepted(r, k) => promised[r][k] > rclock

(* README.md:433-436: "The previous secret keeps working until the window  *)
(* lapses ... and it is dropped at the deadline or on the next rotation."  *)
GraceIsHonoured ==
  \A r \in AllRealms, k \in RKeys :
    promised[r][k] > rclock => RealmKeyAccepted(r, k)

(* "a removed realm must not keep operating": the tokens of a realm are     *)
(* gone with it; so are its sessions, unless a validation was under way for *)
(* it when it ended, and its messages once it is purged, unless that failed *)
(* or an enqueue was under way for it.  No later realm of its name finds    *)
(* any of them (remove_realm, rename_realm, sweepEphemeralRealms).          *)
OfItsRealm(x) == x.birth = ended[x.realm]
Purging(r, b) == \E p \in purges : p.realm = r /\ p.birth = b
NothingOutlivesItsRealm ==
  /\ \A t \in RTokens : granted[t] # None => OfItsRealm(granted[t])
  /\ \A s \in RSockets :
       LET x == rsession[s]
       IN x # None => OfItsRealm(x) \/ <<x.realm, x.birth>> \in loose
  /\ \A r \in AllRealms : \A b \in kept[r] :
       b = ended[r] \/ <<r, b>> \in loose \/ Purging(r, b)

(* docs/EPHEMERAL-REALMS.md:198, "Expiry is a hard stop.  Connected sockets *)
(* are force-disconnected and reconnection fails auth": a validation that   *)
(* was under way refutes it.                                                *)
ExpiryIsAHardStop == \A s \in RSockets : rsession[s] # None => OfItsRealm(rsession[s])

(* docs/EPHEMERAL-REALMS.md:202, "Durable data dies with the realm": with   *)
(* Redis an enqueue that was under way, or a purge that failed, refutes it. *)
DurableDataDiesWithTheRealm ==
  \A r \in AllRealms : (\A p \in purges : p.realm # r) => kept[r] \subseteq {ended[r]}

(* And only with it: with Redis a purge that is under way when the name is  *)
(* given to another realm refutes it, which takes that realm's messages.    *)
OnlyItsDataDies ==
  [][\A r \in AllRealms : \A b \in kept[r] \ kept'[r] : b < ended'[r]]_realmVars

(* A name that a registry has online is held by a connected socket, so     *)
(* that messages for those who left are stored: a socket is not taken into *)
(* another realm after it registered (AUTHENTICATION, disconnect).         *)
OnlineIsConnected == \A r \in AllRealms : bound[r] \subseteq rsockets
=============================================================================
