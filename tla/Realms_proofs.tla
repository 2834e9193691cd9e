---------------------------- MODULE Realms_proofs ----------------------------
(***************************************************************************)
(* Proofs about realms, for any realms, keys, tokens and sockets, and any  *)
(* number of commands and joins.                                           *)
(***************************************************************************)
EXTENDS Realms, TLAPS

USE RealmsAssumption

Roles == {"none", "producer", "consumer", "both"}
Sessions == [realm : AllRealms, role : Roles, birth : Nat]
Enqueues == [realm : AllRealms, birth : Nat]
Purges ==
  [realm : AllRealms, birth : Nat, step : {"scan", "found"}, found : SUBSET Nat]
Settings == {"unset", "yes", "no"}
Configs ==
  [exists : {TRUE}, required : BOOLEAN, key : RKeys \cup {NoKey},
   prev : RKeys \cup {NoKey}, until : Nat, requireKey : Settings,
   acceptance : Settings, expires : Nat]

RealmTypeOK ==
  /\ rclock \in 0..MaxRealmClock
  /\ config \in [AllRealms -> Configs \cup {Absent}]
  /\ granted \in [RTokens -> Sessions]
  /\ rsession \in [RSockets -> Sessions]
  /\ wish \in [RSockets -> AllRealms]
  /\ asking \in [RSockets -> Sessions]
  /\ bound \in [AllRealms -> SUBSET RSockets]
  /\ kept \in [AllRealms -> SUBSET Nat] /\ realmStore \in {"memory", "redis"}
  /\ storing \subseteq Enqueues /\ purges \subseteq Purges
  /\ rsockets \subseteq RSockets
  /\ ended \in [AllRealms -> Nat]
  /\ promised \in [AllRealms -> [RKeys -> Nat]]

(* The current key is good for ever, the previous one to its deadline. *)
KeysInv ==
  \A r \in AllRealms :
    config[r].exists =>
      /\ config[r].key \in RKeys => promised[r][config[r].key] = Forever
      /\ config[r].prev \in RKeys => promised[r][config[r].prev] >= config[r].until

(* Whoever is in a realm has a role there, and a socket that has left is   *)
(* in none.                                                                *)
RolesInv ==
  /\ \A t \in RTokens : granted[t] # None => granted[t].role # "none"
  /\ \A s \in RSockets :
       /\ rsession[s] # None => rsession[s].role # "none" /\ s \in rsockets
       /\ asking[s] # None => asking[s].role # "none"

(* What a socket waits for is in the realm it asked for, and so is the     *)
(* session that it got meanwhile; a registry has online only those who are *)
(* in the realm.                                                           *)
PlaceInv ==
  /\ \A s \in RSockets :
       asking[s] # None =>
         /\ wish[s] = asking[s].realm
         /\ rsession[s] # None => rsession[s].realm = asking[s].realm
  /\ \A r \in AllRealms : \A s \in bound[r] :
       rsession[s] # None /\ rsession[s].realm = r

(* The inductive invariant about keys; InsideInv below is the other one.   *)
KeysIndInv == RealmTypeOK /\ KeysInv

-----------------------------------------------------------------------------
(* The steps of managers, brokers and sockets, by what they do.            *)
KeyOrNone == RKeys \cup {NoKey}
AddStep(r) ==
  \E k \in KeyOrNone, expires \in Nat : AddRealm(r, TRUE, k, expires)
KeyStep(r) ==
  \E k \in KeyOrNone, grace \in Nat, q \in Settings : SetRealmKey(r, k, grace, q)
SetStep(r) ==
  \E c \in Configs :
    /\ SetRealm(r, c)
    /\ c.key = Configured(r).key /\ c.prev = Configured(r).prev
    /\ c.until = Configured(r).until
DisposeStep ==
  \E R \in SUBSET ConfiguredRealms : Dispose(R) /\ UNCHANGED <<rclock, wish, asking>>
TokenStep ==
  \/ \E t \in RTokens, r \in ConfiguredRealms, role \in {"producer", "both"} :
       GrantToken(t, r, role)
  \/ \E t \in RTokens : RevokeToken(t)
JoinStep(s) ==
  \E r \in AllRealms :
    \/ \E role \in ConnectRoles, k \in KeyOrNone : Authentication(s, r, role, k)
    \/ \E t \in RTokens : AuthenticationByToken(s, r, t)
    \/ \E realm \in AllRealms : ValidateExternalToken(s, r, realm, "both")
SocketStep(s) ==
  \/ \E role \in {"producer", "consumer"} : Register(s, role)
  \/ EnqueueDurable(s) \/ RealmDisconnect(s)
  \/ \E valid \in BOOLEAN : Validated(s, valid)
RedisStep ==
  \/ \E x \in storing : EnqueueEnds(x)
  \/ \E p \in purges : PurgeScans(p) \/ PurgeDeletes(p) \/ PurgeFails(p)

(* A configuration with one setting changed is a configuration, and its    *)
(* keys are the same.                                                      *)
LEMMA ConfiguredType ==
  ASSUME RealmTypeOK, NEW r \in AllRealms
  PROVE  /\ Configured(r) \in Configs
         /\ config[r].exists => Configured(r) = config[r] /\ config[r] \in Configs
         /\ ~config[r].exists => Configured(r).key = NoKey /\ Configured(r).prev = NoKey
  <1>1. Forever \in Nat
    BY DEF Forever
  <1>2. config[r] \in Configs \cup {Absent} /\ ~Absent.exists
    BY DEF RealmTypeOK, Absent
  <1>3. Fresh0(TRUE, NoKey, Forever) \in Configs
    BY <1>1 DEF Fresh0, Configs, Settings
  <1>4. Fresh0(TRUE, NoKey, Forever).key = NoKey /\ Fresh0(TRUE, NoKey, Forever).prev = NoKey
    BY DEF Fresh0
  <1> QED BY <1>2, <1>3, <1>4 DEF Configured

(* Every step of the specification is one of them. *)
LEMMA RealmSteps ==
  ASSUME RealmTypeOK, RealmNext
  PROVE  \/ RealmTick \/ DisposeStep \/ TokenStep
         \/ \E r \in ConfiguredRealms : AddStep(r) \/ KeyStep(r) \/ SetStep(r)
         \/ \E r, to \in ConfiguredRealms : RenameRealm(r, to)
         \/ \E s \in RSockets : JoinStep(s) \/ SocketStep(s)
         \/ RedisStep
  <1>1. Expiries \subseteq Nat /\ 0 \in Nat /\ GracePeriod \in Nat
    BY DEF Expiries, Forever, RealmTypeOK
  <1>2. TheKey \in KeyOrNone /\ NoKey \in KeyOrNone /\ "unset" \in Settings
        /\ {"yes", "no"} \subseteq Settings
    BY DEF TheKey, KeyOrNone, Settings
  <1>3. ASSUME NEW r \in ConfiguredRealms, RemoveRealm(r) PROVE DisposeStep
    BY <1>3 DEF RemoveRealm, DisposeStep, Managing
  <1>4. ASSUME SweepEphemeralRealms PROVE DisposeStep
    BY <1>4 DEF SweepEphemeralRealms, DisposeStep, Lapsed
  <1>5. ASSUME NEW r \in ConfiguredRealms, NEW required \in BOOLEAN,
               SetRealmAuth(r, required)
        PROVE  SetStep(r)
    <2> DEFINE c == [Configured(r) EXCEPT !.required = required]
    <2>1. /\ c \in Configs /\ c.key = Configured(r).key
          /\ c.prev = Configured(r).prev /\ c.until = Configured(r).until
      BY ConfiguredType DEF Configs, AllRealms
    <2>2. SetRealm(r, c)
      BY <1>5 DEF SetRealmAuth
    <2> QED BY <2>1, <2>2 DEF SetStep
  <1>6. ASSUME NEW r \in ConfiguredRealms, NEW required \in BOOLEAN,
               SetRealmAcceptance(r, required)
        PROVE  SetStep(r)
    <2> DEFINE a == IF required THEN "yes" ELSE "no"
               c == [Configured(r) EXCEPT !.acceptance = a]
    <2>1. a \in Settings
      BY DEF Settings
    <2>2. SetRealm(r, c)
      BY <1>6 DEF SetRealmAcceptance
    <2> HIDE DEF a
    <2>3. /\ c \in Configs /\ c.key = Configured(r).key
          /\ c.prev = Configured(r).prev /\ c.until = Configured(r).until
      BY <2>1, ConfiguredType DEF Configs, AllRealms
    <2> QED BY <2>2, <2>3 DEF SetStep
  <1>7. ASSUME NEW r \in ConfiguredRealms, NEW expires \in Nat,
               SetRealmLifetime(r, expires)
        PROVE  SetStep(r)
    <2> DEFINE c == [config[r] EXCEPT !.expires = expires]
    <2>1. config[r].exists /\ SetRealm(r, c)
      BY <1>7 DEF SetRealmLifetime
    <2>2. Configured(r) = config[r] /\ config[r] \in Configs
      BY <2>1, ConfiguredType DEF AllRealms
    <2>3. /\ c \in Configs /\ c.key = Configured(r).key
          /\ c.prev = Configured(r).prev /\ c.until = Configured(r).until
      BY <2>2 DEF Configs
    <2> QED BY <2>1, <2>3 DEF SetStep
  <1>8. ASSUME NEW r \in ConfiguredRealms, NEW k \in KeyOrNone, NEW expires \in Expiries,
               AddRealm(r, TRUE, k, expires)
        PROVE  AddStep(r)
    BY <1>1, <1>8 DEF AddStep
  <1>9. ASSUME NEW r \in ConfiguredRealms, NEW k \in KeyOrNone, NEW grace \in Nat,
               NEW q \in Settings, SetRealmKey(r, k, grace, q)
        PROVE  KeyStep(r)
    BY <1>9 DEF KeyStep
  <1>10. ASSUME RotateNext
         PROVE  \/ RealmTick \/ DisposeStep
                \/ \E r \in ConfiguredRealms : AddStep(r) \/ KeyStep(r) \/ SetStep(r)
                \/ \E r, to \in ConfiguredRealms : RenameRealm(r, to)
    <2>1. CASE RealmTick \/ SweepEphemeralRealms
      BY <2>1, <1>4
    <2>2. ASSUME NEW r \in ConfiguredRealms, RemoveRealm(r) PROVE DisposeStep
      BY <2>2, <1>3
    <2>3. ASSUME NEW r \in ConfiguredRealms, NEW k \in RKeys \cup {NoKey},
                 \/ \E expires \in Expiries : AddRealm(r, TRUE, k, expires)
                 \/ \E grace \in {0, GracePeriod} : SetRealmKey(r, k, grace, "unset")
          PROVE  AddStep(r) \/ KeyStep(r)
      BY <2>3, <1>1, <1>2, <1>8, <1>9 DEF KeyOrNone
    <2>4. ASSUME NEW r \in ConfiguredRealms, NEW expires \in Expiries,
                 SetRealmLifetime(r, expires)
          PROVE  SetStep(r)
      BY <2>4, <1>1, <1>7
    <2> QED BY <1>10, <2>1, <2>2, <2>3, <2>4 DEF RotateNext
  <1>11. ASSUME JoinNext
         PROVE  \/ RealmTick \/ DisposeStep \/ TokenStep
                \/ \E r \in ConfiguredRealms : AddStep(r) \/ KeyStep(r) \/ SetStep(r)
                \/ \E r, to \in ConfiguredRealms : RenameRealm(r, to)
                \/ \E s \in RSockets : JoinStep(s) \/ SocketStep(s)
                \/ RedisStep
    <2>1. CASE RealmTick \/ SweepEphemeralRealms
      BY <2>1, <1>4
    <2>2. ASSUME NEW r \in ConfiguredRealms, RemoveRealm(r) PROVE DisposeStep
      BY <2>2, <1>3
    <2>3. ASSUME NEW r \in ConfiguredRealms, NEW required \in BOOLEAN,
                 SetRealmAuth(r, required) \/ SetRealmAcceptance(r, required)
          PROVE  SetStep(r)
      BY <2>3, <1>5, <1>6
    <2>4. ASSUME NEW r \in ConfiguredRealms, NEW k \in {NoKey, TheKey},
                 NEW expires \in Expiries, AddRealm(r, TRUE, k, expires)
          PROVE  AddStep(r)
      BY <2>4, <1>2, <1>8
    <2>5. ASSUME NEW r \in ConfiguredRealms, NEW q \in {"yes", "no"},
                 SetRealmKey(r, NoKey, 0, q)
          PROVE  KeyStep(r)
      BY <2>5, <1>1, <1>2, <1>9
    <2>6. ASSUME \/ \E t \in RTokens : RevokeToken(t)
                 \/ \E r \in ConfiguredRealms, t \in RTokens, role \in {"producer", "both"} :
                       GrantToken(t, r, role)
          PROVE  TokenStep
      BY <2>6 DEF TokenStep
    <2>7. ASSUME NEW s \in RSockets, NEW r \in AllRealms,
            \/ \E role \in ConnectRoles, k \in {NoKey, TheKey} : Authentication(s, r, role, k)
            \/ \E t \in RTokens : AuthenticationByToken(s, r, t)
            \/ \E realm \in AllRealms : ValidateExternalToken(s, r, realm, "both")
          PROVE  JoinStep(s)
      BY <2>7, <1>2 DEF JoinStep
    <2>8. ASSUME NEW s \in RSockets,
            \/ RealmDisconnect(s) \/ EnqueueDurable(s)
            \/ \E role \in {"producer", "consumer"} : Register(s, role)
            \/ \E valid \in BOOLEAN : Validated(s, valid)
          PROVE  SocketStep(s)
      BY <2>8 DEF SocketStep
    <2>9. ASSUME \/ \E x \in storing : EnqueueEnds(x)
                 \/ \E p \in purges : PurgeScans(p) \/ PurgeDeletes(p) \/ PurgeFails(p)
          PROVE  RedisStep
      BY <2>9 DEF RedisStep
    <2> QED BY <1>11, <2>1, <2>2, <2>3, <2>4, <2>5, <2>6, <2>7, <2>8, <2>9 DEF JoinNext
  <1> QED BY <1>10, <1>11 DEF RealmNext


-----------------------------------------------------------------------------
(* A rotated configuration is one, with the new key; the one before stays  *)
(* only with a grace, and to its end.                                      *)
LEMMA RotatedType ==
  ASSUME RealmTypeOK, NEW rc \in Configs, NEW k \in KeyOrNone, NEW grace \in Nat
  PROVE  /\ Rotated(rc, k, grace) \in Configs /\ Rotated(rc, k, grace).key = k
         /\ \/ Rotated(rc, k, grace).prev = NoKey
            \/ /\ k # NoKey /\ k # rc.key
               /\ Rotated(rc, k, grace).prev = rc.key
               /\ Rotated(rc, k, grace).until = rclock + grace
  <1>1. rclock + grace \in Nat
    BY DEF RealmTypeOK
  <1>2. CASE k # NoKey /\ grace > 0 /\ rc.key \notin {NoKey, k}
    <2> DEFINE r1 == [rc EXCEPT !.prev = rc.key]
               r2 == [r1 EXCEPT !.until = rclock + grace]
               r3 == [r2 EXCEPT !.key = k]
    <2>1. r1 \in Configs /\ r1.prev = rc.key
      BY DEF Configs
    <2> HIDE DEF r1
    <2>2. r2 \in Configs /\ r2.prev = rc.key /\ r2.until = rclock + grace
      BY <1>1, <2>1 DEF Configs
    <2> HIDE DEF r2
    <2>3. r3 \in Configs /\ r3.prev = rc.key /\ r3.until = rclock + grace /\ r3.key = k
      BY <2>2 DEF Configs, KeyOrNone
    <2>4. Rotated(rc, k, grace) = r3
      BY <1>2 DEF Rotated, r1, r2
    <2> QED BY <1>2, <2>3, <2>4
  <1>3. CASE ~(k # NoKey /\ grace > 0 /\ rc.key \notin {NoKey, k})
    <2> DEFINE r1 == [rc EXCEPT !.prev = NoKey]
               r2 == [r1 EXCEPT !.until = 0]
               r3 == [r2 EXCEPT !.key = k]
    <2>1. r1 \in Configs /\ r1.prev = NoKey
      BY DEF Configs
    <2> HIDE DEF r1
    <2>2. r2 \in Configs /\ r2.prev = NoKey
      BY <2>1 DEF Configs
    <2> HIDE DEF r2
    <2>3. r3 \in Configs /\ r3.prev = NoKey /\ r3.key = k
      BY <2>2 DEF Configs, KeyOrNone
    <2>4. Rotated(rc, k, grace) = r3
      BY <1>3 DEF Rotated, r1, r2
    <2> QED BY <2>3, <2>4
  <1> QED BY <1>2, <1>3

(* What set_realm_key leaves: a configuration with the keys of Rotated. *)
LEMMA KeyStepEffect ==
  ASSUME RealmTypeOK, NEW r \in ConfiguredRealms, KeyStep(r)
  PROVE  \E k \in KeyOrNone, grace \in Nat, c \in Configs :
           /\ config[r] \in Configs /\ config' = [config EXCEPT ![r] = c]
           /\ c.key = k
           /\ \/ c.prev = NoKey
              \/ /\ k # NoKey /\ k # config[r].key
                 /\ c.prev = config[r].key /\ c.until = rclock + grace
           /\ promised' = [promised EXCEPT ![r] = [x \in RKeys |->
                IF x = k THEN Forever
                ELSE IF k = config[r].key THEN promised[r][x]
                ELSE IF x = config[r].key /\ k # NoKey THEN rclock + grace ELSE 0]]
           /\ UNCHANGED <<rclock, granted, rsession, wish, asking, bound, keptVars,
                          rsockets, ended>>
  <1>1. PICK k \in KeyOrNone, grace \in Nat, q \in Settings : SetRealmKey(r, k, grace, q)
    BY DEF KeyStep
  <1>2. r \in AllRealms /\ config[r] \in Configs
    BY <1>1, ConfiguredType DEF SetRealmKey, AllRealms
  <1> DEFINE rot == Rotated(config[r], k, grace)
             rq == IF q = "unset" THEN rot.requireKey ELSE q
             c == [rot EXCEPT !.requireKey = rq]
  <1>3. /\ rot \in Configs /\ rot.key = k
        /\ \/ rot.prev = NoKey
           \/ /\ k # NoKey /\ k # config[r].key /\ rot.prev = config[r].key
              /\ rot.until = rclock + grace
    BY <1>2, RotatedType
  <1>4. config' = [config EXCEPT ![r] = c]
    BY <1>1 DEF SetRealmKey
  <1> HIDE DEF rot
  <1>5. rq \in Settings
    BY <1>3 DEF Configs
  <1> HIDE DEF rq
  <1>6. c \in Configs /\ c.key = rot.key /\ c.prev = rot.prev /\ c.until = rot.until
    BY <1>3, <1>5 DEF Configs
  <1> HIDE DEF c
  <1>7. promised' = [promised EXCEPT ![r] = [x \in RKeys |->
                IF x = k THEN Forever
                ELSE IF k = config[r].key THEN promised[r][x]
                ELSE IF x = config[r].key /\ k # NoKey THEN rclock + grace ELSE 0]]
    BY <1>1, <1>2 DEF SetRealmKey, RealmTypeOK
  <1>8. UNCHANGED <<rclock, granted, rsession, wish, asking, bound, keptVars,
                    rsockets, ended>>
    BY <1>1 DEF SetRealmKey, Managing
  <1> QED BY <1>2, <1>3, <1>4, <1>6, <1>7, <1>8

(* A registration: the session stays, or it is one in the realm asked for. *)
LEMMA AuthorizeType ==
  ASSUME RealmTypeOK, NEW s \in RSockets, NEW role \in {"producer", "consumer"},
         Authorize(s, role) # None
  PROVE  /\ Authorize(s, role) \in Sessions
         /\ rsession[s] # None => Authorize(s, role) = rsession[s]
         /\ rsession[s] = None => /\ Authorize(s, role).realm = wish[s]
                                  /\ Authorize(s, role).birth = ended[wish[s]]
                                  /\ Authorize(s, role).role # "none"
  <1>1. wish[s] \in AllRealms /\ ended[wish[s]] \in Nat /\ rsession[s] \in Sessions
    BY DEF RealmTypeOK
  <1>2. ASSUME NEW any \in {"both", role}
        PROVE  /\ Session(wish[s], any) \in Sessions /\ Session(wish[s], any).realm = wish[s]
               /\ Session(wish[s], any).birth = ended[wish[s]]
               /\ Session(wish[s], any).role # "none"
    BY <1>1 DEF Session, Sessions, Roles
  <1> QED BY <1>1, <1>2 DEF Authorize

(* Types are kept by every step. *)
LEMMA RealmTypeStep ==
  ASSUME RealmTypeOK, [RealmNext]_realmVars PROVE RealmTypeOK'
  <1>0. Forever \in Nat /\ None \in Sessions /\ NoPromise \in [RKeys -> Nat]
    BY DEF Forever, None, Sessions, Roles, NoPromise, AllRealms
  <1>1. CASE RealmTick
    BY <1>1 DEF RealmTick, RealmTypeOK, keptVars
  <1>2. CASE DisposeStep
    <2>1. PICK R \in SUBSET ConfiguredRealms :
            Dispose(R) /\ UNCHANGED <<rclock, wish, asking>>
      BY <1>2 DEF DisposeStep
    <2>2. granted' \in [RTokens -> Sessions]
      BY <1>0, <2>1 DEF Dispose, TokensLeft, RealmTypeOK
    <2>3. kept' \in [AllRealms -> SUBSET Nat] /\ purges' \subseteq Purges
      <3>1. \A r \in AllRealms :
              [realm |-> r, birth |-> ended[r], step |-> "scan", found |-> {}] \in Purges
        BY DEF Purges, RealmTypeOK
      <3>2. \A r \in R : r \in AllRealms
        BY DEF AllRealms
      <3> DEFINE P == {[realm |-> r, birth |-> ended[r], step |-> "scan", found |-> {}]
                         : r \in R}
      <3>3. P \subseteq Purges
        BY <3>1, <3>2
      <3>4. \/ /\ kept' = [r \in AllRealms |-> IF r \in R THEN {} ELSE kept[r]]
               /\ UNCHANGED purges
            \/ purges' = purges \cup P /\ UNCHANGED kept
        BY <2>1 DEF Dispose, StartPurge
      <3> HIDE DEF P
      <3> QED BY <3>3, <3>4 DEF RealmTypeOK
    <2>4. UNCHANGED <<realmStore, storing>>
      BY <2>1 DEF Dispose
    <2> QED BY <1>0, <2>1, <2>2, <2>3, <2>4 DEF Dispose, RealmTypeOK
  <1>3. CASE TokenStep
    <2>1. /\ UNCHANGED <<rclock, config, rsession, wish, asking, bound, keptVars, rsockets,
                         ended, promised>>
          /\ \E t \in RTokens, x \in Sessions : granted' = [granted EXCEPT ![t] = x]
      <3>1. ASSUME NEW t \in RTokens, NEW r \in ConfiguredRealms,
                   NEW role \in {"producer", "both"}, GrantToken(t, r, role)
            PROVE  \E x \in Sessions : granted' = [granted EXCEPT ![t] = x]
        <4>1. [realm |-> r, role |-> role, birth |-> ended[r]] \in Sessions
          BY DEF Sessions, Roles, RealmTypeOK, AllRealms
        <4> QED BY <3>1, <4>1 DEF GrantToken
      <3> QED BY <1>0, <1>3, <3>1 DEF TokenStep, GrantToken, RevokeToken, Managing
    <2> QED BY <2>1 DEF RealmTypeOK, keptVars
  <1>4. ASSUME NEW r \in ConfiguredRealms, AddStep(r) PROVE RealmTypeOK'
    <2>1. PICK k \in KeyOrNone, expires \in Nat : AddRealm(r, TRUE, k, expires)
      BY <1>4 DEF AddStep
    <2>2. Fresh0(TRUE, k, expires) \in Configs
      BY DEF Fresh0, Configs, Settings, KeyOrNone
    <2>3. [x \in RKeys |-> IF x = k THEN Forever ELSE 0] \in [RKeys -> Nat]
      BY <1>0
    <2> QED BY <2>1, <2>2, <2>3 DEF AddRealm, Managing, RealmTypeOK, keptVars
  <1>5. ASSUME NEW r \in ConfiguredRealms, KeyStep(r) PROVE RealmTypeOK'
    <2>1. PICK k \in KeyOrNone, grace \in Nat, c \in Configs :
           /\ config' = [config EXCEPT ![r] = c]
           /\ promised' = [promised EXCEPT ![r] = [x \in RKeys |->
                IF x = k THEN Forever
                ELSE IF k = config[r].key THEN promised[r][x]
                ELSE IF x = config[r].key /\ k # NoKey THEN rclock + grace ELSE 0]]
           /\ UNCHANGED <<rclock, granted, rsession, wish, asking, bound, keptVars,
                          rsockets, ended>>
      BY <1>5, KeyStepEffect
    <2>2. rclock + grace \in Nat /\ r \in AllRealms
      BY DEF RealmTypeOK, AllRealms
    <2>3. [x \in RKeys |->
                IF x = k THEN Forever
                ELSE IF k = config[r].key THEN promised[r][x]
                ELSE IF x = config[r].key /\ k # NoKey THEN rclock + grace ELSE 0]
            \in [RKeys -> Nat]
      BY <1>0, <2>2 DEF RealmTypeOK
    <2> QED BY <2>1, <2>3 DEF RealmTypeOK, keptVars
  <1>6. ASSUME NEW r \in ConfiguredRealms, SetStep(r) PROVE RealmTypeOK'
    <2>1. PICK c \in Configs : SetRealm(r, c)
      BY <1>6 DEF SetStep
    <2>2. /\ config' = [config EXCEPT ![r] = c]
          /\ UNCHANGED <<rclock, granted, rsession, wish, asking, bound, keptVars,
                         rsockets, ended, promised>>
      BY <2>1 DEF SetRealm, Managing
    <2> QED BY <2>2 DEF RealmTypeOK, keptVars
  <1>7. ASSUME NEW from \in ConfiguredRealms, NEW to \in ConfiguredRealms,
               RenameRealm(from, to)
        PROVE  RealmTypeOK'
    <2>0. from \in AllRealms /\ to \in AllRealms /\ ended[to] \in Nat
          /\ ended[from] + 1 \in Nat /\ \A t \in RTokens : granted[t] \in Sessions
      BY DEF AllRealms, RealmTypeOK
    <2>1. granted' \in [RTokens -> Sessions]
      <3>1. \A t \in RTokens :
              [[granted[t] EXCEPT !.realm = to] EXCEPT !.birth = ended[to]] \in Sessions
        BY <2>0 DEF Sessions
      <3>2. \A t \in RTokens : [granted[t] EXCEPT !.realm = to, !.birth = ended[to]]
                                 = [[granted[t] EXCEPT !.realm = to] EXCEPT !.birth = ended[to]]
        OBVIOUS
      <3>3. \A t \in RTokens :
              [granted[t] EXCEPT !.realm = to, !.birth = ended[to]] \in Sessions
        BY <3>1, <3>2
      <3> QED BY <1>7, <3>3 DEF RenameRealm, RealmTypeOK
    <2>2. bound' \in [AllRealms -> SUBSET RSockets]
      <3>1. \/ UNCHANGED bound
            \/ bound' = [bound EXCEPT ![to] = bound[from], ![from] = {}]
        BY <1>7 DEF RenameRealm
      <3> QED BY <2>0, <3>1 DEF RealmTypeOK
    <2>3. config' \in [AllRealms -> Configs \cup {Absent}]
          /\ promised' \in [AllRealms -> [RKeys -> Nat]] /\ ended' \in [AllRealms -> Nat]
      <3>1. /\ config' = [config EXCEPT ![to] = config[from], ![from] = Absent]
            /\ promised' = [promised EXCEPT ![to] = promised[from], ![from] = NoPromise]
            /\ ended' = [ended EXCEPT ![from] = ended[from] + 1]
        BY <1>7 DEF RenameRealm
      <3> QED BY <1>0, <2>0, <3>1 DEF RealmTypeOK
    <2> QED BY <1>7, <2>1, <2>2, <2>3 DEF RenameRealm, Managing, RealmTypeOK
  <1>8. ASSUME NEW s \in RSockets, JoinStep(s) PROVE RealmTypeOK'
    <2>1. PICK r \in AllRealms :
            \/ \E role \in ConnectRoles, k \in KeyOrNone : Authentication(s, r, role, k)
            \/ \E t \in RTokens : AuthenticationByToken(s, r, t)
            \/ \E realm \in AllRealms : ValidateExternalToken(s, r, realm, "both")
      BY <1>8 DEF JoinStep
    <2>2. \A realm \in AllRealms, role \in Roles : Session(realm, role) \in Sessions
      BY DEF Session, Sessions, RealmTypeOK
    <2>3. ConnectRoles \subseteq Roles /\ "both" \in Roles
          /\ \A t \in RTokens : granted[t].realm \in AllRealms /\ granted[t].role \in Roles
      BY DEF ConnectRoles, Roles, RealmTypeOK, Sessions
    <2>4. /\ UNCHANGED <<rclock, config, granted, bound, keptVars, rsockets, ended, promised>>
          /\ wish' = [wish EXCEPT ![s] = r]
          /\ UNCHANGED rsession \/ \E x \in Sessions : rsession' = [rsession EXCEPT ![s] = x]
          /\ UNCHANGED asking \/ \E x \in Sessions : asking' = [asking EXCEPT ![s] = x]
      BY <2>1, <2>2, <2>3 DEF Authentication, AuthenticationByToken,
                              ValidateExternalToken, Joining
    <2>5. rsession' \in [RSockets -> Sessions] /\ asking' \in [RSockets -> Sessions]
      <3>1. rsession \in [RSockets -> Sessions] /\ asking \in [RSockets -> Sessions]
        BY DEF RealmTypeOK
      <3>2. rsession' \in [RSockets -> Sessions]
        BY <2>4, <3>1
      <3> QED BY <2>4, <3>1, <3>2
    <2>6. wish' \in [RSockets -> AllRealms]
      BY <2>4 DEF RealmTypeOK
    <2> QED BY <2>4, <2>5, <2>6 DEF RealmTypeOK, keptVars
  <1>9. ASSUME NEW s \in RSockets, SocketStep(s) PROVE RealmTypeOK'
    <2>1. ASSUME NEW role \in {"producer", "consumer"}, Register(s, role)
          PROVE  RealmTypeOK'
      <3>1. Authorize(s, role) \in Sessions /\ Authorize(s, role).realm \in AllRealms
        BY <2>1, AuthorizeType DEF Register, Sessions
      <3>2. /\ rsession' = [rsession EXCEPT ![s] = Authorize(s, role)]
            /\ rsession'[s] = Authorize(s, role)
        BY <2>1 DEF Register, RealmTypeOK
      <3>3. bound' = [bound EXCEPT ![Authorize(s, role).realm] = @ \cup {s}]
        BY <2>1, <3>2 DEF Register
      <3> QED BY <2>1, <3>1, <3>2, <3>3 DEF Register, Joining, RealmTypeOK, keptVars
    <2>2. CASE EnqueueDurable(s)
      <3>1. /\ Authorize(s, "producer") \in Sessions
            /\ Authorize(s, "producer").realm \in AllRealms
        BY <2>2, AuthorizeType DEF EnqueueDurable, Sessions
      <3> DEFINE x == Authorize(s, "producer")
      <3>2. x.birth \in Nat /\ [realm |-> x.realm, birth |-> x.birth] \in Enqueues
        BY <3>1 DEF Sessions, Enqueues
      <3>3. kept' \in [AllRealms -> SUBSET Nat] /\ storing' \subseteq Enqueues
        BY <2>2, <3>1, <3>2 DEF EnqueueDurable, RealmTypeOK
      <3>4. rsession' \in [RSockets -> Sessions]
        BY <2>2, <3>1 DEF EnqueueDurable, RealmTypeOK
      <3>5. UNCHANGED <<rclock, config, granted, asking, wish, bound, realmStore,
                        purges, rsockets, ended, promised>>
        BY <2>2 DEF EnqueueDurable
      <3> QED BY <3>3, <3>4, <3>5 DEF RealmTypeOK
    <2>3. CASE RealmDisconnect(s)
      BY <1>0, <2>3 DEF RealmDisconnect, Unbound, RealmTypeOK, keptVars
    <2>4. ASSUME NEW valid \in BOOLEAN, Validated(s, valid) PROVE RealmTypeOK'
      BY <1>0, <2>4 DEF Validated, RealmTypeOK, keptVars
    <2> QED BY <1>9, <2>1, <2>2, <2>3, <2>4 DEF SocketStep
  <1>10. CASE UNCHANGED realmVars
    BY <1>10 DEF realmVars, keptVars, RealmTypeOK
  <1>11. CASE RedisStep
    <2>1. ASSUME NEW x \in storing, EnqueueEnds(x) PROVE RealmTypeOK'
      <3>1. x.realm \in AllRealms /\ x.birth \in Nat
        BY DEF RealmTypeOK, Enqueues
      <3>2. kept' \in [AllRealms -> SUBSET Nat]
        BY <2>1, <3>1 DEF EnqueueEnds, RealmTypeOK
      <3> QED BY <2>1, <3>2 DEF EnqueueEnds, InRedis, RealmTypeOK
    <2>2. ASSUME NEW p \in purges, PurgeScans(p) PROVE RealmTypeOK'
      <3>1. p \in Purges /\ kept[p.realm] \in SUBSET Nat
        BY DEF RealmTypeOK, Purges
      <3> DEFINE p1 == [p EXCEPT !.step = "found"]
                 p2 == [p1 EXCEPT !.found = kept[p.realm]]
      <3>2. p1 \in Purges
        BY <3>1 DEF Purges
      <3> HIDE DEF p1
      <3>3. p2 \in Purges
        BY <3>1, <3>2 DEF Purges
      <3>4. purges' = (purges \ {p}) \cup {p2}
        BY <2>2 DEF PurgeScans, p1
      <3> HIDE DEF p2
      <3> QED BY <2>2, <3>3, <3>4 DEF PurgeScans, InRedis, RealmTypeOK
    <2>3. ASSUME NEW p \in purges, PurgeDeletes(p) PROVE RealmTypeOK'
      <3>1. p.realm \in AllRealms
        BY DEF RealmTypeOK, Purges
      <3>2. kept' \in [AllRealms -> SUBSET Nat]
        BY <2>3, <3>1 DEF PurgeDeletes, RealmTypeOK
      <3> QED BY <2>3, <3>2 DEF PurgeDeletes, InRedis, RealmTypeOK
    <2>4. ASSUME NEW p \in purges, PurgeFails(p) PROVE RealmTypeOK'
      BY <2>4 DEF PurgeFails, InRedis, RealmTypeOK
    <2> QED BY <1>11, <2>1, <2>2, <2>3, <2>4 DEF RedisStep
  <1> QED
    BY <1>1, <1>2, <1>3, <1>4, <1>5, <1>6, <1>7, <1>8, <1>9, <1>10, <1>11, RealmSteps


-----------------------------------------------------------------------------
(* Keys.                                                                   *)

(* Every step keeps what is known of keys. *)
LEMMA KeysStep ==
  ASSUME KeysIndInv, [RealmNext]_realmVars PROVE KeysInv'
  <1> USE DEF KeysIndInv
  <1>0. Forever \in Nat /\ ~Absent.exists
        /\ \A r \in AllRealms : config[r] \in Configs \cup {Absent}
    BY DEF Forever, Absent, RealmTypeOK
  <1>1. ASSUME UNCHANGED <<config, promised>> PROVE KeysInv'
    BY <1>1 DEF KeysInv
  <1>2. CASE DisposeStep
    <2>1. PICK R \in SUBSET ConfiguredRealms : Dispose(R)
      BY <1>2 DEF DisposeStep
    <2>2. \A r \in AllRealms :
            /\ r \in R => config'[r] = Absent
            /\ r \notin R => config'[r] = config[r] /\ promised'[r] = promised[r]
      BY <2>1 DEF Dispose
    <2> QED BY <1>0, <2>2 DEF KeysInv
  <1>3. ASSUME NEW r \in ConfiguredRealms, AddStep(r) PROVE KeysInv'
    <2>1. PICK k \in KeyOrNone, expires \in Nat : AddRealm(r, TRUE, k, expires)
      BY <1>3 DEF AddStep
    <2>2. r \in AllRealms
      BY DEF AllRealms
    <2>3. \A q \in AllRealms \ {r} : config'[q] = config[q] /\ promised'[q] = promised[q]
      BY <2>1 DEF AddRealm, RealmTypeOK
    <2>4. /\ config'[r].key = k /\ config'[r].prev = NoKey
          /\ k \in RKeys => promised'[r][k] = Forever
      BY <2>1, <2>2 DEF AddRealm, RealmTypeOK, Fresh0
    <2> QED BY <2>3, <2>4 DEF KeysInv
  <1>4. ASSUME NEW r \in ConfiguredRealms, KeyStep(r) PROVE KeysInv'
    <2>1. PICK k \in KeyOrNone, grace \in Nat, c \in Configs :
           /\ config' = [config EXCEPT ![r] = c]
           /\ c.key = k
           /\ \/ c.prev = NoKey
              \/ /\ k # NoKey /\ k # config[r].key
                 /\ c.prev = config[r].key /\ c.until = rclock + grace
           /\ promised' = [promised EXCEPT ![r] = [x \in RKeys |->
                IF x = k THEN Forever
                ELSE IF k = config[r].key THEN promised[r][x]
                ELSE IF x = config[r].key /\ k # NoKey THEN rclock + grace ELSE 0]]
      BY <1>4, KeyStepEffect
    <2>2. r \in AllRealms /\ rclock + grace \in Nat
      BY DEF AllRealms, RealmTypeOK
    <2>3. \A q \in AllRealms \ {r} : config'[q] = config[q] /\ promised'[q] = promised[q]
      BY <2>1 DEF RealmTypeOK
    <2>4. config'[r] = c /\ \A x \in RKeys :
             /\ x = k => promised'[r][x] = Forever
             /\ k # NoKey /\ k # config[r].key /\ x = config[r].key
                  => promised'[r][x] = rclock + grace
      BY <2>1, <2>2 DEF RealmTypeOK
    <2> QED BY <2>1, <2>2, <2>3, <2>4 DEF KeysInv
  <1>5. ASSUME NEW r \in ConfiguredRealms, SetStep(r) PROVE KeysInv'
    <2>1. PICK c \in Configs :
            /\ SetRealm(r, c) /\ c.key = Configured(r).key /\ c.prev = Configured(r).prev
            /\ c.until = Configured(r).until
      BY <1>5 DEF SetStep
    <2>2. r \in AllRealms
      BY DEF AllRealms
    <2>3. /\ \A q \in AllRealms \ {r} : config'[q] = config[q]
          /\ config'[r] = c /\ UNCHANGED promised
      BY <2>1, <2>2 DEF SetRealm, RealmTypeOK
    <2> QED BY <2>1, <2>2, <2>3, ConfiguredType DEF KeysInv
  <1>6. ASSUME NEW from \in ConfiguredRealms, NEW to \in ConfiguredRealms,
               RenameRealm(from, to)
        PROVE  KeysInv'
    <2>1. from \in AllRealms /\ to \in AllRealms /\ from # to
      BY <1>6 DEF AllRealms, RenameRealm
    <2>2. /\ config'[to] = config[from] /\ config'[from] = Absent
          /\ promised'[to] = promised[from]
          /\ \A q \in AllRealms \ {from, to} :
                config'[q] = config[q] /\ promised'[q] = promised[q]
      BY <1>6, <2>1 DEF RenameRealm, RealmTypeOK
    <2> QED BY <1>0, <2>1, <2>2 DEF KeysInv
  <1>7. CASE RealmTick \/ TokenStep
    BY <1>1, <1>7 DEF RealmTick, TokenStep, GrantToken, RevokeToken
  <1>8. ASSUME NEW s \in RSockets, JoinStep(s) \/ SocketStep(s) PROVE KeysInv'
    BY <1>1, <1>8 DEF JoinStep, SocketStep, Authentication, AuthenticationByToken,
       ValidateExternalToken, Joining, Register, EnqueueDurable, RealmDisconnect, Validated
  <1>9. CASE UNCHANGED realmVars
    BY <1>1, <1>9 DEF realmVars
  <1>10. CASE RedisStep
    BY <1>1, <1>10 DEF RedisStep, EnqueueEnds, PurgeScans, PurgeDeletes, PurgeFails, InRedis
  <1> QED BY <1>2, <1>3, <1>4, <1>5, <1>6, <1>7, <1>8, <1>9, <1>10, RealmSteps

(* Initially nobody is in a realm, and none is configured. *)
LEMMA RealmTypeInit == ASSUME RealmInit PROVE RealmTypeOK
  <1>1. Default \in AllRealms /\ None \in Sessions /\ NoPromise \in [RKeys -> Nat]
    BY DEF AllRealms, None, Sessions, Roles, NoPromise
  <1> QED BY <1>1 DEF RealmInit, RealmTypeOK

(* The types of the realms' state, for any realms, keys and sockets. *)
THEOREM RealmTypes == RealmSpec => []RealmTypeOK
  <1>1. RealmInit => RealmTypeOK
    BY RealmTypeInit
  <1>2. RealmTypeOK /\ [RealmNext]_realmVars => RealmTypeOK'
    BY RealmTypeStep
  <1> QED BY <1>1, <1>2, PTL DEF RealmSpec

(* set_realm_key, realmKeyAccepted: whatever rotations, clears, renames,   *)
(* removals and lapses follow, a key opens its realm only while it is the  *)
(* current one or within the grace of the rotation that replaced it.       *)
THEOREM KeysEndWithTheirGrace == RealmSpec => []NoKeyOutlivesItsGrace
  <1>1. RealmInit => KeysInv
    <2>1. ~Absent.exists
      BY DEF Absent
    <2> QED BY <2>1 DEF RealmInit, KeysInv
  <1>2. RealmTypeOK /\ KeysInv /\ [RealmNext]_realmVars => KeysInv'
    BY KeysStep DEF KeysIndInv
  <1>3. RealmTypeOK /\ KeysInv => NoKeyOutlivesItsGrace
    <2> SUFFICES ASSUME RealmTypeOK, KeysInv, NEW r \in AllRealms, NEW k \in RKeys,
                        RealmKeyAccepted(r, k)
                 PROVE  promised[r][k] > rclock
      BY DEF NoKeyOutlivesItsGrace
    <2>1. config[r].exists /\ config[r] \in Configs
      BY ConfiguredType DEF RealmKeyAccepted
    <2>2. config[r].until \in Nat /\ promised[r][k] \in Nat
          /\ rclock \in Nat /\ rclock <= MaxRealmClock
      BY <2>1 DEF Configs, RealmTypeOK
    <2>3. \/ promised[r][k] = Forever
          \/ promised[r][k] >= config[r].until /\ config[r].until > rclock
      BY <2>1 DEF RealmKeyAccepted, KeysInv
    <2>4. Forever > rclock
      BY <2>2 DEF Forever
    <2> QED BY <2>2, <2>3, <2>4
  <1> QED BY <1>1, <1>2, <1>3, RealmTypes, PTL DEF RealmSpec


-----------------------------------------------------------------------------
(* Those who are in a realm.                                               *)

(* A session, a validation or an enqueue is for the realm that is there,   *)
(* or it was under way when its realm ended.                               *)
Sound(x) == OfItsRealm(x) \/ <<x.realm, x.birth>> \in loose

(* A purge that has found less than what is kept is not done with it. *)
WillGo(p, r, b) ==
  p.realm = r /\ p.birth = b /\ (p.step = "found" => b \in p.found)
Covered(r, b) ==
  b = ended[r] \/ <<r, b>> \in loose \/ \E p \in purges : WillGo(p, r, b)

(* NothingOutlivesItsRealm, strengthened by what is still under way and by *)
(* what the purges have found.                                             *)
BirthInv ==
  /\ \A t \in RTokens : granted[t] # None => OfItsRealm(granted[t])
  /\ \A s \in RSockets : rsession[s] # None => Sound(rsession[s])
  /\ \A s \in RSockets : asking[s] # None => Sound(asking[s])
  /\ \A x \in storing : Sound(x)
  /\ \A r \in AllRealms : \A b \in kept[r] : Covered(r, b)

LEMMA BirthSuffices == ASSUME BirthInv PROVE NothingOutlivesItsRealm
  BY DEF OfItsRealm, BirthInv, Sound, Covered, WillGo, Purging, NothingOutlivesItsRealm

InsideInv == RolesInv /\ PlaceInv /\ BirthInv

(* A realm that is disposed of takes with it all that is in it. *)
LEMMA DisposeInside ==
  ASSUME RealmTypeOK, InsideInv, NEW R \in SUBSET ConfiguredRealms, Dispose(R),
         UNCHANGED <<rclock, wish, asking>>
  PROVE  InsideInv'
  <1> USE DEF InsideInv
  <1>1. \A t \in RTokens :
          /\ granted[t].realm \in R => granted'[t] = None
          /\ granted[t].realm \notin R => granted'[t] = granted[t]
    BY DEF Dispose, TokensLeft
  <1>2. \A s \in RSockets :
          /\ s \in Evicted(R) => rsession'[s] = None
          /\ s \notin Evicted(R) => rsession'[s] = rsession[s]
    BY DEF Dispose
  <1>3. \A s \in RSockets :
          s \in Evicted(R) <=> rsession[s] # None /\ rsession[s].realm \in R
    <2>1. \A s \in RSockets : rsession[s] # None <=> rsession[s].role # "none"
      BY DEF RolesInv, None
    <2> QED BY <2>1 DEF Evicted, RolesInv
  <1>4. \A r \in AllRealms :
          /\ r \in R => ended'[r] = ended[r] + 1 /\ bound'[r] = {}
          /\ r \notin R => ended'[r] = ended[r] /\ bound'[r] = bound[r]
    BY DEF Dispose
  <1>5. \A x \in Sessions : x.realm \in AllRealms
    BY DEF Sessions
  <1>6. /\ \A t \in RTokens : granted[t] \in Sessions
        /\ \A s \in RSockets : rsession[s] \in Sessions
        /\ \A r \in AllRealms : bound[r] \subseteq RSockets
    BY DEF RealmTypeOK
  <1>7. rsockets' = rsockets \ Evicted(R)
    BY DEF Dispose
  <1>8. RolesInv'
    BY <1>1, <1>2, <1>3, <1>7 DEF RolesInv
  <1>9. PlaceInv'
    BY <1>2, <1>3, <1>4, <1>6 DEF PlaceInv
  <1>10. loose' = loose \cup UnderWay(R) /\ UNCHANGED <<storing, asking>>
    BY DEF Dispose
  <1>11. ASSUME NEW x, x \in storing \/ x \in {asking[s] : s \in RSockets},
                x.realm \in AllRealms, Sound(x)
         PROVE  Sound(x)'
    <2>1. CASE x.realm \in R
      <3>1. <<x.realm, x.birth>> \in UnderWay(R)
        BY <1>11, <2>1 DEF UnderWay
      <3> QED BY <1>10, <3>1 DEF Sound, OfItsRealm
    <2>2. CASE x.realm \notin R
      BY <1>4, <1>10, <1>11, <2>2 DEF Sound, OfItsRealm
    <2> QED BY <2>1, <2>2
  <1>12. \A r \in AllRealms : \A b \in kept'[r] : Covered(r, b)'
    <2> SUFFICES ASSUME NEW r \in AllRealms, NEW b \in kept'[r] PROVE Covered(r, b)'
      OBVIOUS
    <2>1. CASE kept' = [q \in AllRealms |-> IF q \in R THEN {} ELSE kept[q]]
               /\ UNCHANGED purges
      <3>1. r \notin R /\ b \in kept[r]
        BY <2>1
      <3>2. Covered(r, b)
        BY <3>1 DEF Sound, OfItsRealm, BirthInv
      <3> QED BY <1>4, <1>10, <2>1, <3>1, <3>2 DEF Covered
    <2>2. CASE /\ purges' = purges \cup
                    {[realm |-> q, birth |-> ended[q], step |-> "scan", found |-> {}] : q \in R}
               /\ UNCHANGED kept
      <3>1. Covered(r, b)
        BY <2>2 DEF Sound, OfItsRealm, BirthInv
      <3>2. CASE b = ended[r] /\ r \in R
        <4> DEFINE p == [realm |-> r, birth |-> ended[r], step |-> "scan", found |-> {}]
        <4>1. p \in purges' /\ WillGo(p, r, b)
          BY <2>2, <3>2 DEF WillGo
        <4> QED BY <4>1 DEF Covered, WillGo
      <3>3. CASE b = ended[r] /\ r \notin R
        BY <1>4, <3>3 DEF Covered
      <3>4. CASE <<r, b>> \in loose
        BY <1>10, <3>4 DEF Covered
      <3>5. ASSUME NEW p \in purges, WillGo(p, r, b) PROVE Covered(r, b)'
        <4>1. p \in purges'
          BY <2>2
        <4> QED BY <3>5, <4>1 DEF Covered, WillGo
      <3> QED BY <3>1, <3>2, <3>3, <3>4, <3>5 DEF Covered
    <2> QED BY <2>1, <2>2 DEF Dispose, StartPurge
  <1>13. BirthInv'
    <2>1. /\ \A x \in storing : x.realm \in AllRealms /\ Sound(x)
          /\ \A s \in RSockets : asking[s].realm \in AllRealms
          /\ \A s \in RSockets : asking[s] # None => Sound(asking[s])
      BY DEF Sound, OfItsRealm, RealmTypeOK, Enqueues, Sessions, BirthInv
    <2>2. \A x \in storing' : Sound(x)'
      BY <1>10, <1>11, <2>1
    <2>3. \A s \in RSockets : asking'[s] # None => Sound(asking[s])'
      <3> TAKE s \in RSockets
      <3> HAVE asking'[s] # None
      <3>1. asking'[s] = asking[s] /\ asking[s] # None
        BY <1>10
      <3>2. Sound(asking[s])'
        BY <1>11, <2>1, <3>1
      <3>3. OfItsRealm(asking[s])' \/ <<asking'[s].realm, asking'[s].birth>> \in loose'
        BY <3>2 DEF Sound, OfItsRealm
      <3> QED BY <3>1, <3>2 DEF Sound, OfItsRealm
    <2>4. \A s \in RSockets : rsession'[s] # None => Sound(rsession[s])'
      <3> TAKE s \in RSockets
      <3> HAVE rsession'[s] # None
      <3>1. rsession'[s] = rsession[s] /\ rsession[s].realm \notin R
            /\ rsession[s].realm \in AllRealms
        BY <1>2, <1>3, <1>5, <1>6
      <3>2. Sound(rsession[s])
        BY <3>1 DEF Sound, OfItsRealm, BirthInv
      <3> QED BY <1>4, <1>10, <3>1, <3>2 DEF Sound, OfItsRealm
    <2>5. \A t \in RTokens : granted'[t] # None => OfItsRealm(granted[t])'
      BY <1>1, <1>4, <1>5, <1>6 DEF Sound, BirthInv, OfItsRealm
    <2> QED BY <1>12, <2>2, <2>3, <2>4, <2>5 DEF Sound, OfItsRealm, BirthInv
  <1> QED BY <1>8, <1>9, <1>13

(* A realm that is renamed while nobody is in it and nothing is kept in it *)
(* takes its tokens along.                                                 *)
LEMMA RenameInside ==
  ASSUME ~Crossing, RealmTypeOK, InsideInv, NEW from \in ConfiguredRealms,
         NEW to \in ConfiguredRealms, RenameRealm(from, to)
  PROVE  InsideInv'
  <1> USE DEF InsideInv
  <1>1. /\ from \in AllRealms /\ to \in AllRealms /\ from # to /\ from # Default
        /\ ended[to] \in Nat /\ \A t \in RTokens : granted[t] \in Sessions
    BY DEF AllRealms, RenameRealm, RealmTypeOK
  <1>2. bound[from] = {} /\ Evicted({from}) = {} /\ kept[from] = {}
    BY DEF RenameRealm
  <1>3. /\ UNCHANGED <<rsession, kept, storing, purges, rsockets, wish, asking>>
        /\ loose' = loose \cup UnderWay({from})
        /\ ended' = [ended EXCEPT ![from] = @ + 1]
        /\ granted' = [t \in RTokens |->
             IF granted[t].realm = from
             THEN [granted[t] EXCEPT !.realm = to, !.birth = ended[to]] ELSE granted[t]]
    BY DEF RenameRealm, Managing
  <1>4. \A s \in RSockets : rsession[s] # None => rsession[s].realm # from
    <2>1. \A s \in RSockets :
            rsession[s] # None => s \in rsockets /\ rsession[s].role # "none"
      BY DEF RolesInv
    <2> QED BY <1>2, <2>1 DEF Evicted
  <1>5. \A r \in AllRealms : bound'[r] = bound[r] \/ bound'[r] = {}
    BY <1>1, <1>2 DEF RenameRealm, RealmTypeOK
  <1>6. \A t \in RTokens :
          /\ granted[t].realm # from => granted'[t] = granted[t]
          /\ granted[t].realm = from =>
               /\ granted'[t].realm = to /\ granted'[t].birth = ended[to]
               /\ granted'[t].role = granted[t].role
    <2>1. \A t \in RTokens :
            LET x == [granted[t] EXCEPT !.realm = to, !.birth = ended[to]]
            IN  x.realm = to /\ x.birth = ended[to] /\ x.role = granted[t].role
      BY <1>1 DEF Sessions
    <2> QED BY <1>3, <2>1
  <1>7. /\ \A r \in AllRealms \ {from} : ended'[r] = ended[r]
        /\ \A t \in RTokens : granted[t].realm = from => granted[t] # None
    <2>1. None.realm = Default
      BY DEF None
    <2>2. \A r \in AllRealms \ {from} : ended'[r] = ended[r]
      BY <1>1, <1>3 DEF RealmTypeOK
    <2> QED BY <1>1, <2>1, <2>2
  <1>8. RolesInv'
    <2>1. ASSUME NEW t \in RTokens, granted'[t] # None PROVE granted'[t].role # "none"
      <3>1. CASE granted[t].realm = from
        BY <1>6, <1>7, <3>1 DEF RolesInv
      <3>2. CASE granted[t].realm # from
        BY <1>6, <2>1, <3>2 DEF RolesInv
      <3> QED BY <3>1, <3>2
    <2> QED BY <1>3, <2>1 DEF RolesInv
  <1>9. PlaceInv'
    <2>1. \A r \in AllRealms : bound'[r] \subseteq bound[r]
      BY <1>5
    <2> QED BY <1>3, <2>1 DEF PlaceInv
  <1>10. BirthInv'
    <2>1. \A x \in Sessions : x.realm \in AllRealms
      BY DEF Sessions
    <2>2. \A s \in RSockets : rsession[s] \in Sessions
      BY DEF RealmTypeOK
    <2>3. ASSUME NEW t \in RTokens, granted'[t] # None PROVE OfItsRealm(granted[t])'
      <3>1. CASE granted[t].realm = from
        BY <1>1, <1>6, <1>7, <3>1 DEF OfItsRealm
      <3>2. CASE granted[t].realm # from
        BY <1>1, <1>6, <1>7, <2>1, <2>3, <3>2 DEF Sound, BirthInv, OfItsRealm
      <3> QED BY <3>1, <3>2
    <2>4. \A s \in RSockets : rsession'[s] # None => Sound(rsession[s])'
      BY <1>3, <1>4, <1>7, <2>1, <2>2 DEF BirthInv, Sound, OfItsRealm
    <2>5. ASSUME NEW x, x \in storing \/ x \in {asking[s] : s \in RSockets},
                 x.realm \in AllRealms, Sound(x)
          PROVE  Sound(x)'
      <3>1. CASE x.realm = from
        <4>1. <<x.realm, x.birth>> \in UnderWay({from})
          BY <2>5, <3>1 DEF UnderWay
        <4> QED BY <1>3, <4>1 DEF Sound, OfItsRealm
      <3>2. CASE x.realm # from
        BY <1>3, <1>7, <2>5, <3>2 DEF Sound, OfItsRealm
      <3> QED BY <3>1, <3>2
    <2>6. /\ \A x \in storing : x.realm \in AllRealms /\ Sound(x)
          /\ \A s \in RSockets : asking[s].realm \in AllRealms
          /\ \A s \in RSockets : asking[s] # None => Sound(asking[s])
      BY DEF Sound, OfItsRealm, RealmTypeOK, Enqueues, Sessions, BirthInv
    <2>7. \A x \in storing' : Sound(x)'
      BY <1>3, <2>5, <2>6
    <2>8. \A s \in RSockets : asking'[s] # None => Sound(asking[s])'
      <3> TAKE s \in RSockets
      <3> HAVE asking'[s] # None
      <3>1. asking'[s] = asking[s] /\ asking[s] # None
        BY <1>3
      <3>2. Sound(asking[s])'
        BY <2>5, <2>6, <3>1
      <3> QED BY <3>1, <3>2 DEF Sound, OfItsRealm
    <2>9. \A r \in AllRealms : \A b \in kept'[r] : Covered(r, b)'
      <3> TAKE r \in AllRealms
      <3> TAKE b \in kept'[r]
      <3>1. b \in kept[r] /\ r # from
        BY <1>2, <1>3
      <3>2. Covered(r, b)
        BY <3>1 DEF Sound, OfItsRealm, BirthInv
      <3> QED BY <1>3, <1>7, <3>1, <3>2 DEF Covered, WillGo
    <2> QED BY <2>3, <2>4, <2>7, <2>8, <2>9 DEF Sound, OfItsRealm, BirthInv
  <1> QED BY <1>8, <1>9, <1>10

(* Tokens that are granted and revoked. *)
LEMMA TokenInside ==
  ASSUME RealmTypeOK, InsideInv, TokenStep
  PROVE  InsideInv'
  <1>1. UNCHANGED <<rsession, wish, asking, bound, keptVars, rsockets, ended>>
    BY DEF TokenStep, GrantToken, RevokeToken, Managing
  <1>2. ASSUME NEW t \in RTokens, NEW r \in ConfiguredRealms,
               NEW role \in {"producer", "both"}, GrantToken(t, r, role)
        PROVE  \E x : /\ granted' = [granted EXCEPT ![t] = x]
                      /\ x = None \/ (x.role # "none" /\ x.birth = ended[x.realm])
    <2> DEFINE x == [realm |-> r, role |-> role, birth |-> ended[r]]
    <2>1. x.role = role /\ x.birth = ended[r] /\ x.realm = r /\ role # "none"
      OBVIOUS
    <2>2. granted' = [granted EXCEPT ![t] = x]
      BY <1>2 DEF GrantToken
    <2> QED BY <2>1, <2>2
  <1>7. PICK t \in RTokens : \E x :
          /\ granted' = [granted EXCEPT ![t] = x]
          /\ x = None \/ (x.role # "none" /\ x.birth = ended[x.realm])
    BY <1>2 DEF TokenStep, RevokeToken
  <1>3. PICK x :
          /\ granted' = [granted EXCEPT ![t] = x]
          /\ x = None \/ (x.role # "none" /\ x.birth = ended[x.realm])
    BY <1>7
  <1>4. granted'[t] = x /\ \A u \in RTokens \ {t} : granted'[u] = granted[u]
    BY <1>3 DEF RealmTypeOK
  <1>5. RolesInv' /\ BirthInv'
    BY <1>1, <1>3, <1>4 DEF InsideInv, RolesInv, BirthInv, Sound, OfItsRealm, Covered,
                            WillGo, keptVars
  <1>6. PlaceInv'
    BY <1>1 DEF InsideInv, PlaceInv
  <1> QED BY <1>5, <1>6 DEF InsideInv

(* A socket s got a session, lost one, or waits for one; nothing else     *)
(* changed but what it has in the registry and the store.                  *)
Turned(s, x, y) ==
  /\ \A u \in RSockets \ {s} :
       wish'[u] = wish[u] /\ rsession'[u] = rsession[u] /\ asking'[u] = asking[u]
  /\ rsession'[s] = x /\ asking'[s] = y
  /\ x # None => x.role # "none" /\ s \in rsockets /\ Sound(x)
  /\ y # None => y.role # "none" /\ Sound(y) /\ wish'[s] = y.realm
  /\ x # None /\ y # None => x.realm = y.realm
  /\ \A r \in AllRealms : \A u \in bound'[r] :
       u \in bound[r] \/ (u = s /\ x # None /\ x.realm = r)
  /\ rsession[s] # None /\ (x = None \/ x.realm # rsession[s].realm)
       => s \notin bound'[rsession[s].realm]
  /\ \A r \in AllRealms : \A b \in kept'[r] :
       b \in kept[r] \/ (x # None /\ x.realm = r /\ x.birth = b)
  /\ \A z \in storing' :
       z \in storing \/ (x # None /\ z.realm = x.realm /\ z.birth = x.birth)
  /\ rsockets' = rsockets \/ (rsockets' = rsockets \ {s} /\ x = None)
  /\ UNCHANGED <<granted, ended, purges, loose>>

(* That keeps what is known. *)
LEMMA SessionInside ==
  ASSUME RealmTypeOK, InsideInv, NEW s \in RSockets, NEW x, NEW y, Turned(s, x, y)
  PROVE  InsideInv'
  <1> USE DEF InsideInv, Turned
  <1>2. RolesInv'
    BY DEF RolesInv
  <1>3. BirthInv'
    <2>1. \A t \in RTokens : granted'[t] # None => OfItsRealm(granted[t])'
      BY DEF Sound, BirthInv, OfItsRealm
    <2>2. \A z : Sound(z) => Sound(z)'
      BY DEF Sound, OfItsRealm
    <2>3. \A u \in RSockets : rsession'[u] # None => Sound(rsession[u])'
      <3> TAKE u \in RSockets
      <3> HAVE rsession'[u] # None
      <3>1. Sound(rsession'[u])
        BY DEF Sound, OfItsRealm, BirthInv
      <3> QED BY <3>1 DEF Sound, OfItsRealm
    <2>4. \A u \in RSockets : asking'[u] # None => Sound(asking[u])'
      <3> TAKE u \in RSockets
      <3> HAVE asking'[u] # None
      <3>1. Sound(asking'[u])
        BY DEF Sound, OfItsRealm, BirthInv
      <3> QED BY <3>1 DEF Sound, OfItsRealm
    <2>5. \A z \in storing' : Sound(z)'
      <3> TAKE z \in storing'
      <3>1. Sound(z)
        BY DEF BirthInv, Sound, OfItsRealm
      <3> QED BY <2>2, <3>1
    <2>6. \A r \in AllRealms : \A b \in kept'[r] : Covered(r, b)'
      <3> TAKE r \in AllRealms
      <3> TAKE b \in kept'[r]
      <3>1. Covered(r, b)
        BY DEF BirthInv, Covered, Sound, OfItsRealm
      <3> QED BY <3>1 DEF Covered, WillGo
    <2> QED BY <2>1, <2>3, <2>4, <2>5, <2>6 DEF Sound, OfItsRealm, BirthInv
  <1>4. PlaceInv'
    <2>1. \A u \in RSockets :
            asking'[u] # None =>
              /\ wish'[u] = asking'[u].realm
              /\ rsession'[u] # None => rsession'[u].realm = asking'[u].realm
      BY DEF PlaceInv
    <2>2. ASSUME NEW r \in AllRealms, NEW u \in bound'[r]
          PROVE  rsession'[u] # None /\ rsession'[u].realm = r
      <3>1. u \in RSockets
        BY DEF RealmTypeOK
      <3>2. CASE u # s
        BY <3>1, <3>2 DEF PlaceInv
      <3>3. CASE u = s /\ s \in bound[r]
        <4>1. rsession[s] # None /\ rsession[s].realm = r
          BY <3>3 DEF PlaceInv
        <4> QED BY <2>2, <3>3, <4>1
      <3>4. CASE u = s /\ s \notin bound[r]
        BY <2>2, <3>4
      <3> QED BY <3>2, <3>3, <3>4
    <2> QED BY <2>1, <2>2 DEF PlaceInv
  <1> QED BY <1>2, <1>3, <1>4

(* A socket authenticates, or asks a validator. *)
LEMMA JoinInside ==
  ASSUME ~Crossing, RealmTypeOK, InsideInv, NEW s \in RSockets, JoinStep(s)
  PROVE  InsideInv'
  <1> USE DEF InsideInv
  <1>1. PICK r \in AllRealms :
          \/ \E role \in ConnectRoles, k \in KeyOrNone : Authentication(s, r, role, k)
          \/ \E t \in RTokens : AuthenticationByToken(s, r, t)
          \/ \E realm \in AllRealms : ValidateExternalToken(s, r, realm, "both")
    BY DEF JoinStep
  <1>2. /\ UNCHANGED <<granted, bound, kept, storing, purges, loose, rsockets, ended>>
        /\ wish' = [wish EXCEPT ![s] = r] /\ Unknown(s)
    BY <1>1 DEF Authentication, AuthenticationByToken, ValidateExternalToken, Joining, keptVars
  <1>3. /\ s \in rsockets /\ rsession[s] = None /\ wish'[s] = r
        /\ \A u \in RSockets \ {s} : wish'[u] = wish[u]
        /\ asking = [asking EXCEPT ![s] = asking[s]]
        /\ rsession = [rsession EXCEPT ![s] = rsession[s]]
    BY <1>2 DEF Unknown, RealmTypeOK
  <1>4. ASSUME NEW role \in Roles \ {"none"}
        PROVE  /\ Session(r, role) \in Sessions /\ Session(r, role).realm = r
               /\ Session(r, role).role # "none"
               /\ Sound(Session(r, role))
    BY DEF Session, Sessions, Roles, RealmTypeOK, Sound, OfItsRealm
  <1>5. asking[s] # None => asking[s].role # "none" /\ Sound(asking[s])
    BY DEF Sound, OfItsRealm, RolesInv, BirthInv
  <1>6. None \in Sessions
    BY DEF None, Sessions, Roles, AllRealms
  <1>7. ASSUME NEW x \in Sessions, rsession' = [rsession EXCEPT ![s] = x],
               x = None \/ \E role \in Roles \ {"none"} : x = Session(r, role),
               UNCHANGED asking, MayAskFor(s, r)
        PROVE  InsideInv'
    <2>1. x # None => x.realm = r /\ x.role # "none" /\ Sound(x)
      BY <1>4, <1>7
    <2>2. asking[s] # None => asking[s].realm = r
      BY <1>7 DEF MayAskFor
    <2>4. Turned(s, x, asking[s])
      BY <1>2, <1>3, <1>5, <1>7, <2>1, <2>2 DEF Turned, RealmTypeOK
    <2> QED BY <2>4, SessionInside
  <1>8. ASSUME NEW role \in ConnectRoles, NEW k, Authentication(s, r, role, k)
        PROVE  InsideInv'
    <2>1. role \in Roles \ {"none"}
      BY DEF ConnectRoles, Roles
    <2>2. \/ rsession' = [rsession EXCEPT ![s] = Session(r, role)]
          \/ rsession' = [rsession EXCEPT ![s] = None]
      BY <1>3, <1>8 DEF Authentication
    <2>3. UNCHANGED asking /\ MayAskFor(s, r)
      BY <1>8 DEF Authentication
    <2> QED BY <1>4, <1>6, <1>7, <2>1, <2>2, <2>3
  <1>9. ASSUME NEW t \in RTokens, AuthenticationByToken(s, r, t)
        PROVE  InsideInv'
    <2>1. granted[t].role \in Roles \ {"none"} /\ granted[t].realm = r
      BY <1>9 DEF AuthenticationByToken, RolesInv, RealmTypeOK, Sessions
    <2>2. rsession' = [rsession EXCEPT ![s] = Session(r, granted[t].role)]
      BY <1>9, <2>1 DEF AuthenticationByToken
    <2>3. UNCHANGED asking /\ MayAskFor(s, r)
      BY <1>9 DEF AuthenticationByToken
    <2> QED BY <1>4, <1>7, <2>1, <2>2, <2>3
  <1>10. ASSUME NEW realm \in AllRealms, ValidateExternalToken(s, r, realm, "both")
         PROVE  InsideInv'
    <2>1. /\ realm = r /\ asking' = [asking EXCEPT ![s] = Session(r, "both")]
          /\ rsession' = [rsession EXCEPT ![s] = None]
      BY <1>3, <1>10 DEF ValidateExternalToken
    <2>2. /\ Session(r, "both").realm = r /\ Session(r, "both").role # "none"
          /\ Sound(Session(r, "both"))
      BY <1>4 DEF Roles
    <2>3. Turned(s, None, Session(r, "both"))
      BY <1>2, <1>3, <2>1, <2>2 DEF Turned, RealmTypeOK
    <2> QED BY <2>3, SessionInside
  <1> QED BY <1>1, <1>8, <1>9, <1>10

(* A socket registers, has a message stored, leaves, or is validated. *)
LEMMA SocketInside ==
  ASSUME RealmTypeOK, InsideInv, NEW s \in RSockets, SocketStep(s)
  PROVE  InsideInv'
  <1> USE DEF InsideInv
  <1>0. /\ rsession[s] \in Sessions /\ asking[s] \in Sessions /\ None \in Sessions
        /\ asking = [asking EXCEPT ![s] = asking[s]]
        /\ asking[s] # None => asking[s].role # "none" /\ wish[s] = asking[s].realm
                                /\ (rsession[s] # None => rsession[s].realm = asking[s].realm)
        /\ rsession[s] # None => rsession[s].role # "none"
             /\ Sound(rsession[s])
        /\ asking[s] # None => Sound(asking[s])
    BY DEF Sound, OfItsRealm, RealmTypeOK, None, Sessions, Roles, AllRealms, RolesInv, PlaceInv, BirthInv
  <1>1. ASSUME NEW role \in {"producer", "consumer"}, s \in rsockets,
               Authorize(s, role) # None,
               rsession' = [rsession EXCEPT ![s] = Authorize(s, role)],
               \/ bound' = [bound EXCEPT ![Authorize(s, role).realm] = @ \cup {s}]
               \/ UNCHANGED bound,
               \/ kept' = [kept EXCEPT ![Authorize(s, role).realm] =
                                @ \cup {Authorize(s, role).birth}]
               \/ UNCHANGED kept,
               \/ storing' = storing \cup {[realm |-> Authorize(s, role).realm,
                                            birth |-> Authorize(s, role).birth]}
               \/ UNCHANGED storing,
               UNCHANGED <<wish, asking, granted, purges, loose, rsockets, ended>>
        PROVE  InsideInv'
    <2> DEFINE x == Authorize(s, role)
    <2>1. /\ x \in Sessions /\ x # None
          /\ rsession[s] # None => x = rsession[s]
          /\ rsession[s] = None => /\ x.realm = wish[s] /\ x.birth = ended[wish[s]]
                                   /\ x.role # "none"
      BY <1>1, AuthorizeType
    <2> HIDE DEF x
    <2>2. /\ x.role # "none" /\ Sound(x) /\ x.realm \in AllRealms
          /\ asking[s] # None => x.realm = asking[s].realm
      BY <1>0, <2>1 DEF Sessions, Sound, OfItsRealm
    <2>3. /\ \A r \in AllRealms : \A u \in bound'[r] :
               u \in bound[r] \/ (u = s /\ x # None /\ x.realm = r)
          /\ \A r \in AllRealms : \A b \in kept'[r] :
               b \in kept[r] \/ (x # None /\ x.realm = r /\ x.birth = b)
          /\ \A z \in storing' :
               z \in storing \/ (x # None /\ z.realm = x.realm /\ z.birth = x.birth)
      BY <1>1, <2>1, <2>2 DEF RealmTypeOK, x
    <2>4. rsession' = [rsession EXCEPT ![s] = x]
      BY <1>1 DEF x
    <2>5. Turned(s, x, asking[s])
      BY <1>0, <1>1, <2>1, <2>2, <2>3, <2>4 DEF Turned, RealmTypeOK
    <2> QED BY <2>5, SessionInside
  <1>2. ASSUME NEW role \in {"producer", "consumer"}, Register(s, role)
        PROVE  InsideInv'
    <2>1. rsession'[s] = Authorize(s, role)
      BY <1>2 DEF Register, RealmTypeOK
    <2> QED BY <1>1, <1>2, <2>1 DEF Register, Joining, keptVars
  <1>3. CASE EnqueueDurable(s)
    BY <1>1, <1>3 DEF EnqueueDurable
  <1>4. CASE RealmDisconnect(s)
    <2>1. /\ rsession' = [rsession EXCEPT ![s] = None] /\ rsockets' = rsockets \ {s}
          /\ bound' = [bound EXCEPT ![rsession[s].realm] = @ \ {s}]
          /\ UNCHANGED <<granted, asking, wish, kept, storing, purges, loose, ended>>
      BY <1>4 DEF RealmDisconnect, Unbound, keptVars
    <2>2. rsession[s].realm \in AllRealms
      BY <1>0 DEF Sessions
    <2>3. /\ \A r \in AllRealms : bound'[r] \subseteq bound[r]
          /\ s \notin bound'[rsession[s].realm]
      BY <2>1, <2>2 DEF RealmTypeOK
    <2>4. Turned(s, None, asking[s])
      BY <1>0, <2>1, <2>3 DEF Turned, RealmTypeOK
    <2> QED BY <2>4, SessionInside
  <1>5. ASSUME NEW valid \in BOOLEAN, Validated(s, valid)
        PROVE  InsideInv'
    <2>1. /\ asking[s] # None /\ asking' = [asking EXCEPT ![s] = None]
          /\ UNCHANGED <<granted, wish, bound, kept, storing, purges, loose, rsockets,
                         ended>>
      BY <1>5 DEF Validated, keptVars
    <2>2. CASE valid /\ s \in rsockets
      <3>1. rsession' = [rsession EXCEPT ![s] = asking[s]]
        BY <1>5, <2>2 DEF Validated
      <3>2. Turned(s, asking[s], None)
        BY <1>0, <2>1, <2>2, <3>1 DEF Turned, RealmTypeOK
      <3> QED BY <3>2, SessionInside
    <2>3. CASE ~(valid /\ s \in rsockets)
      <3>1. rsession' = [rsession EXCEPT ![s] = rsession[s]]
        BY <1>5, <2>3 DEF Validated, RealmTypeOK
      <3>2. rsession[s] # None => s \in rsockets
        BY DEF RolesInv
      <3>3. Turned(s, rsession[s], None)
        BY <1>0, <2>1, <3>1, <3>2 DEF Turned, RealmTypeOK
      <3> QED BY <3>3, SessionInside
    <2> QED BY <2>2, <2>3
  <1> QED BY <1>2, <1>3, <1>4, <1>5 DEF SocketStep

(* A command of Redis takes effect, or fails. *)
LEMMA RedisInside ==
  ASSUME RealmTypeOK, InsideInv, RedisStep
  PROVE  InsideInv'
  <1> USE DEF InsideInv
  <1>1. UNCHANGED <<granted, rsession, asking, wish, bound, rsockets, ended>>
        /\ loose \subseteq loose'
    BY DEF RedisStep, EnqueueEnds, PurgeScans, PurgeDeletes, PurgeFails, InRedis
  <1>2. RolesInv' /\ PlaceInv'
    BY <1>1 DEF RolesInv, PlaceInv
  <1>3. storing' \subseteq storing
    BY DEF RedisStep, EnqueueEnds, PurgeScans, PurgeDeletes, PurgeFails
  <1>4. ASSUME \A r \in AllRealms : \A b \in kept'[r] : Covered(r, b)'
        PROVE  BirthInv'
    BY <1>1, <1>3, <1>4 DEF BirthInv, Sound, OfItsRealm
  <1>5. \A r \in AllRealms : \A b \in kept[r] : Covered(r, b)
    BY DEF Sound, OfItsRealm, BirthInv
  <1>6. ASSUME NEW x \in storing, EnqueueEnds(x) PROVE BirthInv'
    <2>1. Sound(x) /\ x.realm \in AllRealms
      BY DEF Sound, OfItsRealm, BirthInv, RealmTypeOK, Enqueues
    <2>2. \A r \in AllRealms : \A b \in kept'[r] :
            b \in kept[r] \/ (r = x.realm /\ b = x.birth)
      BY <1>6, <2>1 DEF EnqueueEnds, RealmTypeOK
    <2>3. UNCHANGED <<purges, loose>>
      BY <1>6 DEF EnqueueEnds
    <2>4. ASSUME NEW r \in AllRealms, NEW b \in kept'[r] PROVE Covered(r, b)'
      <3>1. Covered(r, b)
        BY <1>5, <2>1, <2>2 DEF Covered, Sound, OfItsRealm
      <3> QED BY <1>1, <2>3, <3>1 DEF Covered, WillGo
    <2> QED BY <1>4, <2>4
  <1>7. ASSUME NEW p \in purges, PurgeScans(p) PROVE BirthInv'
    <2> DEFINE q == [p EXCEPT !.step = "found", !.found = kept[p.realm]]
    <2>1. purges' = (purges \ {p}) \cup {q} /\ UNCHANGED <<kept, loose>>
      BY <1>7 DEF PurgeScans
    <2>2. q.realm = p.realm /\ q.birth = p.birth /\ q.found = kept[p.realm]
      BY DEF RealmTypeOK, Purges
    <2> HIDE DEF q
    <2>3. ASSUME NEW r \in AllRealms, NEW b \in kept'[r] PROVE Covered(r, b)'
      <3>1. Covered(r, b) /\ b \in kept[r]
        BY <1>5, <2>1
      <3>2. ASSUME NEW z \in purges, WillGo(z, r, b) PROVE Covered(r, b)'
        <4>1. CASE z = p
          BY <2>1, <2>2, <3>1, <3>2, <4>1 DEF Covered, WillGo
        <4>2. CASE z # p
          BY <2>1, <3>2, <4>2 DEF Covered, WillGo
        <4> QED BY <4>1, <4>2
      <3> QED BY <1>1, <2>1, <3>1, <3>2 DEF Covered
    <2> QED BY <1>4, <2>3
  <1>8. ASSUME NEW p \in purges, PurgeDeletes(p) PROVE BirthInv'
    <2>1. p.step = "found" /\ purges' = purges \ {p} /\ UNCHANGED loose
      BY <1>8 DEF PurgeDeletes
    <2>2. PICK gone \in SUBSET kept[p.realm] :
            /\ p.found \cap kept[p.realm] \subseteq gone
            /\ kept' = [kept EXCEPT ![p.realm] = @ \ gone]
      BY <1>8 DEF PurgeDeletes
    <2>3. \A r \in AllRealms :
            /\ kept'[r] \subseteq kept[r]
            /\ r = p.realm => kept'[r] \cap p.found = {}
      BY <2>2 DEF RealmTypeOK
    <2>4. ASSUME NEW r \in AllRealms, NEW b \in kept'[r] PROVE Covered(r, b)'
      <3>1. Covered(r, b)
        BY <1>5, <2>3
      <3>2. ~WillGo(p, r, b)
        BY <2>1, <2>3 DEF WillGo
      <3> QED BY <1>1, <2>1, <3>1, <3>2 DEF Covered, WillGo
    <2> QED BY <1>4, <2>4
  <1>9. ASSUME NEW p \in purges, PurgeFails(p) PROVE BirthInv'
    <2>1. /\ purges' = purges \ {p} /\ UNCHANGED kept
          /\ loose' = loose \cup {<<p.realm, p.birth>>}
      BY <1>9 DEF PurgeFails
    <2>2. ASSUME NEW r \in AllRealms, NEW b \in kept'[r] PROVE Covered(r, b)'
      <3>1. Covered(r, b)
        BY <1>5, <2>1
      <3>2. ASSUME NEW z \in purges, WillGo(z, r, b) PROVE Covered(r, b)'
        BY <2>1, <3>2 DEF Covered, WillGo
      <3> QED BY <1>1, <3>1, <3>2 DEF Covered
    <2> QED BY <1>4, <2>2
  <1> QED BY <1>2, <1>6, <1>7, <1>8, <1>9 DEF RedisStep

(* Every step keeps what is known of those in a realm, unless realms are   *)
(* renamed while in use or tokens are for other realms than asked for.     *)
LEMMA InsideStep ==
  ASSUME ~Crossing, RealmTypeOK, InsideInv, [RealmNext]_realmVars PROVE InsideInv'
  <1>1. ASSUME UNCHANGED <<granted, rsession, wish, asking, bound, keptVars, rsockets, ended>>
        PROVE  InsideInv'
    BY <1>1 DEF InsideInv, RolesInv, PlaceInv, BirthInv, Sound, OfItsRealm, Covered, WillGo,
                keptVars
  <1>2. CASE RealmTick
    BY <1>1, <1>2 DEF RealmTick
  <1>3. ASSUME NEW r \in ConfiguredRealms, AddStep(r) \/ KeyStep(r) \/ SetStep(r)
        PROVE  InsideInv'
    BY <1>1, <1>3 DEF AddStep, KeyStep, SetStep, AddRealm, SetRealmKey, SetRealm, Managing
  <1>4. CASE DisposeStep
    BY <1>4, DisposeInside DEF DisposeStep
  <1>5. CASE UNCHANGED realmVars
    BY <1>1, <1>5 DEF realmVars
  <1> QED
    BY <1>2, <1>3, <1>4, <1>5, RealmSteps, RenameInside, TokenInside, JoinInside,
       SocketInside, RedisInside

(* Initially nobody is in a realm. *)
LEMMA InsideInit == ASSUME RealmInit PROVE InsideInv
  BY DEF Sound, OfItsRealm, RealmInit, InsideInv, RolesInv, PlaceInv, BirthInv

(* What is known of those in a realm holds throughout. *)
THEOREM InsideInvariance == ASSUME ~Crossing PROVE RealmSpec => []InsideInv
  <1>1. RealmInit => InsideInv
    BY InsideInit
  <1>2. RealmTypeOK /\ InsideInv /\ [RealmNext]_realmVars => InsideInv'
    BY InsideStep
  <1> QED BY <1>1, <1>2, RealmTypes, PTL DEF RealmSpec

(* remove_realm, rename_realm and sweepEphemeralRealms against the joins,  *)
(* enqueues and purges that are under way: a later realm of the name finds *)
(* no token of the realm, no session unless its validation was under way   *)
(* when the realm ended, and no message but those still to be purged and   *)
(* those whose enqueue was under way or whose purge failed.                *)
THEOREM RealmsEndWhole == ASSUME ~Crossing PROVE RealmSpec => []NothingOutlivesItsRealm
  <1>1. InsideInv => NothingOutlivesItsRealm
    BY BirthSuffices DEF InsideInv
  <1> QED BY <1>1, InsideInvariance, PTL

(* AUTHENTICATION, registration and the disconnect handler: a name that a  *)
(* registry has online belongs to a connected socket.                      *)
THEOREM OnlineMeansConnected == ASSUME ~Crossing PROVE RealmSpec => []OnlineIsConnected
  <1>1. RealmTypeOK /\ InsideInv => OnlineIsConnected
    <2>1. RealmTypeOK => \A r \in AllRealms : bound[r] \subseteq RSockets
      BY DEF RealmTypeOK
    <2> QED BY <2>1 DEF InsideInv, RolesInv, PlaceInv, OnlineIsConnected
  <1> QED BY <1>1, RealmTypes, InsideInvariance, PTL
=============================================================================
