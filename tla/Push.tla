-------------------------------- MODULE Push --------------------------------
(***************************************************************************)
(* The registry of push endpoints and the wakes it is used for             *)
(* (lib/push.js: TokenRegistry, fireWake, deliverNotifyPush;               *)
(* lib/notify-push-store.js; lib/server.js: PUSH_REGISTER,                 *)
(* PUSH_UNREGISTER, deliverToSubscription).                                *)
(*                                                                         *)
(* The broker has two registries: `wake' for identities that sign in, not  *)
(* bounded and not expiring, and `notify' for the topics of the public     *)
(* Notify service, with a cap on topics and an idle TTL.  A behaviour is   *)
(* about one of them, chosen at the start.  Both keep their endpoints in   *)
(* memory and mirror them in SQLite, which gives back rows in the order of *)
(* their last INSERT OR REPLACE.                                           *)
(***************************************************************************)
EXTENDS Naturals, Sequences, FiniteSets, SequencesExt, Subsequences

CONSTANTS WakeIdentities, \* the identities of the `wake' registry
          Topics,         \* those of the `notify' registry
          Tokens,         \* endpoints of devices
          UrlTokens,      \* those that are URLs, checked before they are stored
          MaxPerIdentity, \* maxPerIdentity
          MaxIdentities,  \* maxIdentities of the `notify' registry
          IdleTtl,        \* its ttlMs
          Coalesce,       \* coalesceWindowMs
          MaxPushClock, MaxPushSteps    \* bounds: clock, requests and wakes

ASSUME PushAssumption ==
  /\ UrlTokens \subseteq Tokens
  /\ MaxPerIdentity \in Nat \ {0} /\ MaxIdentities \in Nat \ {0}
  /\ IdleTtl \in Nat /\ MaxPushClock \in Nat

VARIABLES
  registry,    \* which of the two registries this is
  pclock,
  online,      \* identities with a connection that registered them
  lists,       \* _byRealm: by identity, its endpoints
  touch,       \* _touch: identities with the time of their last use, in order
  rows,        \* the table notify_push_endpoints, in rowid order
  lastWake,    \* _lastWake: by identity, the time of its last wake, if any
  checks,      \* PUSH_REGISTER requests whose URL is being checked
  sends,       \* sends the transports have not answered
  pushSteps,
  due, woken,  \* history: identities to wake since they left, and woken
  dropped,     \* history: endpoints the device unregistered after ...
  overtaken    \* ... and those whose registration was then being checked

pushVars == <<registry, pclock, online, lists, touch, rows, lastWake, checks,
              sends, pushSteps, due, woken, dropped, overtaken>>
pushHistory == <<due, woken, dropped, overtaken>>
pushMemory == <<lists, touch, rows>>

Bounded == registry = "notify"
Identities == IF Bounded THEN Topics ELSE WakeIdentities
Endpoint == [token : Tokens, at : 0..MaxPushClock]
Held(i) == {lists[i][n].token : n \in DOMAIN lists[i]}
HeldAll == {x \in Identities \X Tokens : x[2] \in Held(x[1])}
Stored(row) == <<row.id, row.token>>

PushInit ==
  /\ registry \in {"wake", "notify"}
  /\ pclock = 0 /\ online = {} /\ pushSteps = 0
  /\ lists = [i \in Identities |-> <<>>] /\ touch = <<>> /\ rows = <<>>
  /\ lastWake = [i \in Identities |-> {}]
  /\ checks = {} /\ sends = {}
  /\ due = {} /\ woken = {} /\ dropped = {} /\ overtaken = {}

PushTick ==
  /\ pclock < MaxPushClock
  /\ pclock' = pclock + 1
  /\ UNCHANGED <<registry, online, pushMemory, lastWake, checks, sends,
                 pushSteps, pushHistory>>

PushStep ==
  /\ pushSteps < MaxPushSteps
  /\ pushSteps' = pushSteps + 1
  /\ UNCHANGED <<registry, pclock>>

-----------------------------------------------------------------------------
(* TokenRegistry *)

(* NotifyPushStore.put and del.                                            *)
(* Mutant: the row is updated where it is. *)
PutUpdate(table, i, t) ==
  LET here(r) == Stored(r) = <<i, t>>
      row == [id |-> i, token |-> t, at |-> pclock]
  IN IF \E n \in DOMAIN table : here(table[n])
     THEN [n \in DOMAIN table |-> IF here(table[n]) THEN row ELSE table[n]]
     ELSE Append(table, row)
Put(table, i, t) ==
  LET others == {n \in DOMAIN table : Stored(table[n]) # <<i, t>>}
  IN Append(Picked(table, others), [id |-> i, token |-> t, at |-> pclock])

(* Mutant: nothing is deleted. *)
DelNothing(table, gone) == table
Del(table, gone) == Picked(table, {n \in DOMAIN table : Stored(table[n]) \notin gone})

(* _sweepExpired: the identities that go, in memory only.                  *)
Expired ==
  IF Bounded THEN {e.id : e \in {touch[n] : n \in {m \in DOMAIN touch :
                                   touch[m].at + IdleTtl < pclock}}}
  ELSE {}

(* An endpoint that is known is refreshed where it is; a new one goes to   *)
(* the end, and pushes the oldest out.                                     *)
Refreshed(list, t) ==
  LET entry == [token |-> t, at |-> pclock]
      same(e) == e.token = t
  IN IF \E n \in DOMAIN list : same(list[n])
     THEN [n \in DOMAIN list |-> IF same(list[n]) THEN entry ELSE list[n]]
     ELSE Append(list, entry)

(* The identity in use for the longest time without a use, beyond the cap. *)
LeastRecent(order, i, others) ==
  IF Bounded /\ Cardinality(others \cup {i}) > MaxIdentities
  THEN {order[1].id} \ {i} ELSE {}

(* The order of use without some identities.                               *)
Without(order, gone) == Picked(order, {n \in DOMAIN order : order[n].id \notin gone})

Enroll(i, t) ==
  LET live(j) == lists[j] # <<>> /\ j \notin Expired
      before  == IF live(i) THEN lists[i] ELSE <<>>
      full    == Refreshed(before, t)
      over    == IF Len(full) > MaxPerIdentity THEN Len(full) - MaxPerIdentity ELSE 0
      list    == SubSeq(full, over + 1, Len(full))
      order   == Append(Without(touch, Expired \cup {i}), [id |-> i, at |-> pclock])
      evicted == LeastRecent(order, i, {j \in Identities : live(j)})
      lost    == {<<i, full[n].token>> : n \in 1..over}
                   \cup {x \in evicted \X Tokens : x[2] \in Held(x[1])}
  IN /\ lists' = [j \in Identities |->
                    IF j = i THEN list
                    ELSE IF j \in Expired \cup evicted THEN <<>> ELSE lists[j]]
     /\ touch' = Without(order, evicted)
     /\ rows' = Put(Del(rows, lost), i, t)

(* unregister and prune.  An identity that is not in memory keeps its rows.*)
Unenroll(i, t) ==
  LET kept == Picked(lists[i], {n \in DOMAIN lists[i] : lists[i][n].token # t})
  IN IF lists[i] = <<>> THEN UNCHANGED pushMemory
     ELSE /\ lists' = [lists EXCEPT ![i] = kept]
          /\ touch' = IF kept # <<>> THEN touch ELSE Without(touch, {i})
          /\ rows' = Del(rows, {<<i, t>>})

(* _hydrate: rows past the TTL are skipped and deleted.                    *)
FreshRows ==
  Picked(rows, {n \in DOMAIN rows : Bounded => rows[n].at + IdleTtl >= pclock})
RowsOf(table, i) == Picked(table, {n \in DOMAIN table : table[n].id = i})
Hydrated(i) ==
  LET mine == RowsOf(FreshRows, i)
      all  == [n \in DOMAIN mine |-> [token |-> mine[n].token, at |-> mine[n].at]]
  IN SubSeq(all, IF Len(all) > MaxPerIdentity THEN Len(all) - MaxPerIdentity + 1
                 ELSE 1, Len(all))
LastOfEach(table) ==
  {n \in DOMAIN table : \A m \in DOMAIN table : m > n => table[m].id # table[n].id}
HydratedTouch ==
  LET table == FreshRows
      used  == [n \in DOMAIN table |-> [id |-> table[n].id, at |-> table[n].at]]
  IN Picked(used, LastOfEach(table))

-----------------------------------------------------------------------------
(* The handlers *)

(* registerIdentity forgets the last wake: the device is back.             *)
(* Mutant: it stays. *)
ResetCoalesceNot(i) == lastWake
ResetCoalesce(i) == [lastWake EXCEPT ![i] = {}]

SignIn(i) ==
  /\ ~Bounded /\ i \notin online
  /\ online' = online \cup {i}
  /\ lastWake' = ResetCoalesce(i)
  /\ due' = due \ {i} /\ woken' = woken \ {i}
  /\ UNCHANGED <<registry, pclock, pushMemory, checks, sends, pushSteps,
                 dropped, overtaken>>

SignOff(i) ==
  /\ i \in online
  /\ online' = online \ {i}
  /\ UNCHANGED <<registry, pclock, pushMemory, lastWake, checks, sends,
                 pushSteps, pushHistory>>

(* PUSH_REGISTER.  Whether the identity is registered on the connection is *)
(* asked once, before the URL is checked.  Notify topics are public.       *)
Admitted(i) == Bounded \/ i \in online

PushRegister(i, t) ==
  /\ Admitted(i) /\ PushStep
  /\ dropped' = dropped \ {<<i, t>>} /\ overtaken' = overtaken \ {<<i, t>>}
  /\ IF t \in UrlTokens
     THEN checks' = checks \cup {<<i, t>>} /\ UNCHANGED pushMemory
     ELSE Enroll(i, t) /\ UNCHANGED checks
  /\ UNCHANGED <<online, lastWake, sends, due, woken>>

(* The answer of isSafePushUrl, whatever happened in the meantime.         *)
UrlChecked(i, t) ==
  /\ <<i, t>> \in checks
  /\ checks' = checks \ {<<i, t>>}
  /\ Enroll(i, t) \/ UNCHANGED pushMemory
  /\ UNCHANGED <<registry, pclock, online, lastWake, sends, pushSteps,
                 pushHistory>>

PushUnregister(i, t) ==
  /\ Admitted(i) /\ PushStep
  /\ Unenroll(i, t)
  /\ dropped' = dropped \cup {<<i, t>>}
  /\ overtaken' = IF <<i, t>> \in checks THEN overtaken \cup {<<i, t>>} ELSE overtaken
  /\ UNCHANGED <<online, lastWake, checks, sends, due, woken>>

(* coalesceOk: a wake inside the window is skipped.                        *)
CoalesceOk(i) == \A w \in lastWake[i] : pclock - w >= Coalesce

(* A message is queued for an identity that is offline: fireWake sends to  *)
(* every endpoint, unless there is none or one wake was just sent.         *)
FireWake(i) ==
  /\ ~Bounded /\ i \notin online /\ PushStep
  /\ due' = IF lists[i] # <<>> THEN due \cup {i} ELSE due
  /\ IF lists[i] # <<>> /\ CoalesceOk(i)
     THEN /\ lastWake' = [lastWake EXCEPT ![i] = {pclock}]
          /\ sends' = sends \cup {<<i, t>> : t \in Held(i)}
          /\ woken' = woken \cup {i}
     ELSE UNCHANGED <<lastWake, sends, woken>>
  /\ UNCHANGED <<online, pushMemory, checks, dropped, overtaken>>

(* A Notify publish is not coalesced.  Which endpoints its priority        *)
(* reaches is left open.                                                   *)
DeliverNotifyPush(i) ==
  /\ Bounded /\ PushStep
  /\ \E reached \in SUBSET Held(i) : sends' = sends \cup {<<i, t>> : t \in reached}
  /\ UNCHANGED <<online, pushMemory, lastWake, checks, pushHistory>>

(* The transport answers: ok, a transient failure, or gone, which prunes   *)
(* the endpoint, also one that registered again after the send.            *)
SendAnswered(i, t) ==
  /\ <<i, t>> \in sends
  /\ sends' = sends \ {<<i, t>>}
  /\ UNCHANGED pushMemory \/ Unenroll(i, t)
  /\ UNCHANGED <<registry, pclock, online, lastWake, checks, pushSteps,
                 pushHistory>>

PushRestart ==
  /\ PushStep
  /\ lists' = [i \in Identities |-> Hydrated(i)]
  /\ touch' = HydratedTouch
  /\ rows' = FreshRows
  /\ lastWake' = [i \in Identities |-> {}]
  /\ online' = {} /\ checks' = {} /\ sends' = {}
  /\ UNCHANGED pushHistory

PushNext ==
  \/ PushTick \/ PushRestart
  \/ \E i \in Identities : SignIn(i) \/ SignOff(i) \/ FireWake(i) \/ DeliverNotifyPush(i)
  \/ \E i \in Identities, t \in Tokens :
       PushRegister(i, t) \/ UrlChecked(i, t) \/ PushUnregister(i, t) \/ SendAnswered(i, t)

PushSpec == PushInit /\ [][PushNext]_pushVars

-----------------------------------------------------------------------------

(* The registry is of its type and within its bounds, also after a restart *)
(* has read what was evicted or expired before it; an identity is in the   *)
(* order of use exactly if it has endpoints.                               *)
PushTypeOK ==
  /\ lists \in [Identities -> Seq(Endpoint)]
  /\ \A i \in Identities : Len(lists[i]) <= MaxPerIdentity
  /\ \A i \in Identities : Cardinality(Held(i)) = Len(lists[i])
  /\ {touch[n].id : n \in DOMAIN touch} = {i \in Identities : lists[i] # <<>>}
  /\ Bounded => Len(touch) <= MaxIdentities
  /\ sends \cup checks \subseteq Identities \X Tokens
  /\ online \subseteq Identities

(* A device that left and has an endpoint is woken by a message that is    *)
(* queued for it, however shortly before it was woken the last time: a     *)
(* wake is only ever coalesced with one of the same absence (fireWake,     *)
(* resetCoalesce).                                                         *)
WakePerAbsence == due \subseteq woken

(* "registrations SURVIVE A BROKER RESTART": the table holds the endpoints *)
(* in memory, and everything else it holds is past the idle TTL; no order  *)
(* of uses, evictions, sweeps and restarts makes the registry drop an      *)
(* endpoint before its time (TokenRegistry, NotifyPushStore).              *)
RestartFindsTheEndpoints ==
  /\ HeldAll \subseteq {Stored(rows[n]) : n \in DOMAIN rows}
  /\ \A n \in DOMAIN rows :
       Stored(rows[n]) \in HeldAll \/ (Bounded /\ rows[n].at + IdleTtl < pclock)

(* An endpoint its device unregistered is not registered, through restarts *)
(* and late answers of transports, unless its registration was still being *)
(* checked when the device unregistered it (PUSH_UNREGISTER, finishRegister).*)
UnregisteredStaysOut == HeldAll \cap dropped \subseteq overtaken

(* The registry in memory is of its type, survives a restart, and keeps out *)
(* what was unregistered.                                                   *)
EndpointsAreKept ==
  PushTypeOK /\ RestartFindsTheEndpoints /\ UnregisteredStaysOut
=============================================================================
