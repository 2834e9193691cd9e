# Verification of tyo-mq

tyo-mq is a message broker: one Node.js process (`lib/server.js`) on socket.io
with an HTTP/SSE side, pluggable message stores (`lib/storage/`), and an
optional Redis cluster (`lib/cluster.js`). This directory holds TLA+ models of
the parts of the broker whose correctness depends on the order of events, the
TLC configurations that check them on small instances, and TLAPS proofs of
their main properties for every instance. `PROJECT.json` maps every definition
to the lines it models, lists the runs with their mutants, the hazards that the
properties are for, the findings and the theorems. Line numbers below are those
of `lib/server.js` unless another file is named.

    tlc -workers 2 -config DurableReconnect.cfg MCDurableDelivery
    tlc -workers 2 -config Broker.cfg MCBroker
    tlapm DurableDelivery_proofs.tla

The proof modules need from less than a minute (RedisStore_proofs) to ten minutes
(PushAndSse_proofs) each when nothing is remembered of an earlier run.

## 1. Inventory

| Component | State | Operations | Module |
|---|---|---|---|
| Connection registry and routing (2419-3210, 6395-6805, 8619-8727) | `realms[r].producers/consumers/subscriptions`, a socket's `_tyoIdentities` | PRODUCER, CONSUMER (which closes the socket that held the name), SUBSCRIBE, UNSUBSCRIBE, PRODUCE, disconnect, the idle sweep | Registry |
| Chunked messages (6915-6957) | `pendingChunks` | PRODUCE_CHUNK, disconnect | Chunks |
| Durable delivery (3587-3984, 6816-6862) | `pendingAcks`, ACK and retry timers, `enqueueCapChains` | store or deliver a produced message, ACK, timeout, retry, dead-letter, replay on SUBSCRIBE, `dlq_replay`, `dlq_discard` | DurableDelivery |
| Message stores (`lib/storage/`) | queue, DLQ, TTLs | `enqueue`, `dequeue`, `ack`, `deadLetter`, `discardDlq`, `purgeRealm` | MessageStore, RedisStore |
| Sealed-sender inbox (7425-8038) | `_sealedAckCapable`, `_sealedDraining`, entries `sealed:<identity>` | SEALED_DELIVER, SEALED_SUBSCRIBE | SealedInbox |
| Manager proofs (379-508, 1205-1217, 8418-8471, `lib/nonce-cache.js`) | `usedManagerNonces`, the nonce keys in Redis | verify the envelope, mark the nonce, claim it in the cluster, run the command | ManagerProof |
| Cluster settings (986-1200, `lib/cluster.js`, `lib/settings.js`) | each broker's copy and file, the document in Redis | command, publish, announce, fetch, apply, watch the file, start | ClusterSettings |
| Authorization requests (1218-1310, 6292-6330, 8263-8416) | `authorizationRequests`, the shared document | request, supersede, decide, mirror, tell | AuthRequests |
| Message relay (3986-4141, 4357-4432) | group counters, the channel | dispatch, select a group member, broadcast, relay, deliver | ClusterRelay |
| Key directory (1311-1385, 7215-7326) | `realm.e2eeKeys`, the shared document | KEY_PUBLISH, mirror, purge, rename, adopt | KeyDirectory |
| Prekeys (7327-7424, 8041-8176, `lib/prekey-store.js`) | `realm.prekeys`, `realm.sealedUak`, SQLite mirror | PREKEY_PUBLISH, PREKEY_TAKE, SEALED_UAK_SET, hydrate | Prekeys |
| Tickets (8178-8261, `lib/chat-ticket-store.js`, `lib/remote-namespace.js`) | issued tickets, upload windows, seats of sessions | issue, verify, sweep, auth, disconnect | Tickets |
| Push (`lib/push.js`, `lib/notify-push-store.js`, 7548-7678) | endpoints by identity, last wakes, SQLite mirror, tokens and sessions of transports | PUSH_REGISTER, PUSH_UNREGISTER, fireWake, deliverNotifyPush, hydrate, send | Push, PushTransports |
| Realms and their keys (`lib/realm-keys.js`, 1916-2218, 3142-3155, 8477-8607) | realm configuration, tokens, a socket's `tyoAuth` | management commands, key rotation, AUTHENTICATION, authorize, sweeps | Realms |
| Rate limits (`lib/limits.js`) | buckets, connection counts | admit, release, prune, reload | Limits |
| Notify (4701-5945, `lib/notify*.js`) | claims, nonces, publish tokens, boards | claim, prove, post, heartbeat, watchdog | Notify |
| HTTP publish and SSE (4143-4614, 5946-6285) | stream registry, tickets, event history | publish, subscribe, replay, drop, clean up | Sse |
| JWKS, logging, environment, tools and UI | caches; none of the broker's | - | - |

How they interact. A handler runs to its end, so the broker has no data races;
what it has is promises. Every store call and every Redis call returns one, and
handlers of other sockets, timers and disconnects run between the call, its
effect and its continuation. The registry's socket of a name is read before
such a call and used after it. Timers outlive the sockets and messages they
were set for. With Redis the store's own operations are several round trips, and
brokers exchange whole documents with announcements in between. What survives a
restart is in SQLite tables that mirror the memory, written in the same handler.

What is hard to test, and therefore modelled (`hazards` in `PROJECT.json`):
stray timers; a reconnect that overlaps an enqueue or a replay under way; two
drains of one inbox from an old and a new socket; store calls that reject with
their effect applied or not; a restart between any two steps; documents read
and written back by two brokers; late events of a socket, session or send whose
successor is there already; validations that answer after the realm, the
registration or the topic has changed; the equality cases of time windows.

What makes each component correct is what its properties say (section 3).

## 2. Plan

Done: the modules of section 3 with their runs, and proofs of every safety
property, action property and refinement that a passing run checks. Still to do:
Notify streams and topic patterns, which are not modelled yet (section 7).

No module with a theorem reaches a recursive operator of the project's own.

## 3. Modules

### DurableDelivery

One realm; every consumer name has one subscription. A message is its msgId.
`connected`, `socketOf`, `subscription`, `pendingAcks` and `retryTimers` are the
broker's memory; `queue`, `dlq` and `addressee` the store; `enqueues`,
`dequeues`, `ackCalls`, `deadLetters`, `replays` the calls under way, each with
the point it has reached. History variables (`sentTo`, `ackedBy`, `finished` ...)
are only read by properties.

- PRODUCE is `ProduceStored`, `ProducePlain` or `ProduceThrows`, the branches of
  `deliverToSubscription` and `enqueueAndDeliverReliable`, one per subscription
  it fans out to. With a cap (`Capped`) an enqueue waits for its turn in
  `enqueueCapChains` (`ChainFree`), counts (`CountQueued`) and, in a later step,
  goes by what it counted: `Enqueued` or, `AtCap`, `EnqueueDropped`.
  `EnqueueFails` settles the call too, and `DeliverStored` is its continuation.
- SUBSCRIBE (`Subscribe`) binds an offline name and starts a replay:
  `DequeueIndex`, `DequeueRead` (Redis reads the index, then each entry) and
  `ReplayDurableMessages`.
- ACK (`Ack`) clears the pending entry if `AckIsOwn`, and calls `store.ack`.
- `AckTimeout` either dead-letters (`Exhausted`) or sets a retry timer;
  `RetryFire` delivers again, whatever has happened since.
- Dead-lettering in Redis is `DeadLetterRead`, `DeadLetterCopy`,
  `DeadLetterRemove`; `dlq_replay` is `DlqReplay`, `DlqReplayEnqueued`,
  `DlqReplayDiscarded`, `AttemptDlqLiveReplay`.
- CONSUMER displaces the live socket of the name, whose disconnect handler runs
  as part of the step. `Disconnect` frees one name only, as the loop's `break`
  does (8723).

`SyncStore` selects the kind of store. The memory and sqlite stores apply a call
before they return; only promise continuations lie in between, and these run
before the event loop takes the next message (`EventLoopFree`). So with these
stores a burst of counts can only come from one PRODUCE with several
subscriptions (`HandlerRuns`). With Redis anything may happen in between, and a
call that rejects may have been applied (`AppliedThough`); `countQueued` answers
null there and nothing is capped.

Left out: the order within a queue and that of the links of a chain, which run
in the order they came; the `catch` of `countQueued`, which no store of the
broker rejects; an exception that the sqlite store throws before it returns a
promise; payload and chunking; groups and topics;
clocks (a timer that is set may fire at any later time). `Restart` keeps the
store, as sqlite and Redis do; the memory store loses its content by design,
and no property is claimed of it.

### ManagerProof

Brokers (`Nodes`) with a `NonceCache` each, a clock in milliseconds, and the key
that `claimNonce` sets in Redis. A proof stands for its nonce, its timestamp and
a valid signature. `verifyAdminProof` is in another package; the model takes the
window its use implies, `|now - timestamp| <= MaxAge`. `Accept` verifies and
marks the nonce; alone, the broker then executes, in a cluster `Claim` does, and
`ClaimFails` executes too because `claimClusterNonce` fails open. Its reply from
Redis and the execution are one step (`lib/cluster.js:298-303`). A second
arrival at a broker whose claim of that nonce is under way is bounded by the
guard `<<n, p>> \notin claims`: it would need a claim that waits for longer than
the whole retention.

### SealedInbox

A blob is one SEALED_DELIVER call and the queue entry it may become.
`DeliverOnline` emits to the socket of `FindRecipientSocket`, awaiting an ACK if
the socket declared it; `OnlineAnswered` and `OnlineTimeout` settle it, the
latter by queueing the blob. `DeliverOffline` goes through `CountRealm`,
`CountInbox` and `Enqueued`. An acknowledged drain (`SealedSubscribe`) is
`Dequeued`, then for each entry of the batch `DrainNext`, then `DrainAnswered`
or `DrainTimeout`, then `DrainAcked` or `DrainDeadLettered`, and at last
`DrainEnds`, which reports `More` and gives back the lock. Old clients have
`OldSubscribe` and `OldDequeued`, which acks what it emits. `ClientTakes` is the
recipient: it takes a frame in or refuses it. A client answers alike each time
it gets the same blob only if it chooses to; the model does not assume it.

A store call is one step here, at any time after it is made; the round trips
within it are DurableDelivery's subject, except that a failing `deadLetter` may
leave its copy without its removal. A queue is a set, so a drain takes its
entries in any order. Calls that are refused before they change anything
(configuration, rate, realm, access key) are left out, and so are the DLQ
commands, which are modelled in DurableDelivery.

### Registry

One realm: `cons`, `prod` and `subs` are the tables `consumers`, `producers` and
`subscriptions`, with the socket a name is bound to and the links between them.
CONSUMER (`RegisterConsumer`) displaces the socket that holds the name, whose
disconnect handler runs inside the step, or refuses a duplicate; SUBSCRIBE,
UNSUBSCRIBE (which removes nothing, as its code does), PRODUCER, PRODUCE,
disconnect and the two halves of the idle sweep are one action each.
`RegistryIsConsistent` is TypeOK, HolderIsReachable (a name is bound to the live
socket that took it last) and NamedSubscribersAreKnown (a producer knows the
consumers that named it); `WantedIsRouted` says that what was subscribed to is
found by PRODUCE. Topic patterns, groups and linked realms are left out.

### Chunks

Pieces of a transfer are kept under socket and transfer id and counted.
`ProducedWhenWhole`: a transfer is produced, once, exactly when all its pieces
were taken. A client sends each piece once, and again only when the limiter
refused it: a piece sent twice would fill the count with another one missing
(`Parses` says what becomes of that), and no client of the repository does so.

### ClusterSettings

Settings stand for the set of realms they configure. Each broker has a copy, a
file, a pipeline of Redis commands and announcements on their way. A command
writes copy, file and document (`Command`); a peer that is told fetches and
replaces; a watched file is merged, so that it can add and never remove; a
broker that stops misses announcements and starts from its file.
`SettingsAgree`: when nothing is under way all copies and files are the
document. It holds with one writer, a warm start and reads of the file that end
before the next change, and fails otherwise (section 5).

### AuthRequests

A request is its number; `status` is each broker's object, `authDoc` the shared
document, `pipes` the Redis round trips of a broker in order, `tasks` the
decisions of a broker alone. `DecisionsAreTold` is DecidedOnceAlone (one
decision per request on a broker without cluster, none of a superseded one) and
ToldOfEveryDecision (the client hears of each decision once, from whichever
broker holds its socket). In a cluster two brokers may both decide a request:
the code lets the last write win, and no document says otherwise.

### ClusterRelay

Subscribers with their options move between brokers; `wires` are the messages on
their way to peers. The origin routes with full semantics, peers deliver to live
sockets only. `RelayReachesEach` is OneMemberPerGroup and LiveReachesEveryNode.

### KeyDirectory

Each broker runs a chain of read-modify-write jobs on the document; an adoption
reads the document and applies it in a later step. `LookupsAgree`: with one
publishing broker and nothing under way, every broker finds what the document
has, a broker that joined late included. Keys are published on one broker: with
several, jobs of two brokers overwrite each other as settings do.

### Prekeys

Memory (`identityKey`, `pool`, `access`) and SQLite (`diskKey`, ...). A one-time
prekey is `<<installation, id>>`. A publication of a new identity key drops the
old pool; a write of the mirror may fail (`MaxWriteErrors`), which the code logs
and goes on from. A restart reads the rows by id (`ById`), so that the order of
the pool may change and its keys do not. `TakenOnce`: a prekey is handed out once, over restarts, until
a write failed. `DirectoryIsSound` adds that an answer is of one installation
even after failed writes, and that the mirror equals the memory until then.

### Tickets

Attachment tickets and tickets of the `/remote` namespace, with a clock.
`TicketsAreSound` is UploadsPerWindow (the cap over any interval, with the exact
factor that non-sliding windows give), BurntOnlyByRedemption and SessionIsLive.
`RemoteAuth` has no guard on who sits where, as its handler has none: an agent
may be seated over another one, and a socket may redeem a second ticket, which
overwrites its `remoteSession`, so that `RemoteDisconnect` leaves the last seat
only and the socket stays listed in the first for ever. SessionIsLive therefore
says: every viewer that is connected is listed by its session, always; and the
session names exactly who is connected unless one of these two things ever
happened to it (`muddled`, section 5). The record of them is never cleared, not
even when the code deletes an empty session.

### Push

One of the two registries, chosen at the start. Endpoints are lists by identity
with times; `touch` is the order of use that eviction follows; `rows` the SQLite
table. PUSH_REGISTER of a URL is checked asynchronously (`UrlChecked`), answers
of transports come late (`SendAnswered`) and may remove an endpoint.
`WakePerAbsence`: a wake is coalesced only with one of the same absence.
`EndpointsAreKept` adds that a restart finds the endpoints in memory and nothing
that has not expired besides, and that what a device unregistered stays out,
except for a registration that was still being checked.

### PushTransports

The FCM access token with its single exchange, and the APNs provider token and
session pool. `TransportsAreSound`: one exchange while sends wait, no request
is refused because its cached token died under way, and an open session is in
the pool whatever late events its predecessors have.

### Realms

Configuration, tokens and sessions of realms, with a clock. `birth` and `ended`
tell a realm from a later one of the same name. AUTHENTICATION without a token
is one step; with an external token it is `ValidateExternalToken` and, later,
`Validated`, with any management command in between; the session it opens has
the birth of the realm the validator was asked for. `realmStore` selects the
kind of store. With "memory" (or sqlite) an enqueue and a purge are one step
each. With "redis" `EnqueueDurable` begins an enqueue and `EnqueueEnds` is its
ZADD, or its failure; `StartPurge` begins a purge that nobody waits for, and
`PurgeScans`, `PurgeDeletes` or `PurgeFails` follow, with any other step in
between. The commands on single messages are RedisStore's subject; here a purge
deletes at least what its scan found, and any of what came under the same name
since. `NoKeyOutlivesItsGrace`: whatever rotations follow, a replaced key is not
accepted after its grace. `NothingOutlivesItsRealm`: no token outlives its
realm; a session only if its validation was under way when the realm ended; a
message only while the purge is under way, if it failed, or if an enqueue for
the realm was under way when it ended (`loose`).
`OnlineIsConnected`: a name that is online has a connected socket; it holds
while no socket changes its realm after it registered, or authenticates for
another one while its token is being validated (`Crossing`, section 5).

### Limits

Units are scaled so that a bucket gets one per tick. `ConnectionsAreLimited`:
the rate over every interval, and the count through reloads of the settings.

### Notify

One topic with its claim, proofs, nonces, publish tokens and in-flight posts,
and its board with heartbeats and watchdog. `NotifyRestart` keeps the claim, the
board and the tokens, which are in SQLite, and forgets the nonces and the posts
under way. `TopicsAreGuarded` says which exceptions the code has: between two
starts of the broker a proof is accepted again only if it was dated ahead of the
clock, and then only after a whole window; after a restart one that is still
within its window is accepted again, whatever its date; and a message without a
valid token is routed only if it had passed its check before the topic was
claimed or the token revoked. `Heartbeat` and `Watchdog` are one step each,
which a handler and a timer callback are to all others; `Killed` ends one between
any two of its statements. `AlarmsAlternate`: DOWN and RECOVERED of a key alternate and
agree with the board, but for one card or one change of the board for each time
the broker was killed.

### Sse

Frames are numbered; `hist` is the history, `adding` what the Redis store has
not indexed yet. A stream goes through validation, replay with live frames held
back, and live; a slow reader is dropped; `Cleanup` runs once per event of the
connection. `StreamsAreWhole` is CapsCountStreams, OncePerConnection and, for
the stores that write in one step, ResumeLeavesNoGap.

### Subsequences

`Picked(s, P)` is what `Array.prototype.filter`, or a `DELETE ... WHERE` on the
rows of a table, leaves of the sequence `s`: the elements at the positions `P`, in
order. Push filters its lists, its order of use and its table with it, Sse the
frames it held back. It is written in closed form, by the rank of a position,
so that proofs can say of each element where it came from.

### MessageStore and RedisStore

MessageStore is the promise of a store: a call is open from request to answer,
its effect happens in between, once; a message leaves the queue only when it is
acknowledged, lapsed, purged or buried; dequeue returns what was queued
throughout and nothing that never was. The memory and SQLite stores do each call
in one step. RedisStore sends one command at a time, with expiry of keys and
stops of the broker between commands. Calls of all kinds overlap, a purge with a
dequeue as well; only a second dequeue and a second purge wait for the first in
the model (two dequeues of one queue only read, and prune what has lapsed).
`Promised == INSTANCE MessageStore WITH
...` maps its keys and indexes to the abstract queue, and `KeepsThePromise` is
`Promised!Spec`.

### MCCluster and MCBroker

These compose components for one run each. The components they extend share no
state in these models - different tables, Redis keys and channels - so a
behaviour of all of them together is a behaviour of each: the run explores one
`part` at a time and checks all properties of all parts. Interactions that do
share state are inside the modules: durable delivery with registry and store in
DurableDelivery, sealed inbox with registry and store in SealedInbox,
registrations with realms in Realms, streams with the store in Sse.

## 4. Runs

| Run | Checks | Shows |
|---|---|---|
| durable_reconnect | TypeOK, AckedByRecipient, DeadLetteredAfterAllAttempts, OfflineMessagesAreStored | one message over Redis, three sockets, two overlapping replays, three attempts |
| durable_faults | NoMessageLost, AckedStaysOut, DeliveredWasStored | two rejecting calls, applied or not, or a restart between any two steps, against two messages and the DLQ commands |
| durable_sync | QueueWithinQuota, QueueDrains | with the stores that answer at once: a burst of two messages through the chain against a cap of one; a queued message for a consumer that subscribed is acknowledged or dead-lettered |
| durable_stranded | QueueDrains - violated | over Redis a message whose enqueue overlaps the reconnect stays queued |
| sealed_overlap | TypeOK, QueuedIsKept, AwaitedIsKept, DeadLetteredWasRefused | two sockets of one recipient, overlapping drains with and without ACK, a failing call, an expiry, a restart |
| sealed_batch | NoMoreMeansDone, DrainsEnd | two blobs in batches of one, drained with and without ACK; every drain ends |
| cluster | ClusterTypeOK, SecondUseOnlyAtTheEdge, ExecutedApart, AcceptedApart, SettingsAgree, DecisionsAreTold, RelayReachesEach, LookupsAgree | the five protocols over Redis, two brokers each |
| settings_diverge | SettingsAgree - violated | two brokers that start together, or take commands at the same time, stay apart |
| registry | RegistryIsConsistent, WantedIsRouted | one consumer with two instances, two producers, two sockets, without a bound on steps |
| broker | TakenOnce, DirectoryIsSound, TicketsAreSound, WakePerAbsence, EndpointsAreKept, TransportsAreSound, ConnectionsAreLimited, ProducedWhenWhole, TopicsAreGuarded, AlarmsAlternate, NoKeyOutlivesItsGrace, NothingOutlivesItsRealm, OnlineIsConnected, StreamsAreWhole, KeepsThePromise | the services of one broker |
| realm_rate | RealmRate - violated | pruning an idle bucket refills it |
| sse_redis_gap | ResumeLeavesNoGap - violated | over Redis a resuming client misses a guaranteed message |

A property that is a conjunction has a mutant for more than one of its parts.
The largest runs: sealed_overlap 2.3 million distinct states, durable_faults 1.6
million, cluster 1.5 million, broker 0.7 million, registry 0.5 million; one to
three minutes each.

Bounds. Sockets: three are an old one, its successor and one more, which is what
a stray timer, a displaced socket and a new one need; two where replays are not
the subject. Messages: two wherever a copy (`dlq_replay`), an order or a batch
boundary matters or a cap of one is to be passed. Attempts: three where the
count matters. Failures: two, so that the recovery of one can fail; two failures
and a restart are explored apart (`FaultsApart`), because a restart drops the
continuations that a second failure could meet, and of two subscriptions one
comes after the restart. In Realms and Sse a bound is on two counts together
(`MaxTogether`: three commands with one authentication or two with two;
`MaxEvents`: three connections and two frames or two and three). The
constraints of MCBroker leave out the fourth ticket of remote sessions, what
begins with the second of two realms or of two SSE clients, which differ by name
only, and realms over Redis that end by the sweep, which does what the command
does. Starts of the Notify broker: two (`MaxRuns`), so
that a proof is used on both sides of a restart. One restart where the memory is
afterwards as at the start; two in Prekeys, where the mirror it starts from has
itself been hydrated. Brokers: two, an origin and a peer. `MaxAge` is 2 and the
clock runs to three times that, so that both sides of the window, its inside and
the pruning between two uses occur; the other clocks likewise pass each of their
periods. Caps (`PoolMax`, `MaxTickets`, `MaxIdentities`, `SseCap`,
`MaxConnections`) are one or two and the instance has more candidates than that.
Pieces of a message: three, with two transfers of one socket and one of another
under the same id. The Redis store: four overlapping calls on two messages, one
of which can lapse. Every bound is a named constant; the proofs do not depend on
them. Sockets, messages, replay slots, identities and names are symmetric in the
safety runs that use `Symmetry`. `CHECK_DEADLOCK FALSE` is set where the broker
may become idle because what the instance provides is used up.

Fairness (`Fairness` in DurableDelivery and SealedInbox). Weak fairness of the
store's answers, of the continuations and of the timers: Node.js runs every
settled promise and every due timer, and a store that is up answers. Clients,
senders, operators and failures owe nothing: DrainsEnd holds with clients that
never answer, QueueDrains with clients that never acknowledge. In the other
modules "eventually" is stated as what holds once nothing is under way
(`SettingsQuiet`, `AuthQuiet`, `RelayQuiet`, `KeyQuiet`), which needs no
fairness.

## 5. Where the code departs from its documents

The four violated runs are the `findings` of `PROJECT.json`; each quotes the
document, comment or test that says otherwise. Further departures that were met
while modelling have a configuration of their own, which TLC refutes
(RealmHardStop.cfg has three, which `tlc -continue` goes through):

| Configuration (module) | Property | What happens |
|---|---|---|
| DurableTwoNames.cfg (MCDurableDelivery) | OfflineMessagesAreStored | the disconnect handler frees one consumer name and stops (8723): a socket with two leaves one bound, and its messages are sent to a closed socket. docs/PERSISTENCE.md:116 |
| DurableAckOnly.cfg (MCDurableDelivery) | AckSubscriptionIsServed | `ack` without `durable` has no stored entry, and delivery throws (3792). README.md:127-130 |
| SealedCap.cfg (MCSealedInbox) | InboxWithinCap | the cap is read before the enqueue (7885): concurrent deliveries and requeues pass it. lib/limits.js:24 |
| AuthRequests.cfg (AuthRequests) | DecidableFromAnyNode | two brokers mirror requests at the same time and one is lost from the document. README.md:205 |
| ClusterRelay.cfg (MCClusterRelay) | OfflineIsStored | the origin does not know the subscription of a durable consumer that was connected elsewhere, and its broker does not store relayed messages. docs/PERSISTENCE.md:116 |
| RegistryEviction.cfg (MCRegistry) | SubscriptionsAreNeverEvicted | the sweep of an idle producer deletes subscriptions of consumers that are away. Comment at 3013-3014 |
| RealmGrace.cfg (Realms) | GraceIsHonoured | `set_realm_key` sent again with the same key deletes the previous key within its grace (2128). README.md:433-436 |
| RealmCrossing.cfg (Realms) | OnlineIsConnected | a socket that changes its realm after it registered, or while its token is validated for another one, stays online in the old one when it disconnects (8655) |
| RemoteTakeover.cfg (Tickets) | EverySessionIsLive | a second agent takes the seat and the first one's disconnect clears it (lib/remote-namespace.js:289-290), or a socket authenticates again and stays listed in the seat it had before (207). tests/remote-namespace.test.js:505 |
| TopicRestart.cfg (Notify) | OnceUnlessAhead | nonces are in memory (lib/notify-auth.js:84): a proof that was used before a restart is accepted again after it, within its window |
| RealmHardStop.cfg (Realms) | ExpiryIsAHardStop | a validation that was under way when the realm went opens a session in it (8588), which nobody closes. docs/EPHEMERAL-REALMS.md:198 |
| RealmHardStop.cfg (Realms) | DurableDataDiesWithTheRealm | over Redis an enqueue that was under way, or a purge that failed, leaves a message. docs/EPHEMERAL-REALMS.md:202 |
| RealmHardStop.cfg (Realms) | OnlyItsDataDies | a purge that is still under way when the name is given to another realm deletes that realm's messages (lib/storage/redis.js:342) |

Where a property is violated under some circumstance, a passing run checks it
(or what remains of it) under the others: QueueDrains and ResumeLeavesNoGap with
stores that answer at once, OfflineMessagesAreStored with one name per socket,
SettingsAgree with one writer, SessionIsLive for sessions no agent was seated
over and no socket left by a second `auth`, OncePerRunUnlessAhead between two
restarts, NothingOutlivesItsRealm but for what was under way or failed,
OnlineIsConnected without crossings, WantedIsRouted for producers that were not
swept, the rate of connections where the bucket of realms fails.
SecondUseOnlyAtTheEdge states an exception exactly: the cache forgets a nonce
`2 * MaxAge` after its use, which is the last instant at which a proof stamped
`MaxAge` ahead is still fresh, so single use fails there and only there.

## 6. Proofs

All proofs are for every value of the constants, the bounds included, under the
named assumptions of the modules. These say that the `No...` values are no
members of the sets they stand beside; that limits, periods and bounds are
natural numbers, and `MaxAttempts`, `Batch`, `MaxAge`, `PruneEvery`, `Total`,
`UploadCap`, `WindowMs`, `MaxInstalls` and the caps of Push and Sse positive;
that options are options; that the default realm is not a configured one, and
stores of realms are of the two kinds; that
brokers without a cluster are alone; and of the push transports
(TransportAssumption) what their constants in `lib/push.js` satisfy, that a
request times out within the margin a token is renewed ahead. A theorem that
needs more says so in an ASSUME of its own, and section 5 has the configuration
in which it fails without.

| Theorem (module) | Property | Under |
|---|---|---|
| TypeCorrect, NoLoss, AckOwnership, DeadLetterBound, AckIsFinal, StoreBeforeDelivery (DurableDelivery_proofs) | TypeOK, NoMessageLost, AckedByRecipient, DeadLetteredAfterAllAttempts, AckedStaysOut, DeliveredWasStored | |
| QuotaIsKept | QueueWithinQuota | |
| OfflineIsQueued | OfflineMessagesAreStored | `[]OneNamePerSocket` |
| BrokerNonceRetention, ClusterSingleUse, SecondUseAtTheEdge (Cluster_proofs) | AcceptedApart, ExecutedApart, SecondUseOnlyAtTheEdge | ExecutedApart: a cluster; SecondUseOnlyAtTheEdge: a cluster, or a broker that does not restart |
| InboxTypeCorrect, QueuedBlobsAreKept, AwaitedBlobsAreKept, OnlyRefusedIsDeadLettered, MoreIsHonest (SealedInbox_proofs) | TypeOK, QueuedIsKept, AwaitedIsKept, DeadLetteredWasRefused, NoMoreMeansDone | |
| TablesAgree, SubscriptionsAreRouted (Registry_proofs) | RegistryIsConsistent, WantedIsRouted | |
| RedisKeepsThePromise (RedisStore_proofs) | KeepsThePromise: RedisStore implements MessageStore | |
| KeysEndWithTheirGrace, RealmsEndWhole, OnlineMeansConnected (Realms_proofs) | NoKeyOutlivesItsGrace, NothingOutlivesItsRealm, OnlineIsConnected | the last two: no crossing |
| ChunksProduceWhole, TopicsStayGuarded, CardsAlternate, TransportsStaySound (Services_proofs) | ProducedWhenWhole, TopicsAreGuarded, AlarmsAlternate, TransportsAreSound | |
| ConnectionsStayLimited | ConnectionsAreLimited | a bucket fills up before it counts as idle |
| TicketsStaySound, and ChatTicketsStaySound for its parts about attachments | TicketsAreSound | |
| NoPrekeyTwice, DirectoryStaysSound | TakenOnce, DirectoryIsSound | |
| EveryAbsenceIsWoken, EndpointsStay (PushAndSse_proofs) | WakePerAbsence, EndpointsAreKept | |
| StreamsStayWhole; StreamsAreCounted | StreamsAreWhole; CapsCountStreams, and the caps bound the streams | |
| SettingsStayInSync (Cluster_proofs) | SettingsAgree | one writer that does not crash, a warm start, short reads of the file |
| LookupsSeeEveryKey | LookupsAgree | one publisher, there from the start |
| RelayReachesEveryNode | RelayReachesEach | |
| EveryDecisionIsTold | DecisionsAreTold | |
| ClusterTypeCorrect | ClusterTypeOK, of the five protocols together | |

Beside these, SettingsTypeCorrect, KeyTypeCorrect, AuthTypeCorrect,
RelayTypeCorrect and RealmTypes are about types, and the `...Invariance` theorems state the inductive
invariants. Hardly any property is inductive as it stands. What is added, and
why:

`DurableDelivery_proofs`. `IndInv` adds: an unused msgId is nowhere
(`UnusedInv`); only one call ever applies a message to the queue, and once
(`EnqueueInv`) - without it an ACK could be followed by a late enqueue; whatever
is referred to was stored (`StoredInv`); between the copy and the removal of a
dead letter the message is in the DLQ or left it in good order
(`DeadLetterInv`); and the attempt of a pending entry or retry timer is at most
the number of deliveries (`PendingInv`, `RetryInv`), from which the dead-letter
bound follows. `Delivery` and `NoDelivery` are the lemmas about
`DeliverDurableEntry`, which replay, retry and first delivery share. The quota
needs `ChainInv`: at most one enqueue is between its count and its insert, and
what it counted is at least what producers have in the queue since, because what
came meanwhile are copies and the other links of the chain have not counted yet.
`StepsOfTheChain` says what a step may do to it: take messages out, count, insert
by a count, or add a copy. Without the chain two counts of the same queue let
both messages in. For
OfflineMessagesAreStored a name is bound to an open socket or to none
(`BoundIsOpen`), which the disconnect handler preserves only where a socket has
one name.

`Cluster_proofs`, managers. An accepted nonce is in the cache with that time until its
retention is over, and all recorded times are past (`PruneKeeps` shows that
pruning drops nothing that `has` still reports). For the cluster: until a claim
fails, the key in Redis is held for `2 * MaxAge` after the execution
(`ClaimInv`). For the edge: whoever executes knows when the last execution was
(`LastUseInv`), and no proof is executed before its window begins (`EdgeInv`).

`SealedInbox_proofs`. `IndInv` adds: an answer under way was given by a client
that took in or refused that blob (`ReplyInv`); what a drain is about to ack was
taken in, what it is about to dead-letter was refused, and what it has done was
one of these or counts as pending (`DrainInv`); and store.ack calls are for
released entries (`KeptInv`). Two drains of one inbox need no exclusion for this.

`Registry_proofs`. The last taker of a name is connected or recorded as gone
(`HolderInv`); a producer that a consumer names is listed by one of the
consumer's subscriptions (`ListedInv`), and what was subscribed to is in both
tables (`RoutedInv`), both unless the sweep removed that producer. `ListedInv`
is what PRODUCER's `getSubscribersByProducer` relies on.

`RedisStore_proofs`. The initial states map to initial states, and every command
to a step of MessageStore or to a stutter. `RedisInv` says what a call relies on
until its next command (`CallOK`): calls about a message come after its enqueue;
the key of an enqueue is there unless its time is up; what an ack or a prune
found out about its message stays so; a dead letter is acknowledged after both
its parts were written; what was queued throughout a dequeue is found, still to
be looked at, or being acknowledged because its time is up.

`Realms_proofs`. For keys: the current one is promised for ever, the previous
one at least to its deadline (`KeysInv`). For those inside: whoever is in a realm
has a role there and a socket that has left is in none (`RolesInv`); what a
socket waits for is in the realm it asked for, and so is the session it got
meanwhile (`PlaceInv`, where a crossing would break it). `BirthInv` extends
NothingOutlivesItsRealm to what is still to come: a validation or an enqueue under
way is for the present realm of its name or was under way when that one ended;
and a message of an earlier realm is among what its purge has found, or that
purge has yet to scan.

`Services_proofs`. Chunks: the count of pieces is the cardinality of those taken,
because no piece comes twice. Notify: a proof that is not dated ahead is
remembered until its window is over or the broker restarts (`NonceInv`); kills
are counted against cards that are missing or doubled. Transports: a token outlives
the request that carries it by arithmetic over margin, timeout and age
(`FcmInv`, `ApnsInv`). Limits: what passed since any moment and what the bucket
holds are together within what was full then plus what came in (`Paid`). Tickets:
less than a window's length before the present window there are at most
`UploadCap - 1` earlier uploads (`WindowInv`), a ticket in the store was not
redeemed and a living one that is gone was (`StoreInv`), and a session that is
not `muddled` names a socket exactly when the socket sits in it, others at least
the viewers (`SeatInv`). Prekeys: a key that was
made is of an earlier installation or has a number that its client has used
(`Made`); pool and mirror hold keys of one identity, and until a write fails they
are the same keys and none was handed out.

`PushAndSse_proofs`. Wakes: what is remembered was sent in this absence
(`WakeInv`). Endpoints (`EndpointsInv`): lists, table and order of use are each
sound (no endpoint and no identity twice, no time ahead of the clock, rows in the
order of their times); an identity is in the order of use exactly if it has
endpoints; the table has every endpoint in memory and every other row is past
the TTL (`Mirrored`). For this no row may be later than the last use of its
identity (`Covered`): a sweep then forgets an identity only when all its rows are
past the TTL too. And a registration that is still being checked was not
unregistered, or is among the exceptions.

Streams: a request that is being validated is not in the registry, and a step
counts down as many streams as it takes off it (`SinksInv`, `CapInv`). The
history has no frame twice and, with a store that writes in one step, every
guaranteed frame in the order of publication (`HistoryInv`); one connection is
written no frame twice, and what its buffer holds comes after its resume id
(`StreamInv`). ResumeLeavesNoGap is not inductive, because a client may leave in
the middle of what it was sent; `FollowInv` says it frame by frame: up to each
guaranteed frame that was written, or received last, nothing is missing since
the first. The lemmas about `Picked`, `SubSeq` and `WriteAll` are about every
position of a sequence. The library's induction theorems cannot be instantiated
here, so these lemmas are shown by a least counterexample (`FirstOfNaturals`).

`Cluster_proofs`. Settings: the document will be the writer's file when its last
SET is done (`WriterInv`), and until another broker has the document, an
announcement, a fetch or the document itself is on its way to it (`ReaderInv`).
Keys likewise, with the jobs of the publisher's chain in the place of the SETs
(`PublisherInv`, `FollowerInv`). Relay: the messages on a wire ascend; a message
that was not sent is nowhere; a subscriber that stayed has it on its broker's
wire and no copy yet, or not on the wire and the copy it was due
(`StayingAreReached`); one member of the groups at most holds a normal message.
Copies are bounded by moves: a subscriber gets one from the queue when it joins
and one live while it stays, unless the message is past its broker (`CopiesInv`).
Authorization: every decision has one step at a time in the pipes and is
announced after it was carried out (`OneStepEach`, `AnnouncedAfterwards`), so
that the outcomes of a request are its answers and those that are still owed,
counted (`Counted`); alone, a request that is decided is neither pending nor
superseded (`AloneInv`). `PartsBehave` shows what MCCluster rests on: a behaviour
of ClusterSpec is a behaviour of each of the five protocols.

Only model-checked: QueueDrains and DrainsEnd, because liveness under fairness is
beyond the prover.

The violated properties of section 5 are false, and nothing about them is
proved.

## 7. Not modelled

- Notify streams with their ring buffer, and the topic directory (5016-5330);
  topic patterns and linked realms in routing: planned (section 2).
- JWKS (`lib/jwks.js`): a cache of keys behind `validateExternalToken`, whose
  answer Realms and Sse take as given, early or late.
- The relaying of frames between seats of a remote session, SEALED_CERT_REQUEST,
  KEY_LOOKUP and `listDlq`: they change no state.
- Message and byte buckets of `lib/limits.js` are the same `_take` as the
  buckets that Limits has, with other rates.
- Signatures and encryption (libraries), HTTP parsing, building and parsing of
  push frames, logging, metrics, environment, the command-line tools and the
  manager UI, which are clients of the broker or pure I/O.
