------------------------------- MODULE Notify -------------------------------
(***************************************************************************)
(* One topic of the public Notify service: claiming it, the proofs of its   *)
(* owner, publishing under its tokens, and its status board with watchdog   *)
(* (lib/server.js: handleNotifyRequest and the handlers it calls;           *)
(* lib/notify-auth.js; lib/notify-store.js; lib/notify-boards.js).          *)
(*                                                                          *)
(* The claim, the board and the tokens are rows of SQLite, written in the   *)
(* step of the handler; a broker that is killed may stop between two of     *)
(* its statements.  The nonces of used proofs are kept in memory, and a     *)
(* restart forgets them.                                                    *)
(***************************************************************************)
EXTENDS Naturals, Sequences, FiniteSets

CONSTANTS Proofs,       \* signed proofs of the owner, each with its nonce
          ProofWindow,       \* SIGNATURE_MAX_AGE_MS, also ttlMs of NonceSeen
          SweepSize,    \* how many nonces _sweep waits for
          PublishTokens, OwnToken, NoPublishToken,
          BoardKeys,    \* keys of a board
          BeatTtls,     \* ttl tags of heartbeats, 0 for none
          MaxNotifyClock, MaxPosts, MaxKills,  \* bounds
          MaxRuns       \* bound: starts of the broker

ASSUME NotifyAssumption ==
  /\ OwnToken \in PublishTokens /\ NoPublishToken \notin PublishTokens
  /\ ProofWindow \in Nat \ {0} /\ BeatTtls \subseteq Nat /\ MaxNotifyClock \in Nat

VARIABLES
  nclock,
  owner,      \* notify_claims: "nobody", a "device" or the broker's "board"
  board,      \* the topic has a row in notify_board_config
  validTokens, \* the claim's token and notify_publish_tokens
  stamp,      \* by proof, its timestamp
  seen,       \* NonceSeen: by proof, when its nonce expires, or 0
  run,        \* starts of the broker
  uses,       \* history: by proof, when and in which run it was accepted
  posts,      \* publish requests whose body is being read
  posted,
  strays,     \* history: messages routed without a valid token
  beats,       \* notify_board_state: by key
  cards,      \* history: by key, DOWN and RECOVERED cards delivered
  kills

topicVars == <<validTokens, stamp, seen, run, uses, posts, posted, strays>>
boardVars == <<beats, cards, kills>>
notifyVars == <<nclock, owner, board, topicVars, boardVars>>

NoRow == [expires |-> 0, down |-> FALSE, crit |-> FALSE]

NotifyInit ==
  /\ nclock = 0 /\ owner = "nobody" /\ board = FALSE /\ validTokens = {}
  /\ stamp \in [Proofs -> 0..MaxNotifyClock]
  /\ seen = [p \in Proofs |-> 0] /\ uses = [p \in Proofs |-> <<>>] /\ run = 1
  /\ posts = {} /\ posted = 0 /\ strays = {}
  /\ beats = [k \in BoardKeys |-> NoRow]
  /\ cards = [k \in BoardKeys |-> [down |-> 0, recovered |-> 0]]
  /\ kills = 0

NotifyTick ==
  /\ nclock < MaxNotifyClock /\ nclock' = nclock + 1
  /\ UNCHANGED <<owner, board, topicVars, boardVars>>

-----------------------------------------------------------------------------
(* The owner                                                                *)

(* POST claim: the first wins, and is told the topic's publish token.       *)
NotifyClaim ==
  /\ owner = "nobody"
  /\ owner' = "device" /\ validTokens' = {OwnToken}
  /\ UNCHANGED <<nclock, board, stamp, seen, run, uses, posts, posted, strays,
                 boardVars>>

(* verifyProof: within the window of the broker's clock, before or after.   *)
VerifyProof(p) ==
  stamp[p] <= nclock + ProofWindow /\ nclock <= stamp[p] + ProofWindow

(* checkAndRecord, with its sweep of expired nonces.                        *)
SweptSeen ==
  IF Cardinality({p \in Proofs : seen[p] # 0}) < SweepSize THEN seen
  ELSE [p \in Proofs |-> IF seen[p] < nclock THEN 0 ELSE seen[p]]
(* Mutant: the last moment of a nonce is not counted. *)
SeenBefore(p) == SweptSeen[p] # 0 /\ SweptSeen[p] > nclock
SeenNonce(p) == SweptSeen[p] # 0 /\ SweptSeen[p] >= nclock

(* A request on a claimed topic under a proof (json and raw streams, POST   *)
(* register, unregister and sse-ticket).                                    *)
UseProof(p) ==
  /\ owner = "device" /\ VerifyProof(p)
  /\ ~SeenNonce(p)
  /\ seen' = [SweptSeen EXCEPT ![p] = nclock + ProofWindow]
  /\ uses' = [uses EXCEPT ![p] = Append(@, [at |-> nclock, run |-> run])]
  /\ UNCHANGED <<nclock, owner, board, validTokens, stamp, run, posts, posted,
                 strays, boardVars>>

-----------------------------------------------------------------------------
(* Publishing                                                               *)

(* publishAuthRejected.                                                     *)
Authorized(t) == owner = "nobody" \/ t \in validTokens
(* Mutant: any token will do. *)
RejectedIfMissing(t) == owner # "nobody" /\ t = NoPublishToken
PublishAuthRejected(t) == owner # "nobody" /\ t \notin validTokens

(* A request: with the topic in its path it is checked before its body is   *)
(* read, with the topic in its body after.                                  *)
Post(form, t) ==
  /\ posted < MaxPosts /\ posted' = posted + 1
  /\ form = "path" => ~PublishAuthRejected(t)
  /\ posts' = posts \cup {[n |-> posted, form |-> form, token |-> t,
                           passed |-> Authorized(t)]}
  /\ UNCHANGED <<nclock, owner, board, validTokens, stamp, seen, run, uses, strays,
                 boardVars>>

(* The body has been read: the message is routed, or answered with 401.     *)
RouteNotify(x) ==
  /\ x \in posts /\ posts' = posts \ {x}
  /\ strays' = IF (x.form = "body" /\ PublishAuthRejected(x.token))
                    \/ Authorized(x.token)
               THEN strays ELSE strays \cup {x}
  /\ UNCHANGED <<nclock, owner, board, validTokens, stamp, seen, run, uses, posted,
                 boardVars>>

(* POST and DELETE tokens, of boards only; the claim's own token stays.     *)
MintToken(t) ==
  /\ board /\ t \notin validTokens \cup {OwnToken}
  /\ validTokens' = validTokens \cup {t}
  /\ UNCHANGED <<nclock, owner, board, stamp, seen, run, uses, posts, posted,
                 strays, boardVars>>
RevokePublishToken(t) ==
  /\ board /\ t \in validTokens \ {OwnToken}
  /\ validTokens' = validTokens \ {t}
  /\ UNCHANGED <<nclock, owner, board, stamp, seen, run, uses, posts, posted,
                 strays, boardVars>>

(* The broker stops and starts again: claims, tokens and boards are kept,   *)
(* nonces and requests under way are not.  It may have stopped between the  *)
(* claim of a board and its row.                                            *)
NotifyRestart ==
  /\ run < MaxRuns /\ run' = run + 1
  /\ seen' = [p \in Proofs |-> 0] /\ posts' = {}
  /\ \/ UNCHANGED owner
     \/ owner = "nobody" /\ owner' = "board"
  /\ UNCHANGED <<nclock, board, validTokens, stamp, uses, posted, strays,
                 boardVars>>

-----------------------------------------------------------------------------
(* Boards                                                                   *)

(* POST board: claims the topic with a key of the broker's, then writes     *)
(* the board's row; a topic that is claimed already is refused.             *)
BoardCreate ==
  /\ ~board /\ owner = "nobody"
  /\ owner' = "board" /\ board' = TRUE
  /\ UNCHANGED <<nclock, topicVars, boardVars>>

(* A heartbeat: upsertBoardState keeps `down', setBoardDown then clears     *)
(* it, and a key that was down is announced as recovered.                   *)
Beaten(k, ttl) ==
  [expires |-> IF ttl > 0 THEN nclock + 2 * ttl ELSE 0,
   down |-> beats[k].down, crit |-> FALSE]
(* Mutant: a heartbeat leaves the key down. *)
NotCleared(row) == row
Cleared(row) == [row EXCEPT !.down = FALSE]
Heartbeat(k, ttl) ==
  /\ board
  /\ beats' = [beats EXCEPT ![k] = Cleared(Beaten(k, ttl))]
  /\ cards' = IF beats[k].down THEN [cards EXCEPT ![k].recovered = @ + 1]
                              ELSE cards
  /\ UNCHANGED <<nclock, owner, board, topicVars, kills>>

(* The watchdog: keys whose window has passed and that are not down.        *)
Due(k) ==
  beats[k].expires > 0 /\ beats[k].expires < nclock /\ ~beats[k].down
LapsedRow(k) == [beats[k] EXCEPT !.expires = 0, !.crit = TRUE]
DueKeys == {k \in BoardKeys : Due(k)}
AllDown(keys) ==
  [k \in BoardKeys |-> IF k \in keys THEN [LapsedRow(k) EXCEPT !.down = TRUE]
                       ELSE beats[k]]
DownCards(keys) ==
  [k \in BoardKeys |-> IF k \in keys THEN [cards[k] EXCEPT !.down = @ + 1]
                       ELSE cards[k]]
Watchdog ==
  /\ board /\ DueKeys # {}
  /\ beats' = AllDown(DueKeys) /\ cards' = DownCards(DueKeys)
  /\ UNCHANGED <<nclock, owner, board, topicVars, kills>>

(* The broker is killed between two statements of one of these and starts   *)
(* again: after the claim of a board, after upsertBoardState, or after      *)
(* setBoardDown and before the card; the watchdog may have done with other  *)
(* keys.                                                                    *)
Killed ==
  /\ kills < MaxKills /\ kills' = kills + 1 /\ run' = run + 1
  /\ UNCHANGED <<nclock, validTokens, stamp, uses, posted, strays>>
  /\ seen' = [p \in Proofs |-> 0] /\ posts' = {}
  /\ \/ /\ ~board /\ owner = "nobody"
        /\ owner' = "board" /\ UNCHANGED <<board, beats, cards>>
     \/ /\ board /\ UNCHANGED <<owner, board>>
        /\ \E k \in BoardKeys :
             \/ /\ \E ttl \in BeatTtls : \E d \in {beats[k].down, FALSE} :
                     beats' = [beats EXCEPT ![k] = [Beaten(k, ttl) EXCEPT !.down = d]]
                /\ UNCHANGED cards
             \/ \E done \in SUBSET (DueKeys \ {k}), d \in BOOLEAN :
                  /\ Due(k)
                  /\ beats' = [AllDown(done) EXCEPT ![k] = [LapsedRow(k) EXCEPT !.down = d]]
                  /\ cards' = DownCards(done)

TopicNext ==
  \/ NotifyTick \/ NotifyClaim \/ BoardCreate
  \/ \E p \in Proofs : UseProof(p)
  \/ \E t \in PublishTokens \cup {NoPublishToken}, form \in {"path", "body"} :
       Post(form, t)
  \/ \E x \in posts : RouteNotify(x)
  \/ \E t \in PublishTokens : MintToken(t) \/ RevokePublishToken(t)
  \/ NotifyRestart

BoardNext ==
  \/ NotifyTick \/ BoardCreate
  \/ \E k \in BoardKeys, ttl \in BeatTtls : Heartbeat(k, ttl)
  \/ Watchdog \/ Killed

TopicSpec == NotifyInit /\ [][TopicNext]_notifyVars
BoardSpec == NotifyInit /\ [][BoardNext]_notifyVars

-----------------------------------------------------------------------------
(* While the broker runs, a proof that is not dated ahead is accepted once: *)
(* its nonce is remembered to the last moment at which verifyProof accepts  *)
(* it.  One dated ahead of the broker's clock may be accepted again, after  *)
(* a whole window.  NonceSeen is in memory: a proof that was used before    *)
(* the broker started again is not known to have been.                      *)
Ahead(p, i, j) ==
  stamp[p] > uses[p][i].at /\ uses[p][j].at > uses[p][i].at + ProofWindow
OncePerRunUnlessAhead ==
  \A p \in Proofs : \A i, j \in DOMAIN uses[p] :
    i < j /\ uses[p][i].run = uses[p][j].run => Ahead(p, i, j)

(* The same with no exception for a restart, which one refutes. *)
OnceUnlessAhead ==
  \A p \in Proofs : \A i, j \in DOMAIN uses[p] : i < j => stamp[p] > uses[p][i].at

(* Every message routed to a claimed topic came with a token of the topic,  *)
(* but for one whose path named the topic and that passed its check before  *)
(* the topic was claimed or the token revoked, while its body was read.     *)
StraysPassedTheirCheck ==
  \A x \in strays : x.form = "path" /\ x.passed

(* DOWN and RECOVERED cards of a key alternate, and the board shows a key   *)
(* as down exactly while its last card is DOWN, but that a broker killed in *)
(* the middle of an update may leave one card unsent, or one unannounced    *)
(* change on the board, for each time it is killed.                         *)
AlarmsAlternate ==
  \A k \in BoardKeys :
    LET announced == cards[k].recovered + (IF beats[k].down THEN 1 ELSE 0)
    IN cards[k].down <= announced + kills /\ announced <= cards[k].down + kills

(* Topics answer only to their owner's proofs and tokens, but for the       *)
(* windows that the parts name.                                             *)
TopicsAreGuarded == OncePerRunUnlessAhead /\ StraysPassedTheirCheck
=============================================================================
