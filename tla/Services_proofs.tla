--------------------------- MODULE Services_proofs ---------------------------
(***************************************************************************)
(* Proofs about the services of the broker that keep state of their own:   *)
(* chunked messages, Notify, prekeys, push transports, rate limits and     *)
(* one-shot tickets.                                                       *)
(***************************************************************************)
EXTENDS Chunks, Notify, Prekeys, PushTransports, Limits, Tickets,
        FiniteSetTheorems, SequenceTheorems, TLAPS

-----------------------------------------------------------------------------
(* Chunked messages.  The broker counts pieces and does not look at which  *)
(* ones it holds: the count tells that all are there because a piece comes *)
(* once, which ChunkInv says with a cardinality.                           *)

ChunkInv ==
  /\ chunkEnded \subseteq Transfers
  /\ toSend \in [Transfers -> SUBSET (1..Total)]
  /\ taken \in [Transfers -> SUBSET (1..Total)]
  /\ assembled \in [Transfers -> Nat]
  /\ pending \in [Transfers -> [parts : SUBSET (1..Total), received : Nat]]
  /\ \A x \in Transfers : toSend[x] \cap taken[x] = {}
  /\ \A x \in Transfers \ chunkEnded :
       taken[x] # 1..Total =>
         /\ pending[x].parts = taken[x]
         /\ pending[x].received = Cardinality(taken[x])

(* Pieces are of a finite set, and all are there when as many are. *)
LEMMA AllPieces ==
  ASSUME NEW S \in SUBSET (1..Total), NEW n \in (1..Total) \ S
  PROVE  /\ Cardinality(S \cup {n}) = Cardinality(S) + 1 /\ Cardinality(S) \in Nat
         /\ Cardinality(S) + 1 = Total <=> S \cup {n} = 1..Total
  <1>1. Total \in Nat
    BY ChunkAssumption
  <1>2. IsFiniteSet(1..Total) /\ Cardinality(1..Total) = Total
    <2>1. 1 \in Int /\ Total \in Int
      BY <1>1
    <2> QED BY <1>1, <2>1, FS_Interval
  <1>3. IsFiniteSet(S) /\ Cardinality(S) \in Nat
    BY <1>2, FS_Subset, FS_CardinalityType
  <1>4. Cardinality(S \cup {n}) = Cardinality(S) + 1
    BY <1>3, FS_AddElement
  <1>5. S \cup {n} \in SUBSET (1..Total)
    OBVIOUS
  <1>6. Cardinality(S \cup {n}) = Cardinality(1..Total) => S \cup {n} = 1..Total
    BY <1>2, <1>5, FS_Subset
  <1> QED BY <1>2, <1>3, <1>4, <1>6

(* Every step keeps the count and what it says of the pieces. *)
LEMMA ChunkStep ==
  ASSUME ChunkInv, ProducedWhenWhole, [ChunkNext]_chunkVars
  PROVE  ChunkInv' /\ ProducedWhenWhole'
  <1>1. ASSUME NEW x \in Transfers, NEW n \in 1..Total, ProduceChunk(x, n)
        PROVE  ChunkInv' /\ ProducedWhenWhole'
    <2> DEFINE t == [parts |-> pending[x].parts \cup {n},
                     received |-> pending[x].received + 1]
    <2>1. /\ x \notin chunkEnded /\ n \in toSend[x]
          /\ toSend' = [toSend EXCEPT ![x] = @ \ {n}]
          /\ taken' = [taken EXCEPT ![x] = @ \cup {n}]
          /\ UNCHANGED chunkEnded
      BY <1>1 DEF ProduceChunk
    <2>2. /\ n \notin taken[x] /\ taken[x] # 1..Total /\ taken[x] \in SUBSET (1..Total)
          /\ pending[x].parts = taken[x] /\ pending[x].received = Cardinality(taken[x])
      BY <2>1 DEF ChunkInv
    <2>3. /\ Cardinality(taken[x] \cup {n}) = Cardinality(taken[x]) + 1
          /\ Cardinality(taken[x]) \in Nat
          /\ Cardinality(taken[x]) + 1 = Total <=> taken[x] \cup {n} = 1..Total
      BY <2>2, AllPieces
    <2>4. /\ t.parts = taken[x] \cup {n} /\ t.received = Cardinality(taken[x]) + 1
          /\ t \in [parts : SUBSET (1..Total), received : Nat]
      BY <2>2, <2>3
    <2>5. /\ Complete(t) => /\ pending' = [pending EXCEPT ![x] = Nothing]
                            /\ assembled' = [assembled EXCEPT ![x] =
                                               IF Parses(t) THEN @ + 1 ELSE @]
          /\ ~Complete(t) => /\ pending' = [pending EXCEPT ![x] = t]
                             /\ UNCHANGED assembled
      BY <1>1 DEF ProduceChunk
    <2> HIDE DEF t
    <2>6. Nothing \in [parts : SUBSET (1..Total), received : Nat]
      BY DEF Nothing
    <2>7. assembled[x] = 0 /\ (Complete(t) <=> taken'[x] = 1..Total)
          /\ (Complete(t) => Parses(t))
      BY <2>1, <2>2, <2>3, <2>4 DEF ProducedWhenWhole, Complete, Parses, ChunkInv
    <2>8. /\ toSend' \in [Transfers -> SUBSET (1..Total)]
          /\ taken' \in [Transfers -> SUBSET (1..Total)]
          /\ \A y \in Transfers : toSend'[y] \cap taken'[y] = {}
          /\ chunkEnded' \subseteq Transfers
      BY <2>1 DEF ChunkInv
    <2>9. CASE Complete(t)
      <3>1. /\ pending' = [pending EXCEPT ![x] = Nothing]
            /\ assembled' = [assembled EXCEPT ![x] = 1]
            /\ taken'[x] = 1..Total
        BY <2>5, <2>7, <2>9 DEF ChunkInv
      <3>2. /\ pending' \in [Transfers -> [parts : SUBSET (1..Total), received : Nat]]
            /\ assembled' \in [Transfers -> Nat]
        BY <2>6, <3>1 DEF ChunkInv
      <3>3. \A y \in Transfers \ chunkEnded' :
              taken'[y] # 1..Total =>
                /\ pending'[y].parts = taken'[y]
                /\ pending'[y].received = Cardinality(taken'[y])
        BY <2>1, <3>1 DEF ChunkInv
      <3>4. ProducedWhenWhole'
        BY <2>1, <3>1 DEF ChunkInv, ProducedWhenWhole
      <3> QED BY <2>8, <3>2, <3>3, <3>4 DEF ChunkInv
    <2>10. CASE ~Complete(t)
      <3>1. pending' = [pending EXCEPT ![x] = t] /\ UNCHANGED assembled
        BY <2>5, <2>10
      <3>2. pending' \in [Transfers -> [parts : SUBSET (1..Total), received : Nat]]
        BY <2>4, <3>1 DEF ChunkInv
      <3>3. \A y \in Transfers \ chunkEnded' :
              taken'[y] # 1..Total =>
                /\ pending'[y].parts = taken'[y]
                /\ pending'[y].received = Cardinality(taken'[y])
        BY <2>1, <2>3, <2>4, <3>1 DEF ChunkInv
      <3>4. ProducedWhenWhole'
        BY <2>1, <2>7, <2>10, <3>1 DEF ChunkInv, ProducedWhenWhole
      <3> QED BY <2>8, <3>1, <3>2, <3>3, <3>4 DEF ChunkInv
    <2> QED BY <2>9, <2>10
  <1>2. ASSUME NEW x \in Transfers, EndTransfers(x)
        PROVE  ChunkInv' /\ ProducedWhenWhole'
    <2>1. Nothing \in [parts : SUBSET (1..Total), received : Nat]
      BY DEF Nothing
    <2> QED BY <1>2, <2>1 DEF EndTransfers, ChunkInv, ProducedWhenWhole
  <1>3. ASSUME UNCHANGED <<chunkEnded, toSend, pending, assembled, taken>>
        PROVE  ChunkInv' /\ ProducedWhenWhole'
    BY <1>3 DEF ChunkInv, ProducedWhenWhole
  <1> QED BY <1>1, <1>2, <1>3 DEF ChunkNext, RefuseChunk, chunkVars

(* Initially nothing was sent. *)
LEMMA ChunkInitially == ASSUME ChunkInit PROVE ChunkInv /\ ProducedWhenWhole
  <1>1. Nothing \in [parts : SUBSET (1..Total), received : Nat]
        /\ Nothing.parts = {} /\ Nothing.received = 0
    BY DEF Nothing
  <1>2. 1..Total # {}
    BY ChunkAssumption
  <1>3. Cardinality({}) = 0
    BY FS_EmptySet
  <1> QED BY <1>1, <1>2, <1>3 DEF ChunkInit, ChunkInv, ProducedWhenWhole

(* PRODUCE_CHUNK: for any number of transfers of any length, however their *)
(* pieces interleave, come out of order, are refused and sent again, or    *)
(* end with their socket, a message is produced once when all its pieces   *)
(* were taken, and not before.                                             *)
THEOREM ChunksProduceWhole == ChunkSpec => []ProducedWhenWhole
  <1>1. ChunkInit => ChunkInv /\ ProducedWhenWhole
    BY ChunkInitially
  <1>2. ChunkInv /\ ProducedWhenWhole /\ [ChunkNext]_chunkVars
          => ChunkInv' /\ ProducedWhenWhole'
    BY ChunkStep
  <1> QED BY <1>1, <1>2, PTL DEF ChunkSpec

-----------------------------------------------------------------------------
(* Notify: the owner's proofs and the tokens of a topic.  A proof that was *)
(* accepted at a in this run of the broker is remembered until a and the   *)
(* window are over, which is when verifyProof stops to accept it unless it *)
(* was dated ahead.                                                        *)

Use == [at : Nat, run : Nat]
NonceInv ==
  /\ nclock \in Nat /\ run \in Nat
  /\ stamp \in [Proofs -> Nat] /\ seen \in [Proofs -> Nat]
  /\ uses \in [Proofs -> Seq(Use)]
  /\ \A p \in Proofs : \A n \in DOMAIN uses[p] :
       /\ uses[p][n].at <= nclock /\ uses[p][n].run <= run
       /\ uses[p][n].run = run => \/ nclock > uses[p][n].at + ProofWindow
                                  \/ seen[p] >= uses[p][n].at + ProofWindow

(* A request whose path names the topic has passed its check. *)
PostsInv ==
  \A x \in posts : x.form \in {"path", "body"} /\ (x.form = "path" => x.passed)

TopicInv == NonceInv /\ PostsInv /\ TopicsAreGuarded

(* What Append does to the elements of a sequence. *)
LEMMA Appended ==
  ASSUME NEW S, NEW q \in Seq(S), NEW e \in S
  PROVE  /\ Append(q, e) \in Seq(S)
         /\ DOMAIN Append(q, e) = DOMAIN q \cup {Len(q) + 1}
         /\ Append(q, e)[Len(q) + 1] = e
         /\ \A n \in DOMAIN q : n \in Nat /\ n <= Len(q) /\ Append(q, e)[n] = q[n] /\ q[n] \in S
         /\ Len(q) \in Nat
  OBVIOUS

LEMMA UsesAreUses ==
  ASSUME NonceInv
  PROVE  \A q \in Proofs : \A n \in DOMAIN uses[q] :
           uses[q][n].at \in Nat /\ uses[q][n].run \in Nat
  <1> SUFFICES ASSUME NEW q \in Proofs, NEW n \in DOMAIN uses[q] PROVE uses[q][n] \in Use
    BY DEF Use
  <1> QED BY DEF NonceInv

(* A proof that is used, and so was not seen. *)
LEMMA UseProofKeeps ==
  ASSUME TopicInv, NEW p \in Proofs, UseProof(p)
  PROVE  NonceInv' /\ OncePerRunUnlessAhead'
  <1> USE DEF TopicInv, NonceInv
  <1> DEFINE x == [at |-> nclock, run |-> run]
  <1>1. /\ VerifyProof(p) /\ ~SeenNonce(p)
        /\ seen' = [SweptSeen EXCEPT ![p] = nclock + ProofWindow]
        /\ uses' = [uses EXCEPT ![p] = Append(@, x)]
        /\ UNCHANGED <<nclock, stamp, run>>
    BY DEF UseProof
  <1>2. /\ ProofWindow \in Nat \ {0} /\ nclock \in Nat /\ stamp[p] \in Nat
        /\ nclock + ProofWindow \in Nat
    BY NotifyAssumption
  <1>3. /\ SweptSeen \in [Proofs -> Nat]
        /\ \A q \in Proofs : SweptSeen[q] = seen[q] \/ (SweptSeen[q] = 0 /\ seen[q] < nclock)
    BY DEF SweptSeen
  <1>4. seen' \in [Proofs -> Nat] /\ seen'[p] = nclock + ProofWindow
        /\ \A q \in Proofs \ {p} : seen'[q] = SweptSeen[q]
    BY <1>1, <1>2, <1>3
  <1>5. x \in Use /\ x.at = nclock /\ x.run = run
    BY DEF Use
  <1> HIDE DEF x
  <1>6. /\ uses' \in [Proofs -> Seq(Use)]
        /\ uses'[p] = Append(uses[p], x)
        /\ \A q \in Proofs \ {p} : uses'[q] = uses[q]
    BY <1>1, <1>5, Appended
  <1>7. /\ Len(uses[p]) \in Nat
        /\ uses'[p][Len(uses[p]) + 1] = x
        /\ \A n \in DOMAIN uses[p] : /\ uses'[p][n] = uses[p][n]
                                     /\ n \in Nat /\ n <= Len(uses[p])
    BY <1>5, <1>6, Appended
  <1>8. \A n \in DOMAIN uses'[p] : n \in DOMAIN uses[p] \/ n = Len(uses[p]) + 1
    BY <1>5, <1>6, Appended
  <1>9. \A q \in Proofs : \A n \in DOMAIN uses[q] : uses[q][n].at \in Nat /\ uses[q][n].run \in Nat
    BY UsesAreUses
  <1>10. ASSUME NEW q \in Proofs, NEW n \in DOMAIN uses'[q]
         PROVE  /\ uses'[q][n].at <= nclock /\ uses'[q][n].run <= run
                /\ uses'[q][n].run = run =>
                     \/ nclock > uses'[q][n].at + ProofWindow
                     \/ seen'[q] >= uses'[q][n].at + ProofWindow
    <2>1. CASE q = p /\ n = Len(uses[p]) + 1
      BY <1>2, <1>4, <1>5, <1>7, <2>1
    <2>2. CASE q = p /\ n \in DOMAIN uses[p]
      BY <1>2, <1>4, <1>7, <1>9, <2>2
    <2>3. CASE q # p
      <3>1. uses'[q] = uses[q] /\ seen'[q] = SweptSeen[q] /\ seen[q] \in Nat
            /\ uses[q][n].at \in Nat
        BY <1>4, <1>6, <1>9, <1>10, <2>3
      <3>2. /\ uses[q][n].at <= nclock /\ uses[q][n].run <= run
            /\ uses[q][n].run = run => \/ nclock > uses[q][n].at + ProofWindow
                                       \/ seen[q] >= uses[q][n].at + ProofWindow
        BY <3>1, <1>10
      <3>3. CASE SweptSeen[q] = seen[q]
        BY <3>1, <3>2, <3>3
      <3>4. CASE SweptSeen[q] = 0 /\ seen[q] < nclock
        BY <1>2, <3>1, <3>2, <3>4
      <3> QED BY <1>3, <3>3, <3>4
    <2> QED BY <1>8, <1>10, <2>1, <2>2, <2>3
  <1>11. NonceInv'
    BY <1>1, <1>4, <1>6, <1>10
  <1>12. ASSUME NEW n \in DOMAIN uses[p], uses[p][n].run = run
         PROVE  stamp[p] > uses[p][n].at /\ nclock > uses[p][n].at + ProofWindow
    <2>1. uses[p][n].at \in Nat
      BY <1>9
    <2>2. CASE nclock > uses[p][n].at + ProofWindow
      BY <1>1, <1>2, <2>1, <2>2 DEF VerifyProof
    <2>3. CASE nclock <= uses[p][n].at + ProofWindow
      <3>1. seen[p] >= uses[p][n].at + ProofWindow /\ seen[p] \in Nat
        BY <1>2, <1>12, <2>1, <2>3
      <3>2. seen[p] >= nclock
        BY <1>2, <2>1, <2>3, <3>1
      <3>3. SweptSeen[p] = seen[p]
        BY <1>2, <1>3, <3>1, <3>2
      <3>4. SweptSeen[p] = 0 \/ ~(SweptSeen[p] >= nclock)
        BY <1>1 DEF SeenNonce
      <3> QED BY <1>2, <2>1, <3>1, <3>2, <3>3, <3>4
    <2> QED BY <1>2, <2>1, <2>2, <2>3
  <1>13. OncePerRunUnlessAhead'
    <2> SUFFICES ASSUME NEW q \in Proofs, NEW i \in DOMAIN uses'[q], NEW j \in DOMAIN uses'[q],
                        i < j, uses'[q][i].run = uses'[q][j].run
                 PROVE  stamp[q] > uses'[q][i].at /\ uses'[q][j].at > uses'[q][i].at + ProofWindow
      BY <1>1 DEF OncePerRunUnlessAhead, Ahead
    <2>1. \A r \in Proofs : \A m, n \in DOMAIN uses[r] :
            m < n /\ uses[r][m].run = uses[r][n].run => Ahead(r, m, n)
      BY DEF TopicsAreGuarded, OncePerRunUnlessAhead
    <2>2. CASE q # p
      BY <1>6, <2>1, <2>2 DEF Ahead
    <2>3. CASE q = p /\ j \in DOMAIN uses[p]
      <3>1. i \in DOMAIN uses[p]
        BY <1>7, <1>8, <2>3
      <3> QED BY <1>7, <2>1, <2>3, <3>1 DEF Ahead
    <2>4. CASE q = p /\ j = Len(uses[p]) + 1
      <3>1. i \in DOMAIN uses[p]
        BY <1>7, <1>8, <2>4
      <3> QED BY <1>5, <1>7, <1>12, <2>4, <3>1
    <2> QED BY <1>8, <2>2, <2>3, <2>4
  <1> QED BY <1>11, <1>13

(* Every step about the topic keeps the invariant. *)
LEMMA TopicStep ==
  ASSUME TopicInv, [TopicNext]_notifyVars
  PROVE  TopicInv'
  <1> USE DEF TopicInv
  <1>1. ASSUME UNCHANGED <<nclock, stamp, seen, run, uses>>
        PROVE  NonceInv' /\ OncePerRunUnlessAhead'
    BY <1>1 DEF NonceInv, TopicsAreGuarded, OncePerRunUnlessAhead, Ahead
  <1>2. ASSUME UNCHANGED <<posts, strays>>
        PROVE  PostsInv' /\ StraysPassedTheirCheck'
    BY <1>2 DEF PostsInv, TopicsAreGuarded, StraysPassedTheirCheck
  <1>0. ProofWindow \in Nat /\ nclock \in Nat /\ run \in Nat
        /\ \A p \in Proofs : \A n \in DOMAIN uses[p] :
             uses[p][n].at \in Nat /\ uses[p][n].run \in Nat
    BY NotifyAssumption, UsesAreUses DEF NonceInv
  <1>3. CASE NotifyTick
    <2>1. nclock' = nclock + 1 /\ UNCHANGED <<stamp, seen, run, uses, posts, strays>>
      BY <1>3 DEF NotifyTick, topicVars
    <2>2. NonceInv'
      <3>1. ASSUME NEW p \in Proofs, NEW n \in DOMAIN uses[p]
            PROVE  /\ uses[p][n].at <= nclock + 1
                   /\ uses[p][n].run = run => \/ nclock + 1 > uses[p][n].at + ProofWindow
                                              \/ seen[p] >= uses[p][n].at + ProofWindow
        BY <1>0 DEF NonceInv
      <3> QED BY <2>1, <3>1 DEF NonceInv
    <2>3. OncePerRunUnlessAhead'
      BY <2>1 DEF TopicsAreGuarded, OncePerRunUnlessAhead, Ahead
    <2> QED BY <1>2, <2>1, <2>2, <2>3 DEF TopicsAreGuarded
  <1>8. CASE NotifyRestart
    <2>1. /\ run' = run + 1 /\ seen' = [p \in Proofs |-> 0] /\ posts' = {}
          /\ UNCHANGED <<nclock, stamp, uses, strays>>
      BY <1>8 DEF NotifyRestart
    <2>2. NonceInv'
      <3>1. ASSUME NEW p \in Proofs, NEW n \in DOMAIN uses[p]
            PROVE  uses[p][n].run <= run + 1 /\ uses[p][n].run # run + 1
        BY <1>0 DEF NonceInv
      <3> QED BY <2>1, <3>1 DEF NonceInv
    <2>3. OncePerRunUnlessAhead'
      BY <2>1 DEF TopicsAreGuarded, OncePerRunUnlessAhead, Ahead
    <2>4. PostsInv' /\ StraysPassedTheirCheck'
      BY <2>1 DEF PostsInv, TopicsAreGuarded, StraysPassedTheirCheck
    <2> QED BY <2>2, <2>3, <2>4 DEF TopicsAreGuarded
  <1>4. ASSUME NEW p \in Proofs, UseProof(p) PROVE TopicInv'
    <2>1. UNCHANGED <<posts, strays>>
      BY <1>4 DEF UseProof
    <2> QED BY <1>2, <1>4, <2>1, UseProofKeeps DEF TopicsAreGuarded
  <1>5. ASSUME NEW t, NEW form \in {"path", "body"}, Post(form, t) PROVE TopicInv'
    <2> DEFINE x == [n |-> posted, form |-> form, token |-> t, passed |-> Authorized(t)]
    <2>1. /\ posts' = posts \cup {x} /\ UNCHANGED <<nclock, stamp, seen, run, uses, strays>>
          /\ form = "path" => Authorized(t)
      BY <1>5 DEF Post, PublishAuthRejected, Authorized
    <2>2. x.form = form /\ x.passed = Authorized(t)
      OBVIOUS
    <2> HIDE DEF x
    <2>3. PostsInv' /\ StraysPassedTheirCheck'
      BY <2>1, <2>2 DEF PostsInv, TopicsAreGuarded, StraysPassedTheirCheck
    <2> QED BY <1>1, <2>1, <2>3 DEF TopicsAreGuarded
  <1>6. ASSUME NEW x \in posts, RouteNotify(x) PROVE TopicInv'
    <2>1. /\ posts' = posts \ {x} /\ UNCHANGED <<nclock, stamp, seen, run, uses>>
          /\ strays' = IF (x.form = "body" /\ PublishAuthRejected(x.token))
                           \/ Authorized(x.token)
                       THEN strays ELSE strays \cup {x}
      BY <1>6 DEF RouteNotify
    <2>2. PublishAuthRejected(x.token) <=> ~Authorized(x.token)
      BY DEF PublishAuthRejected, Authorized
    <2>3. PostsInv' /\ StraysPassedTheirCheck'
      BY <2>1, <2>2 DEF PostsInv, TopicsAreGuarded, StraysPassedTheirCheck
    <2> QED BY <1>1, <2>1, <2>3 DEF TopicsAreGuarded
  <1>7. CASE NotifyClaim \/ BoardCreate \/ UNCHANGED notifyVars
             \/ \E t \in PublishTokens : MintToken(t) \/ RevokePublishToken(t)
    BY <1>1, <1>2, <1>7 DEF NotifyClaim, BoardCreate, MintToken, RevokePublishToken,
                            notifyVars, topicVars, TopicsAreGuarded
  <1> QED BY <1>3, <1>4, <1>5, <1>6, <1>7, <1>8 DEF TopicNext

(* verifyProof with NonceSeen, and publishAuthRejected: in one run of the  *)
(* broker a proof is accepted a second time only if it was dated ahead,    *)
(* and then after a whole window; and a message gets through without a     *)
(* valid token only if its path was checked before its body was read.      *)
THEOREM TopicsStayGuarded == TopicSpec => []TopicsAreGuarded
  <1>1. NotifyInit => TopicInv
    <2>1. 0..MaxNotifyClock \subseteq Nat
      OBVIOUS
    <2> QED BY <2>1 DEF NotifyInit, TopicInv, NonceInv, PostsInv, TopicsAreGuarded,
               OncePerRunUnlessAhead, StraysPassedTheirCheck
  <1>2. TopicInv /\ [TopicNext]_notifyVars => TopicInv'
    BY TopicStep
  <1>3. TopicInv => TopicsAreGuarded
    BY DEF TopicInv
  <1> QED BY <1>1, <1>2, <1>3, PTL DEF TopicSpec

(* Notify: the watchdog of a board. *)
RowType == [expires : Nat, down : BOOLEAN, crit : BOOLEAN]
BeatsInv ==
  /\ kills \in Nat /\ nclock \in Nat
  /\ beats \in [BoardKeys -> RowType]
  /\ cards \in [BoardKeys -> [down : Nat, recovered : Nat]]
BoardInv == BeatsInv /\ AlarmsAlternate

(* Keys that are due are up; each gets one card as it goes down. *)
LEMMA GoingDown ==
  ASSUME BeatsInv, NEW keys \in SUBSET DueKeys
  PROVE  /\ AllDown(keys) \in [BoardKeys -> RowType]
         /\ DownCards(keys) \in [BoardKeys -> [down : Nat, recovered : Nat]]
         /\ \A k \in keys : /\ beats[k].down = FALSE /\ AllDown(keys)[k].down = TRUE
                            /\ DownCards(keys)[k].down = cards[k].down + 1
                            /\ DownCards(keys)[k].recovered = cards[k].recovered
         /\ \A k \in BoardKeys \ keys : /\ AllDown(keys)[k] = beats[k]
                                        /\ DownCards(keys)[k] = cards[k]
  <1> USE DEF BeatsInv
  <1>1. \A k \in keys : k \in BoardKeys /\ beats[k].down = FALSE
    BY DEF DueKeys, Due, RowType
  <1>2. ASSUME NEW k \in BoardKeys
        PROVE  /\ [LapsedRow(k) EXCEPT !.down = TRUE] \in RowType
               /\ [LapsedRow(k) EXCEPT !.down = TRUE].down = TRUE
    BY DEF LapsedRow, RowType
  <1>3. ASSUME NEW k \in BoardKeys
        PROVE  /\ [cards[k] EXCEPT !.down = @ + 1] \in [down : Nat, recovered : Nat]
               /\ [cards[k] EXCEPT !.down = @ + 1].down = cards[k].down + 1
               /\ [cards[k] EXCEPT !.down = @ + 1].recovered = cards[k].recovered
    OBVIOUS
  <1> QED BY <1>1, <1>2, <1>3 DEF AllDown, DownCards

(* A heartbeat, the watchdog and a stop of the broker keep what is said of *)
(* cards.                                                                  *)
LEMMA BoardStep ==
  ASSUME BeatsInv, AlarmsAlternate, [BoardNext]_notifyVars
  PROVE  BeatsInv' /\ AlarmsAlternate'
  <1> USE DEF BeatsInv
  <1>1. ASSUME UNCHANGED <<beats, cards, kills>>, nclock' \in Nat
        PROVE  BeatsInv' /\ AlarmsAlternate'
    BY <1>1 DEF AlarmsAlternate
  <1>2. CASE NotifyTick \/ BoardCreate \/ UNCHANGED notifyVars
    BY <1>1, <1>2 DEF NotifyTick, BoardCreate, notifyVars, boardVars
  <1>3. ASSUME NEW k \in BoardKeys, NEW ttl \in Nat, NEW d \in BOOLEAN
        PROVE  /\ Beaten(k, ttl) \in RowType
               /\ Beaten(k, ttl).down = beats[k].down
               /\ [Beaten(k, ttl) EXCEPT !.down = d]
                     \in RowType
               /\ [Beaten(k, ttl) EXCEPT !.down = d].down = d
    <2> DEFINE e == IF ttl > 0 THEN nclock + 2 * ttl ELSE 0
               c == beats[k].down
    <2>1. e \in Nat
      OBVIOUS
    <2>2. c \in BOOLEAN /\ FALSE \in BOOLEAN
      BY DEF RowType
    <2>3. Beaten(k, ttl) = [expires |-> e, down |-> c, crit |-> FALSE]
      BY DEF Beaten
    <2> HIDE DEF e, c
    <2>4. [expires |-> e, down |-> c, crit |-> FALSE] \in RowType
      BY <2>1, <2>2 DEF RowType
    <2>5. ASSUME NEW r \in RowType
          PROVE  [r EXCEPT !.down = d] \in RowType /\ [r EXCEPT !.down = d].down = d
      BY DEF RowType
    <2>6. Beaten(k, ttl) \in RowType
      BY <2>3, <2>4
    <2>7. [Beaten(k, ttl) EXCEPT !.down = d] \in RowType
          /\ [Beaten(k, ttl) EXCEPT !.down = d].down = d
      BY <2>5, <2>6, Zenon
    <2>8. Beaten(k, ttl).down = beats[k].down
      BY <2>3 DEF c
    <2> QED BY <2>6, <2>7, <2>8, Zenon
  <1>4. ASSUME NEW k \in BoardKeys, NEW ttl \in BeatTtls, Heartbeat(k, ttl)
        PROVE  BeatsInv' /\ AlarmsAlternate'
    <2> DEFINE row == [Beaten(k, ttl) EXCEPT !.down = FALSE]
    <2>1. /\ beats' = [beats EXCEPT ![k] = row]
          /\ cards' = IF beats[k].down THEN [cards EXCEPT ![k].recovered = @ + 1] ELSE cards
          /\ UNCHANGED <<nclock, kills>>
      BY <1>4 DEF Heartbeat, Cleared
    <2>2. row \in RowType /\ row.down = FALSE
      BY <1>3, NotifyAssumption
    <2> HIDE DEF row
    <2>3. cards' \in [BoardKeys -> [down : Nat, recovered : Nat]]
      BY <2>1
    <2>4. beats' \in [BoardKeys -> RowType]
          /\ beats'[k].down = FALSE /\ \A j \in BoardKeys \ {k} : beats'[j] = beats[j]
      BY <2>1, <2>2
    <2>5. /\ \A j \in BoardKeys \ {k} : cards'[j] = cards[j]
          /\ cards'[k].down = cards[k].down
          /\ beats[k].down => cards'[k].recovered = cards[k].recovered + 1
          /\ ~beats[k].down => cards'[k].recovered = cards[k].recovered
          /\ cards[k].down \in Nat /\ cards[k].recovered \in Nat
      BY <2>1
    <2>6. AlarmsAlternate'
      BY <2>1, <2>4, <2>5 DEF AlarmsAlternate, RowType
    <2> QED BY <2>1, <2>3, <2>4, <2>6
  <1>5. CASE Watchdog
    <2> DEFINE B == AllDown(DueKeys)
               C == DownCards(DueKeys)
    <2>1. beats' = B /\ cards' = C /\ UNCHANGED <<nclock, kills>>
      BY <1>5 DEF Watchdog
    <2>2. /\ B \in [BoardKeys -> RowType]
          /\ C \in [BoardKeys -> [down : Nat, recovered : Nat]]
          /\ \A k \in DueKeys : /\ beats[k].down = FALSE /\ B[k].down = TRUE
                                /\ C[k].down = cards[k].down + 1
                                /\ C[k].recovered = cards[k].recovered
          /\ \A k \in BoardKeys \ DueKeys : B[k] = beats[k] /\ C[k] = cards[k]
      BY GoingDown
    <2> HIDE DEF B, C
    <2>3. ASSUME NEW k \in BoardKeys
          PROVE  cards[k].down \in Nat /\ cards[k].recovered \in Nat
      OBVIOUS
    <2>4. AlarmsAlternate'
      BY <2>1, <2>2, <2>3 DEF AlarmsAlternate
    <2> QED BY <2>1, <2>2, <2>4
  <1>6. CASE Killed
    <2>1. kills' = kills + 1 /\ UNCHANGED nclock
      BY <1>6 DEF Killed
    <2>2. CASE UNCHANGED <<beats, cards>>
      BY <2>1, <2>2 DEF AlarmsAlternate
    <2>3. ASSUME NEW k \in BoardKeys, NEW r \in RowType, NEW keys \in SUBSET DueKeys,
                 k \notin keys, beats' = [AllDown(keys) EXCEPT ![k] = r],
                 cards' = DownCards(keys)
          PROVE  BeatsInv' /\ AlarmsAlternate'
      <3> DEFINE B == AllDown(keys)
                 C == DownCards(keys)
      <3>1. /\ B \in [BoardKeys -> RowType]
            /\ C \in [BoardKeys -> [down : Nat, recovered : Nat]]
            /\ \A j \in keys : /\ beats[j].down = FALSE /\ B[j].down = TRUE
                               /\ C[j].down = cards[j].down + 1
                               /\ C[j].recovered = cards[j].recovered
            /\ \A j \in BoardKeys \ keys : B[j] = beats[j] /\ C[j] = cards[j]
        BY GoingDown
      <3>2. beats' = [B EXCEPT ![k] = r] /\ cards' = C
        BY <2>3
      <3> HIDE DEF B, C
      <3>3. BeatsInv'
        BY <2>1, <3>1, <3>2
      <3>4. ASSUME NEW j \in BoardKeys
            PROVE  \/ /\ cards'[j].down = cards[j].down + 1
                      /\ cards'[j].recovered = cards[j].recovered
                      /\ beats'[j].down = TRUE /\ beats[j].down = FALSE
                   \/ cards'[j] = cards[j]
        <4>1. CASE j \in keys
          BY <2>3, <3>1, <3>2, <4>1
        <4>2. CASE j \notin keys
          BY <3>1, <3>2, <4>2
        <4> QED BY <4>1, <4>2
      <3>5. \A j \in BoardKeys : cards[j].down \in Nat /\ cards[j].recovered \in Nat
        OBVIOUS
      <3>6. ASSUME NEW j \in BoardKeys
            PROVE  LET was == IF beats[j].down THEN 1 ELSE 0
                       is == IF beats'[j].down THEN 1 ELSE 0
                   IN /\ cards'[j].down <= cards'[j].recovered + is + kills'
                      /\ cards'[j].recovered + is <= cards'[j].down + kills'
        <4> DEFINE was == IF beats[j].down THEN 1 ELSE 0
                   is == IF beats'[j].down THEN 1 ELSE 0
        <4>1. /\ was \in 0..1 /\ is \in 0..1 /\ kills \in Nat
              /\ cards[j].down <= cards[j].recovered + was + kills
              /\ cards[j].recovered + was <= cards[j].down + kills
          BY DEF AlarmsAlternate
        <4>2. CASE cards'[j] = cards[j]
          <5> HIDE DEF was, is
          <5> QED BY <2>1, <3>5, <4>1, <4>2
        <4>3. CASE /\ cards'[j].down = cards[j].down + 1
                   /\ cards'[j].recovered = cards[j].recovered
                   /\ beats'[j].down = TRUE /\ beats[j].down = FALSE
          <5>1. was = 0 /\ is = 1
            BY <4>3
          <5> HIDE DEF was, is
          <5> QED BY <2>1, <3>5, <4>1, <4>3, <5>1
        <4> QED BY <3>4, <4>2, <4>3
      <3> QED BY <3>3, <3>6 DEF AlarmsAlternate
    <2>4. ASSUME NEW k \in BoardKeys, NEW ttl \in BeatTtls, NEW d \in {beats[k].down, FALSE},
                 beats' = [beats EXCEPT ![k] = [Beaten(k, ttl) EXCEPT !.down = d]],
                 UNCHANGED cards
          PROVE  BeatsInv' /\ AlarmsAlternate'
      <3>1. ttl \in Nat /\ d \in BOOLEAN
        BY NotifyAssumption DEF RowType
      <3>2. [Beaten(k, ttl) EXCEPT !.down = d] \in RowType
        BY <1>3, <3>1
      <3>3. beats = AllDown({}) /\ cards = DownCards({})
        BY DEF AllDown, DownCards
      <3> QED BY <2>3, <2>4, <3>2, <3>3
    <2>5. ASSUME NEW k \in BoardKeys, NEW done \in SUBSET (DueKeys \ {k}), NEW d \in BOOLEAN,
                 beats' = [AllDown(done) EXCEPT ![k] = [LapsedRow(k) EXCEPT !.down = d]],
                 cards' = DownCards(done)
          PROVE  BeatsInv' /\ AlarmsAlternate'
      <3>1. [LapsedRow(k) EXCEPT !.down = d] \in RowType
        BY DEF LapsedRow, RowType
      <3> QED BY <2>3, <2>5, <3>1
    <2> QED BY <1>6, <2>2, <2>4, <2>5 DEF Killed
  <1> QED BY <1>2, <1>4, <1>5, <1>6 DEF BoardNext

(* Heartbeats and the watchdog (upsertBoardState, setBoardDown): the DOWN  *)
(* and RECOVERED cards of a key alternate, for any keys and windows, but   *)
(* for one card for each time the broker is killed in the middle of an     *)
(* update.                                                                 *)
THEOREM CardsAlternate == BoardSpec => []AlarmsAlternate
  <1>1. NotifyInit => BoardInv
    <2>1. NoRow \in RowType /\ NoRow.down = FALSE
      BY DEF NoRow, RowType
    <2> QED BY <2>1 DEF NotifyInit, BoardInv, BeatsInv, AlarmsAlternate
  <1>2. BoardInv /\ [BoardNext]_notifyVars => BoardInv'
    BY BoardStep DEF BoardInv
  <1>3. BoardInv => AlarmsAlternate
    BY DEF BoardInv
  <1> QED BY <1>1, <1>2, <1>3, PTL DEF BoardSpec

-----------------------------------------------------------------------------
(* Push transports.  The requests that are out say when they went and with *)
(* which token; that a token outlives its request is arithmetic over the   *)
(* margin, the timeout and the age at which the clock was read.            *)

FcmInv ==
  /\ tclock \in Nat /\ minting \in Nat /\ fcmToken \in Nat \cup {NoToken}
  /\ fcmSend = [s \in FcmSends |-> fcmSend[s]]
  /\ \A s \in FcmSends :
       /\ fcmSend[s].at \in {"idle", "waiting", "sent"}
       /\ fcmSend[s].at = "sent" =>
            /\ fcmSend[s].since \in Nat /\ fcmSend[s].token \in Nat
            /\ fcmSend[s].since <= tclock /\ tclock <= fcmSend[s].since + Timeout
            /\ fcmSend[s].since + Timeout < fcmSend[s].token

ApnsInv ==
  /\ jwtAt \in Nat \cup {NoToken}
  /\ apnsSend = [s \in ApnsSends |-> apnsSend[s]]
  /\ \A s \in ApnsSends :
       /\ apnsSend[s].at \in {"idle", "sent"}
       /\ apnsSend[s].at = "sent" =>
            /\ apnsSend[s].since \in Nat /\ apnsSend[s].token \in Nat
            /\ apnsSend[s].since <= tclock /\ tclock <= apnsSend[s].since + Timeout
            /\ apnsSend[s].since <= apnsSend[s].token + Refresh

PoolInv ==
  /\ IsFiniteSet(DOMAIN sessionState) /\ NoSessionNo \notin DOMAIN sessionState
  /\ sessionState = [n \in DOMAIN sessionState |-> sessionState[n]]

TransportInv == FcmInv /\ ApnsInv /\ PoolInv /\ TransportsAreSound

(* Time passes only as far as the timeouts of the requests that are out. *)
LEMMA TickKeepsTransports ==
  ASSUME TransportInv, TransportTick
  PROVE  TransportInv'
  <1> USE DEF TransportInv
  <1>1. tclock \in Nat /\ tclock' = tclock + 1 /\ UNCHANGED <<fcmVars, apnsVars>>
    BY DEF TransportTick, FcmInv
  <1>2. FcmInv'
    <2>1. ASSUME NEW s \in FcmSends, fcmSend[s].at = "sent"
          PROVE  fcmSend[s].since <= tclock + 1 /\ tclock + 1 <= fcmSend[s].since + Timeout
      <3>1. tclock < fcmSend[s].since + Timeout /\ fcmSend[s].since \in Nat
            /\ fcmSend[s].since <= tclock /\ Timeout \in Nat
        BY <2>1, TransportAssumption DEF TransportTick, Within, FcmInv
      <3> QED BY <1>1, <3>1
    <2> QED BY <1>1, <2>1 DEF FcmInv, fcmVars
  <1>3. ApnsInv'
    <2>1. ASSUME NEW s \in ApnsSends, apnsSend[s].at = "sent"
          PROVE  apnsSend[s].since <= tclock + 1 /\ tclock + 1 <= apnsSend[s].since + Timeout
      <3>1. tclock < apnsSend[s].since + Timeout /\ apnsSend[s].since \in Nat
            /\ apnsSend[s].since <= tclock /\ Timeout \in Nat
        BY <2>1, TransportAssumption DEF TransportTick, Within, ApnsInv
      <3> QED BY <1>1, <3>1
    <2> QED BY <1>1, <2>1 DEF ApnsInv, apnsVars
  <1>4. PoolInv' /\ TransportsAreSound'
    BY <1>1 DEF fcmVars, apnsVars, PoolInv, TransportsAreSound, WaitersHaveOneMint,
                NoTokenDiesInFlight, OpenSessionIsPooled
  <1> QED BY <1>2, <1>3, <1>4

(* A step of the Firebase transport. *)
LEMMA FcmStep ==
  ASSUME TransportInv, FcmNext
  PROVE  TransportInv'
  <1> USE DEF TransportInv
  <1>1. ASSUME UNCHANGED <<tclock, apnsVars>>, FcmInv', WaitersHaveOneMint'
        PROVE  TransportInv'
    <2>1. ApnsInv' /\ PoolInv' /\ OpenSessionIsPooled'
      BY <1>1 DEF apnsVars, ApnsInv, PoolInv, TransportsAreSound, OpenSessionIsPooled
    <2>2. \A s \in FcmSends : fcmSend'[s].at # "auth"
      BY <1>1 DEF FcmInv
    <2>3. \A s \in ApnsSends : apnsSend'[s].at # "auth"
      BY <2>1 DEF ApnsInv
    <2> QED BY <1>1, <2>1, <2>2, <2>3 DEF TransportsAreSound, NoTokenDiesInFlight
  <1>2. CASE TransportTick
    BY <1>2, TickKeepsTransports
  <1>3. Timeout \in Nat /\ Margin \in Nat /\ Timeout <= Margin
        /\ \A l \in Lifetimes : l \in Nat /\ Timeout < l
    BY TransportAssumption
  <1>4. /\ Idle.at = "idle" /\ [at |-> "waiting"].at = "waiting"
        /\ \A t : Posted(t).at = "sent" /\ Posted(t).since = tclock /\ Posted(t).token = t
    BY DEF Idle, Posted
  <1>5. tclock \in Nat /\ minting \in Nat /\ tclock <= tclock + Timeout
    BY <1>3 DEF FcmInv
  <1>6. ASSUME NEW s \in FcmSends, FcmSendStart(s)
        PROVE  TransportInv'
    <2>1. fcmSend[s].at = "idle" /\ UNCHANGED <<tclock, fcmToken, apnsVars>>
      BY <1>4, <1>6 DEF FcmSendStart
    <2>2. CASE Fresh
      <3>1. fcmSend' = [fcmSend EXCEPT ![s] = Posted(fcmToken)] /\ UNCHANGED minting
        BY <1>6, <2>2 DEF FcmSendStart
      <3>2. fcmToken \in Nat /\ tclock + Timeout < fcmToken
        BY <1>3, <1>5, <2>2 DEF Fresh, FcmInv
      <3>3. /\ fcmSend'[s] = Posted(fcmToken) /\ (\A o \in FcmSends \ {s} : fcmSend'[o] = fcmSend[o])
            /\ fcmSend' = [o \in FcmSends |-> fcmSend'[o]]
        BY <3>1 DEF FcmInv
      <3>4. FcmInv'
        BY <1>4, <1>5, <2>1, <3>1, <3>2, <3>3 DEF FcmInv
      <3>5. WaitersHaveOneMint'
        BY <1>4, <2>1, <3>1, <3>3 DEF TransportsAreSound, WaitersHaveOneMint
      <3> QED BY <1>1, <2>1, <3>4, <3>5
    <2>3. CASE ~Fresh
      <3> DEFINE w == [at |-> "waiting"]
      <3>1. fcmSend' = [fcmSend EXCEPT ![s] = w] /\ minting' = IF minting = 0 THEN 1 ELSE minting
        BY <1>6, <2>3 DEF FcmSendStart, MintingOne
      <3>2. w.at = "waiting"
        OBVIOUS
      <3> HIDE DEF w
      <3>3. /\ fcmSend'[s] = w /\ (\A o \in FcmSends \ {s} : fcmSend'[o] = fcmSend[o])
            /\ fcmSend' = [o \in FcmSends |-> fcmSend'[o]]
        BY <3>1 DEF FcmInv
      <3>4. FcmInv'
        BY <1>5, <2>1, <3>1, <3>2, <3>3 DEF FcmInv
      <3>5. WaitersHaveOneMint'
        BY <1>5, <3>1, <3>2, <3>3 DEF TransportsAreSound, WaitersHaveOneMint
      <3> QED BY <1>1, <2>1, <3>4, <3>5
    <2> QED BY <2>2, <2>3
  <1>7. ASSUME NEW l \in Lifetimes, MintAccessToken(l)
        PROVE  TransportInv'
    <2>1. /\ minting' = 0 /\ fcmToken' = tclock + l /\ UNCHANGED <<tclock, apnsVars>>
          /\ fcmSend' = [s \in FcmSends |->
               IF fcmSend[s].at = "waiting" THEN Posted(fcmToken') ELSE fcmSend[s]]
      BY <1>5, <1>7 DEF MintAccessToken, TransportsAreSound, WaitersHaveOneMint
    <2>2. fcmToken' \in Nat /\ tclock + Timeout < fcmToken'
      BY <1>3, <1>5, <2>1
    <2>3. \A s \in FcmSends :
            IF fcmSend[s].at = "waiting"
            THEN /\ fcmSend'[s].at = "sent" /\ fcmSend'[s].since = tclock
                 /\ fcmSend'[s].token = fcmToken'
            ELSE fcmSend'[s] = fcmSend[s]
      BY <1>4, <2>1
    <2>4. FcmInv'
      BY <1>5, <2>1, <2>2, <2>3 DEF FcmInv
    <2>5. WaitersHaveOneMint'
      BY <2>1, <2>3 DEF WaitersHaveOneMint
    <2> QED BY <1>1, <2>1, <2>4, <2>5
  <1>8. CASE MintFails
    <2>1. /\ minting' = 0 /\ UNCHANGED <<tclock, fcmToken, apnsVars>>
          /\ fcmSend' = [s \in FcmSends |->
               IF fcmSend[s].at = "waiting" THEN Idle ELSE fcmSend[s]]
      BY <1>5, <1>8 DEF MintFails, TransportsAreSound, WaitersHaveOneMint
    <2>2. \A s \in FcmSends :
            IF fcmSend[s].at = "waiting" THEN fcmSend'[s].at = "idle"
            ELSE fcmSend'[s] = fcmSend[s]
      BY <1>4, <2>1
    <2>3. FcmInv'
      BY <2>1, <2>2 DEF FcmInv
    <2>4. WaitersHaveOneMint'
      BY <2>1, <2>2 DEF WaitersHaveOneMint
    <2> QED BY <1>1, <2>1, <2>3, <2>4
  <1>9. ASSUME NEW s \in FcmSends, FcmAnswer(s)
        PROVE  TransportInv'
    <2>1. /\ fcmSend[s].at = "sent" /\ UNCHANGED <<tclock, fcmToken, minting, apnsVars>>
          /\ fcmSend' = [fcmSend EXCEPT ![s] =
               IF tclock >= fcmSend[s].token THEN [at |-> "auth"] ELSE Idle]
      BY <1>9 DEF FcmAnswer, FcmInv
    <2>2. ~(tclock >= fcmSend[s].token)
      BY <1>3, <1>5, <2>1 DEF FcmInv
    <2>3. /\ fcmSend'[s] = Idle /\ (\A o \in FcmSends \ {s} : fcmSend'[o] = fcmSend[o])
          /\ fcmSend' = [o \in FcmSends |-> fcmSend'[o]]
      BY <2>1, <2>2 DEF FcmInv
    <2>4. FcmInv'
      BY <1>4, <2>1, <2>3 DEF FcmInv
    <2>5. WaitersHaveOneMint'
      BY <1>4, <2>1, <2>3 DEF TransportsAreSound, WaitersHaveOneMint
    <2> QED BY <1>1, <2>1, <2>4, <2>5
  <1> QED BY <1>2, <1>6, <1>7, <1>8, <1>9 DEF FcmNext

(* A step of Apple's. *)
LEMMA ApnsStep ==
  ASSUME TransportInv, ApnsNext
  PROVE  TransportInv'
  <1> USE DEF TransportInv
  <1>1. ASSUME UNCHANGED <<tclock, fcmVars>>, ApnsInv', PoolInv', OpenSessionIsPooled'
        PROVE  TransportInv'
    <2>1. FcmInv' /\ WaitersHaveOneMint'
      BY <1>1 DEF fcmVars, FcmInv, TransportsAreSound, WaitersHaveOneMint
    <2>2. \A s \in FcmSends : fcmSend'[s].at # "auth"
      BY <2>1 DEF FcmInv
    <2>3. \A s \in ApnsSends : apnsSend'[s].at # "auth"
      BY <1>1 DEF ApnsInv
    <2> QED BY <1>1, <2>1, <2>2, <2>3 DEF TransportsAreSound, NoTokenDiesInFlight
  <1>2. CASE TransportTick
    BY <1>2, TickKeepsTransports
  <1>3. {Timeout, Refresh, AppleMax} \subseteq Nat /\ Refresh + Timeout <= AppleMax
        /\ tclock \in Nat /\ Idle.at = "idle"
    BY TransportAssumption DEF FcmInv, Idle
  <1>4. ASSUME NEW s \in ApnsSends, ApnsSendStart(s)
        PROVE  TransportInv'
    <2> DEFINE session == IF Usable THEN pooled ELSE NextSession
               x == [at |-> "sent", since |-> tclock, token |-> jwtAt', session |-> session]
    <2>1. /\ jwtAt' = ProviderToken /\ pooled' = session /\ UNCHANGED <<tclock, fcmVars>>
          /\ sessionState' = [n \in DOMAIN sessionState \cup {session} |->
                IF n \in DOMAIN sessionState THEN sessionState[n] ELSE "open"]
          /\ apnsSend' = [apnsSend EXCEPT ![s] = x]
      BY <1>4 DEF ApnsSendStart
    <2>2. x.at = "sent" /\ x.since = tclock /\ x.token = jwtAt'
      OBVIOUS
    <2>3. jwtAt' \in Nat /\ tclock <= jwtAt' + Refresh
      BY <1>3, <2>1 DEF ProviderToken, ApnsInv
    <2>4. session # NoSessionNo
      <3>1. Cardinality(DOMAIN sessionState) \in Nat
        BY FS_CardinalityType DEF PoolInv
      <3> QED BY <3>1, TransportAssumption DEF NextSession, Usable
    <2>5. \A n \in DOMAIN sessionState : sessionState[n] = "open" => session = n
      <3>1. \A n \in DOMAIN sessionState : sessionState[n] = "open" => pooled = n
        BY DEF TransportsAreSound, OpenSessionIsPooled
      <3>2. ASSUME NEW n \in DOMAIN sessionState, sessionState[n] = "open"
            PROVE  session = n
        <4>1. CASE n = NoSessionNo
          BY <4>1 DEF PoolInv
        <4>2. CASE n # NoSessionNo
          BY <3>1, <3>2, <4>2 DEF Usable
        <4> QED BY <4>1, <4>2
      <3> QED BY <3>2
    <2> HIDE DEF session, x
    <2>6. /\ apnsSend'[s] = x /\ (\A o \in ApnsSends \ {s} : apnsSend'[o] = apnsSend[o])
          /\ apnsSend' = [o \in ApnsSends |-> apnsSend'[o]]
      BY <2>1 DEF ApnsInv
    <2>7. ApnsInv'
      BY <1>3, <2>1, <2>2, <2>3, <2>6 DEF ApnsInv
    <2>8. PoolInv'
      <3>1. DOMAIN sessionState' = DOMAIN sessionState \cup {session}
        BY <2>1
      <3>2. IsFiniteSet(DOMAIN sessionState \cup {session})
        BY FS_AddElement DEF PoolInv
      <3> QED BY <2>1, <2>4, <3>1, <3>2 DEF PoolInv
    <2>9. OpenSessionIsPooled'
      BY <2>1, <2>5 DEF OpenSessionIsPooled
    <2> QED BY <1>1, <2>1, <2>7, <2>8, <2>9
  <1>5. ASSUME NEW s \in ApnsSends, ApnsAnswer(s)
        PROVE  TransportInv'
    <2>1. ~(tclock > apnsSend[s].token + AppleMax)
      BY <1>3, <1>5 DEF ApnsAnswer, ApnsInv
    <2>2. /\ UNCHANGED <<tclock, fcmVars, jwtAt, pooled, sessionState>>
          /\ apnsSend' = [apnsSend EXCEPT ![s] = Idle]
      BY <1>5, <2>1 DEF ApnsAnswer
    <2>3. /\ apnsSend'[s] = Idle /\ (\A o \in ApnsSends \ {s} : apnsSend'[o] = apnsSend[o])
          /\ apnsSend' = [o \in ApnsSends |-> apnsSend'[o]]
      BY <2>2 DEF ApnsInv
    <2>4. ApnsInv'
      BY <1>3, <2>2, <2>3 DEF ApnsInv
    <2>5. PoolInv' /\ OpenSessionIsPooled'
      BY <2>2 DEF PoolInv, TransportsAreSound, OpenSessionIsPooled
    <2> QED BY <1>1, <2>2, <2>4, <2>5
  <1>6. ASSUME NEW n \in DOMAIN sessionState,
               GoAway(n) \/ SessionFails(n) \/ SessionCloses(n)
        PROVE  TransportInv'
    <2>1. UNCHANGED <<tclock, fcmVars, jwtAt, apnsSend>>
      BY <1>6 DEF GoAway, SessionFails, SessionCloses
    <2>2. PICK st \in {"goingaway", "destroyed", "closed"} :
            sessionState' = [sessionState EXCEPT ![n] = st]
      BY <1>6 DEF GoAway, SessionFails, SessionCloses
    <2>3. pooled' = pooled \/ (pooled = n /\ pooled' = NoSessionNo)
      BY <1>6 DEF GoAway, SessionFails, SessionCloses, DropSession
    <2>4. /\ DOMAIN sessionState' = DOMAIN sessionState /\ sessionState'[n] # "open"
          /\ \A m \in DOMAIN sessionState \ {n} : sessionState'[m] = sessionState[m]
      BY <2>2 DEF PoolInv
    <2>5. OpenSessionIsPooled'
      BY <2>3, <2>4 DEF TransportsAreSound, OpenSessionIsPooled
    <2>6. PoolInv'
      <3>1. IsFiniteSet(DOMAIN sessionState) /\ NoSessionNo \notin DOMAIN sessionState
        BY DEF PoolInv
      <3>2. IsFiniteSet(DOMAIN sessionState') /\ NoSessionNo \notin DOMAIN sessionState'
        BY <2>4, <3>1
      <3>3. sessionState' = [m \in DOMAIN sessionState' |-> sessionState'[m]]
        BY <2>2 DEF PoolInv
      <3> QED BY <3>2, <3>3 DEF PoolInv
    <2>7. ApnsInv'
      BY <2>1 DEF ApnsInv
    <2> QED BY <1>1, <2>1, <2>5, <2>6, <2>7
  <1> QED BY <1>2, <1>4, <1>5, <1>6 DEF ApnsNext

(* FcmTransport and ApnsTransport (_getAccessToken, _providerToken,        *)
(* _getSession, _dropSession): any number of overlapping sends share one   *)
(* exchange for a token, none is refused for the age of a cached token,    *)
(* and an open session is the pooled one, whatever events come late.       *)
THEOREM TransportsStaySound == TransportSpec => []TransportsAreSound
  <1>1. TransportInit => TransportInv
    <2> SUFFICES ASSUME TransportInit PROVE TransportInv
      OBVIOUS
    <2>1. Idle.at = "idle"
      BY DEF Idle
    <2>2. IsFiniteSet({})
      BY FS_EmptySet
    <2>3. DOMAIN sessionState = {} /\ PoolInv
      BY <2>2 DEF TransportInit, PoolInv
    <2>4. FcmInv /\ ApnsInv
      BY <2>1 DEF TransportInit, FcmInv, ApnsInv
    <2> QED BY <2>1, <2>3, <2>4 DEF TransportInit, TransportInv, TransportsAreSound,
               WaitersHaveOneMint, NoTokenDiesInFlight, OpenSessionIsPooled
  <1>2. TransportInv /\ [TransportNext]_transportVars => TransportInv'
    <2>1. ASSUME TransportInv, UNCHANGED transportVars PROVE TransportInv'
      BY <2>1 DEF transportVars, fcmVars, apnsVars, TransportInv, FcmInv, ApnsInv, PoolInv,
         TransportsAreSound, WaitersHaveOneMint, NoTokenDiesInFlight, OpenSessionIsPooled
    <2> QED BY <2>1, FcmStep, ApnsStep DEF TransportNext
  <1>3. TransportInv => TransportsAreSound
    BY DEF TransportInv
  <1> QED BY <1>1, <1>2, <1>3, PTL DEF TransportSpec

-----------------------------------------------------------------------------
(* Rate limits.  What was let through since an operation, and what is left *)
(* in the bucket, is at most a full bucket and the time since; a bucket    *)
(* that is gone was idle for so long that even a full one is paid for,     *)
(* which is where BUCKET_IDLE_MS has to be the time that a bucket takes to *)
(* fill up.                                                                *)

Units(k, i) == i * Cost[k]
Full(k) == Burst[k] * Cost[k]
Count(k, n) == Len(passed[k]) + 1 - n

(* What holds of a kind while its bucket is b. *)
Paid(k, b) ==
  IF b = NoBucket
  THEN \A n \in DOMAIN passed[k] : Units(k, Count(k, n)) <= lclock - passed[k][n]
  ELSE /\ b \in [units : Nat, at : Nat]
       /\ b.units <= Full(k) /\ b.at <= lclock
       /\ \A n \in DOMAIN passed[k] :
            Units(k, Count(k, n)) + b.units <= Full(k) + (b.at - passed[k][n])

RateInv(k) ==
  /\ lclock \in Nat /\ passed[k] \in Seq(Nat)
  /\ \A n \in DOMAIN passed[k] : passed[k][n] <= lclock
  /\ Paid(k, buckets[k]) /\ WithinRate(k)

CountInv ==
  /\ buckets = [k \in Kinds |-> buckets[k]] /\ passed = [k \in Kinds |-> passed[k]]
  /\ lsocket = [s \in LSockets |-> lsocket[s]]
  /\ IsFiniteSet({s \in LSockets : lsocket[s] = "counted"})
  /\ ConnectionsAreCounted

(* The multiples of a cost. *)
LEMMA UnitsFacts ==
  ASSUME NEW k \in Kinds, NEW i \in Nat
  PROVE  /\ Units(k, i) \in Nat /\ Units(k, i + 1) = Units(k, i) + Cost[k]
         /\ Units(k, 0) = 0 /\ Units(k, 1) = Cost[k]
         /\ Full(k) \in Nat /\ Cost[k] \in Nat
  <1>1. Cost[k] \in Nat /\ Burst[k] \in Nat
    BY LimitsAssumption
  <1> DEFINE c == Cost[k]
             u == Burst[k]
  <1>2. c \in Nat /\ u \in Nat
    BY <1>1
  <1> HIDE DEF c, u
  <1>3. i * c \in Nat /\ (i + 1) * c = i * c + c /\ 0 * c = 0 /\ 1 * c = c /\ u * c \in Nat
    BY <1>2
  <1> QED BY <1>2, <1>3 DEF Units, Full, c, u

(* _prune drops a bucket only when all that went through it is paid for. *)
LEMMA PruneKeepsPaid ==
  ASSUME NEW k \in Kinds, RateInv(k), Full(k) <= BucketIdle
  PROVE  Paid(k, Pruned[k])
  <1>1. CASE Pruned[k] = buckets[k]
    BY <1>1 DEF RateInv
  <1>2. CASE Pruned[k] # buckets[k]
    <2>1. Pruned[k] = NoBucket /\ buckets[k] # NoBucket /\ lclock - buckets[k].at > BucketIdle
      BY <1>2 DEF Pruned
    <2>2. /\ buckets[k].units \in Nat /\ buckets[k].at \in Nat
          /\ \A n \in DOMAIN passed[k] :
            Units(k, Count(k, n)) + buckets[k].units
              <= Full(k) + (buckets[k].at - passed[k][n])
      BY <2>1 DEF RateInv, Paid
    <2>3. ASSUME NEW n \in DOMAIN passed[k]
          PROVE  Units(k, Count(k, n)) <= lclock - passed[k][n]
      <3>1. passed[k][n] \in Nat /\ Count(k, n) \in Nat
        BY DEF RateInv, Count
      <3>2. Units(k, Count(k, n)) \in Nat /\ Full(k) \in Nat /\ BucketIdle \in Nat
        BY <3>1, UnitsFacts, LimitsAssumption
      <3>3. /\ lclock \in Nat /\ buckets[k].units \in Nat /\ buckets[k].at \in Nat
            /\ lclock - buckets[k].at > BucketIdle /\ Full(k) <= BucketIdle
            /\ Units(k, Count(k, n)) + buckets[k].units
                 <= Full(k) + (buckets[k].at - passed[k][n])
        BY <2>1, <2>2 DEF RateInv
      <3> QED BY <3>1, <3>2, <3>3
    <2> QED BY <2>1, <2>3 DEF Paid
  <1> QED BY <1>1, <1>2

(* Refilling up to the burst keeps the account. *)
LEMMA RefillKeepsPaid ==
  ASSUME NEW k \in Kinds, RateInv(k), Full(k) <= BucketIdle
  PROVE  /\ Refilled(k) \in Nat /\ Refilled(k) <= Full(k)
         /\ \A n \in DOMAIN passed[k] :
              Units(k, Count(k, n)) + Refilled(k) <= Full(k) + (lclock - passed[k][n])
  <1> DEFINE b == Pruned[k]
  <1>1. Paid(k, b)
    BY PruneKeepsPaid
  <1>2. \A n \in DOMAIN passed[k] :
          passed[k][n] \in Nat /\ Count(k, n) \in Nat /\ Units(k, Count(k, n)) \in Nat
    <2>1. \A n \in DOMAIN passed[k] : passed[k][n] \in Nat /\ Count(k, n) \in Nat
      BY DEF RateInv, Count
    <2> QED BY <2>1, UnitsFacts
  <1>3. Full(k) \in Nat /\ lclock \in Nat
    BY UnitsFacts DEF RateInv
  <1>4. Refilled(k) = IF b = NoBucket THEN Full(k)
                      ELSE Smaller(Full(k), b.units + (lclock - b.at))
    BY DEF Refilled, Full
  <1> HIDE DEF b
  <1>5. CASE b = NoBucket
    BY <1>1, <1>2, <1>3, <1>4, <1>5 DEF Paid
  <1>6. CASE b # NoBucket
    <2>1. b.units \in Nat /\ b.at \in Nat /\ b.at <= lclock
          /\ \A n \in DOMAIN passed[k] :
               Units(k, Count(k, n)) + b.units <= Full(k) + (b.at - passed[k][n])
      BY <1>1, <1>6 DEF Paid
    <2>2. /\ Refilled(k) \in Nat /\ Refilled(k) <= Full(k)
          /\ Refilled(k) <= b.units + (lclock - b.at)
      BY <1>3, <1>4, <1>6, <2>1 DEF Smaller
    <2> HIDE DEF Refilled
    <2> QED BY <1>2, <1>3, <2>1, <2>2
  <1> QED BY <1>5, <1>6

(* The bucket that _take leaves, and the operation that it lets through. *)
Remaining(k) == IF Enough(k) THEN Refilled(k) - Cost[k] ELSE Refilled(k)

(* _take keeps a bucket within the rate: what it lets through has been paid. *)
LEMMA TakeKeepsRate ==
  ASSUME NEW k \in Kinds, RateInv(k), Full(k) <= BucketIdle, CountInv,
         Take(k), UNCHANGED lclock,
         IF Enough(k) THEN Passing(k) ELSE UNCHANGED passed
  PROVE  RateInv(k)'
  <1> DEFINE r == Refilled(k)
             c == Cost[k]
             p == passed[k]
             L == Len(passed[k])
             w == [units |-> Remaining(k), at |-> lclock]
  <1>1. /\ r \in Nat /\ r <= Full(k)
        /\ \A n \in DOMAIN p : Units(k, Count(k, n)) + r <= Full(k) + (lclock - p[n])
    BY RefillKeepsPaid
  <1>2. c \in Nat /\ Full(k) \in Nat /\ lclock \in Nat /\ p \in Seq(Nat) /\ L \in Nat
        /\ DOMAIN p = 1..L
    <2>1. c \in Nat /\ Full(k) \in Nat
      BY UnitsFacts, 0 \in Nat
    <2>2. lclock \in Nat /\ p \in Seq(Nat)
      BY DEF RateInv
    <2> QED BY <2>1, <2>2
  <1>3. \A n \in 1..L : p[n] \in Nat /\ p[n] <= lclock /\ Count(k, n) \in Nat
    BY <1>2 DEF RateInv, Count
  <1>4. \A n \in 1..L : Units(k, Count(k, n)) \in Nat
                        /\ Units(k, Count(k, n) + 1) = Units(k, Count(k, n)) + c
    BY <1>3, UnitsFacts
  <1>5. buckets'[k] = w
    BY DEF Take, CountInv, Enough, Remaining, Pruned
  <1>6. w.units = Remaining(k) /\ w.at = lclock
    OBVIOUS
  <1>7. Remaining(k) = IF r >= c THEN r - c ELSE r
    BY DEF Remaining, Enough
  <1>8. Remaining(k) \in Nat /\ Remaining(k) <= Full(k)
    <2> HIDE DEF r, c
    <2> QED BY <1>1, <1>2, <1>7
  <1>9. w \in [units : Nat, at : Nat]
    BY <1>2, <1>8
  <1>10. w # NoBucket
    BY <1>9, LimitsAssumption
  <1> HIDE DEF w
  <1>11. CASE Enough(k)
    <2>1. passed'[k] = Append(p, lclock)
      BY <1>11 DEF Passing, CountInv
    <2>2. /\ passed'[k] \in Seq(Nat) /\ Len(passed'[k]) = L + 1
          /\ \A n \in 1..L : passed'[k][n] = p[n]
          /\ passed'[k][L + 1] = lclock
          /\ DOMAIN passed'[k] = 1..(L + 1)
      BY <1>2, <2>1
    <2>3. Remaining(k) = r - c
      BY <1>7, <1>11 DEF Enough
    <2> HIDE DEF r, p, L
    <2>4. \A n \in 1..(L + 1) : passed'[k][n] \in Nat /\ passed'[k][n] <= lclock
      BY <1>2, <1>3, <2>2
    <2>5. ASSUME NEW n \in 1..(L + 1)
          PROVE  Units(k, L + 2 - n) + Remaining(k) <= Full(k) + (lclock - passed'[k][n])
      <3>1. CASE n \in 1..L
        <4>1. L + 2 - n = Count(k, n) + 1
          BY <1>2, <3>1 DEF Count, L
        <4>2. /\ Units(k, L + 2 - n) = Units(k, Count(k, n)) + c
              /\ Units(k, Count(k, n)) \in Nat
          BY <1>4, <3>1, <4>1
        <4>3. Units(k, Count(k, n)) + r <= Full(k) + (lclock - p[n]) /\ p[n] \in Nat
          BY <1>1, <1>2, <1>3, <3>1
        <4>4. \A x, f, q \in Nat : x + r <= f + (lclock - q)
                => (x + c) + (r - c) <= f + (lclock - q)
          <5> HIDE DEF c
          <5> QED BY <1>1, <1>2
        <4>5. (Units(k, Count(k, n)) + c) + (r - c) <= Full(k) + (lclock - p[n])
          BY <1>2, <4>2, <4>3, <4>4
        <4>6. passed'[k][n] = p[n]
          BY <2>2, <3>1
        <4> QED BY <2>3, <4>2, <4>5, <4>6
      <3>2. CASE n = L + 1
        <4>1. L + 2 - n = 1
          BY <1>2, <3>2
        <4>2. Units(k, L + 2 - n) = c
          BY <4>1, UnitsFacts, 0 \in Nat
        <4> HIDE DEF c
        <4> QED BY <1>1, <1>2, <2>2, <2>3, <3>2, <4>2
      <3> QED BY <1>2, <3>1, <3>2
    <2>6. Paid(k, buckets[k])'
      <3>1. \A n \in 1..(L + 1) : Count(k, n)' = L + 2 - n
        BY <1>2, <2>2 DEF Count
      <3>2. \A n \in DOMAIN passed'[k] :
              Units(k, Count(k, n)') + w.units <= Full(k) + (w.at - passed'[k][n])
        BY <1>6, <2>2, <2>5, <3>1
      <3>3. w.units <= Full(k) /\ w.at <= lclock
        BY <1>2, <1>6, <1>8
      <3> QED BY <1>5, <1>9, <1>10, <3>2, <3>3 DEF Paid, Units, Full
    <2>7. WithinRate(k)'
      <3>1. ASSUME NEW n \in 1..(L + 1), NEW m \in n..(L + 1)
            PROVE  (m - n + 1) * c <= Burst[k] * c + (passed'[k][m] - passed'[k][n])
        <4>1. CASE m = L + 1
          <5>1. Units(k, L + 2 - n) + Remaining(k) <= Full(k) + (lclock - passed'[k][n])
            BY <2>5
          <5>2. passed'[k][m] = lclock /\ passed'[k][n] \in Nat /\ m - n + 1 = L + 2 - n
            <6>1. passed'[k][m] = lclock /\ passed'[k][n] \in Nat
              BY <2>2, <2>4, <4>1
            <6>2. m - n + 1 = L + 2 - n
              BY <1>2, <4>1
            <6> QED BY <6>1, <6>2
          <5>3. (m - n + 1) * c = Units(k, L + 2 - n) /\ Full(k) = Burst[k] * c
            BY <5>2 DEF Units, Full
          <5>4. L + 2 - n \in Nat
            BY <1>2
          <5>5. Units(k, L + 2 - n) \in Nat
            BY <5>4, UnitsFacts
          <5>6. \A x, y, f, q \in Nat : x + y <= f + (lclock - q) => x <= f + (lclock - q)
            BY <1>2
          <5>7. Units(k, L + 2 - n) <= Full(k) + (lclock - passed'[k][n])
            BY <1>2, <1>8, <5>1, <5>2, <5>5, <5>6
          <5> QED BY <5>2, <5>3, <5>7
        <4>2. CASE m # L + 1
          <5>1. m \in 1..L /\ n \in 1..L /\ m \in n..L
            BY <1>2, <4>2
          <5>2. (m - n + 1) * Cost[k] <= Burst[k] * Cost[k] + (passed[k][m] - passed[k][n])
            BY <1>2, <5>1 DEF RateInv, WithinRate, p, L
          <5> QED BY <2>2, <5>1, <5>2 DEF p
        <4> QED BY <4>1, <4>2
      <3> QED BY <2>2, <3>1 DEF WithinRate
    <2> QED BY <1>2, <2>2, <2>4, <2>6, <2>7 DEF RateInv
  <1>12. CASE ~Enough(k)
    <2>1. UNCHANGED passed /\ Remaining(k) = r
      BY <1>12 DEF Remaining
    <2>2. \A n \in DOMAIN p :
            Units(k, Count(k, n)) + w.units <= Full(k) + (w.at - p[n])
      BY <1>1, <1>6, <2>1
    <2>3. w.units <= Full(k) /\ w.at <= lclock
      BY <1>2, <1>6, <1>8
    <2>4. Paid(k, buckets[k])'
      BY <1>5, <1>9, <1>10, <2>1, <2>2, <2>3 DEF Paid, Units, Full, Count
    <2> QED BY <2>1, <2>4 DEF RateInv, WithinRate
  <1> QED BY <1>11, <1>12

(* A step that takes from no bucket, or from that of another kind. *)
LEMMA OthersKeepRate ==
  ASSUME NEW k \in Kinds, RateInv(k), Full(k) <= BucketIdle,
         lclock' \in Nat, lclock <= lclock', passed'[k] = passed[k],
         buckets'[k] = buckets[k] \/ (buckets'[k] = Pruned[k] /\ UNCHANGED lclock)
  PROVE  RateInv(k)'
  <1>1. lclock \in Nat /\ passed[k] \in Seq(Nat) /\ WithinRate(k)
        /\ \A n \in DOMAIN passed[k] : passed[k][n] \in Nat /\ passed[k][n] <= lclock
    BY DEF RateInv
  <1>2. \A n \in DOMAIN passed[k] : passed'[k][n] <= lclock'
    BY <1>1
  <1>3. WithinRate(k)'
    BY <1>1 DEF WithinRate
  <1>4. \A n \in DOMAIN passed[k] : Count(k, n) \in Nat /\ Units(k, Count(k, n)) \in Nat
    <2>1. \A n \in DOMAIN passed[k] : Count(k, n) \in Nat
      BY <1>1 DEF Count
    <2> QED BY <2>1, UnitsFacts
  <1>5. ASSUME NEW b, Paid(k, b)
        PROVE  IF b = NoBucket
               THEN \A n \in DOMAIN passed[k] :
                      Units(k, Count(k, n)) <= lclock' - passed[k][n]
               ELSE b \in [units : Nat, at : Nat] /\ b.units <= Full(k) /\ b.at <= lclock'
                    /\ \A n \in DOMAIN passed[k] :
                         Units(k, Count(k, n)) + b.units <= Full(k) + (b.at - passed[k][n])
    <2>1. CASE b = NoBucket
      <3>1. ASSUME NEW n \in DOMAIN passed[k]
            PROVE  Units(k, Count(k, n)) <= lclock' - passed[k][n]
        <4>1. Units(k, Count(k, n)) <= lclock - passed[k][n]
          BY <1>5, <2>1 DEF Paid
        <4>2. \A x, y \in Nat : x <= lclock - y => x <= lclock' - y
          BY <1>1
        <4> QED BY <1>1, <1>4, <4>1, <4>2
      <3> QED BY <2>1, <3>1
    <2>2. CASE b # NoBucket
      BY <1>1, <1>5, <2>2 DEF Paid
    <2> QED BY <2>1, <2>2
  <1>6. Paid(k, buckets'[k])
    <2>1. Paid(k, buckets[k]) /\ Paid(k, Pruned[k])
      BY PruneKeepsPaid DEF RateInv
    <2> QED BY <2>1
  <1>7. Paid(k, buckets[k])'
    <2>1. \A n : Count(k, n)' = Count(k, n)
      BY DEF Count
    <2> DEFINE b == buckets'[k]
    <2>2. IF b = NoBucket
          THEN \A n \in DOMAIN passed[k] : Units(k, Count(k, n)) <= lclock' - passed[k][n]
          ELSE b \in [units : Nat, at : Nat] /\ b.units <= Full(k) /\ b.at <= lclock'
               /\ \A n \in DOMAIN passed[k] :
                    Units(k, Count(k, n)) + b.units <= Full(k) + (b.at - passed[k][n])
      BY <1>5, <1>6
    <2> QED BY <2>1, <2>2 DEF Paid, Units, Full
  <1> QED BY <1>1, <1>2, <1>3, <1>7 DEF RateInv

(* The count of connections is that of the sockets that were counted. *)
LEMMA CountStep ==
  ASSUME CountInv, [LimitNext]_limitVars
  PROVE  CountInv'
  <1> DEFINE S == {s \in LSockets : lsocket[s] = "counted"}
  <1>1. /\ IsFiniteSet(S) /\ connections = Cardinality(S) /\ connections \in Nat
        /\ connections <= MaxConnections /\ MaxConnections \in Nat
    <2>1. IsFiniteSet(S) /\ connections = Cardinality(S) /\ connections <= MaxConnections
      BY DEF CountInv, ConnectionsAreCounted
    <2> QED BY <2>1, FS_CardinalityType, LimitsAssumption
  <1>2. /\ buckets' = [k \in Kinds |-> buckets'[k]] /\ passed' = [k \in Kinds |-> passed'[k]]
    <2>1. ASSUME NEW k \in Kinds, Take(k)
          PROVE  buckets' = [j \in Kinds |-> buckets'[j]]
      BY <2>1 DEF Take, CountInv, Pruned
    <2>2. ASSUME NEW k \in Kinds, Passing(k)
          PROVE  passed' = [j \in Kinds |-> passed'[j]]
      BY <2>2 DEF Passing, CountInv
    <2>3. ConnKind \in Kinds /\ RealmKind \in Kinds
      BY LimitsAssumption
    <2>4. buckets' = buckets \/ Take(ConnKind) \/ Take(RealmKind)
      BY DEF LimitNext, limitVars, LimitTick, RealmCreation, SetLimits, LimitConnect,
             LimitDisconnect
    <2>5. passed' = passed \/ Passing(ConnKind) \/ Passing(RealmKind)
      BY DEF LimitNext, limitVars, LimitTick, RealmCreation, SetLimits, LimitConnect,
             LimitDisconnect
    <2> QED BY <2>1, <2>2, <2>3, <2>4, <2>5 DEF CountInv
  <1>3. CASE UNCHANGED <<lsocket, connections>>
    BY <1>2, <1>3 DEF CountInv, ConnectionsAreCounted
  <1>4. ASSUME NEW s \in LSockets, NEW st, st # "counted",
               lsocket' = [lsocket EXCEPT ![s] = st]
        PROVE  {x \in LSockets : lsocket'[x] = "counted"} = S \ {s}
               /\ lsocket' = [x \in LSockets |-> lsocket'[x]]
    BY <1>4 DEF CountInv
  <1>5. ASSUME NEW s \in LSockets, LimitConnect(s)
        PROVE  CountInv'
    <2>1. s \notin S
      BY <1>5 DEF LimitConnect
    <2>2. CASE UNCHANGED connections /\ lsocket' = [lsocket EXCEPT ![s] = "uncounted"]
      <3>1. {x \in LSockets : lsocket'[x] = "counted"} = S
        BY <1>4, <2>1, <2>2
      <3> QED BY <1>1, <1>2, <1>4, <2>2, <3>1 DEF CountInv, ConnectionsAreCounted
    <2>3. CASE connections < MaxConnections /\ connections' = connections + 1
               /\ lsocket' = [lsocket EXCEPT ![s] = "counted"]
      <3>1. {x \in LSockets : lsocket'[x] = "counted"} = S \cup {s}
            /\ lsocket' = [x \in LSockets |-> lsocket'[x]]
        BY <2>3 DEF CountInv
      <3>2. IsFiniteSet(S \cup {s}) /\ Cardinality(S \cup {s}) = Cardinality(S) + 1
        BY <1>1, <2>1, FS_AddElement
      <3>3. connections' <= MaxConnections
        BY <1>1, <2>3
      <3> QED BY <1>1, <1>2, <2>3, <3>1, <3>2, <3>3 DEF CountInv, ConnectionsAreCounted
    <2> QED BY <1>3, <1>5, <2>2, <2>3 DEF LimitConnect
  <1>6. ASSUME NEW s \in LSockets, LimitDisconnect(s)
        PROVE  CountInv'
    <2>1. lsocket' = [lsocket EXCEPT ![s] = "closed"] /\ connections' = Released(s)
      BY <1>6 DEF LimitDisconnect
    <2>2. {x \in LSockets : lsocket'[x] = "counted"} = S \ {s}
          /\ lsocket' = [x \in LSockets |-> lsocket'[x]]
      BY <1>4, <2>1
    <2>3. CASE s \in S
      <3>1. IsFiniteSet(S \ {s}) /\ Cardinality(S \ {s}) = Cardinality(S) - 1
        BY <1>1, <2>3, FS_RemoveElement
      <3>2. Cardinality(S \ {s}) \in Nat
        BY <3>1, FS_CardinalityType
      <3>3. connections' = connections - 1 /\ connections' <= MaxConnections
        BY <1>1, <2>1, <2>3, <3>1, <3>2 DEF Released
      <3> QED BY <1>1, <1>2, <2>2, <3>1, <3>3 DEF CountInv, ConnectionsAreCounted
    <2>4. CASE s \notin S
      <3>1. connections' = connections /\ S \ {s} = S
        BY <2>1, <2>4 DEF Released
      <3> QED BY <1>1, <1>2, <2>2, <3>1 DEF CountInv, ConnectionsAreCounted
    <2> QED BY <2>3, <2>4
  <1>7. CASE LimitTick \/ RealmCreation \/ (\E on \in BOOLEAN : SetLimits(on))
             \/ UNCHANGED limitVars
    BY <1>3, <1>7 DEF LimitTick, RealmCreation, SetLimits, limitVars
  <1> QED BY <1>5, <1>6, <1>7 DEF LimitNext

(* Every step keeps the account of each kind whose buckets fill up before  *)
(* they count as idle.                                                     *)
LEMMA RateStep ==
  ASSUME NEW k \in Kinds, RateInv(k), Full(k) <= BucketIdle, CountInv,
         [LimitNext]_limitVars
  PROVE  RateInv(k)'
  <1>1. lclock \in Nat /\ lclock + 1 \in Nat /\ lclock <= lclock + 1 /\ lclock <= lclock
    BY DEF RateInv
  <1>2. CASE UNCHANGED <<buckets, passed>> /\ lclock' \in {lclock, lclock + 1}
    BY <1>1, <1>2, OthersKeepRate
  <1>3. ASSUME NEW j \in Kinds, Take(j), UNCHANGED lclock,
               IF Enough(j) THEN Passing(j) ELSE UNCHANGED passed
        PROVE  RateInv(k)'
    <2>1. CASE j = k
      BY <1>3, <2>1, TakeKeepsRate
    <2>2. CASE j # k
      <3>1. buckets'[k] = Pruned[k]
        BY <1>3, <2>2 DEF Take, Pruned, CountInv
      <3>2. passed'[k] = passed[k]
        BY <1>3, <2>2 DEF Passing, CountInv
      <3> QED BY <1>1, <1>3, <3>1, <3>2, OthersKeepRate
    <2> QED BY <2>1, <2>2
  <1>4. ConnKind \in Kinds /\ RealmKind \in Kinds
    BY LimitsAssumption
  <1>5. \/ UNCHANGED <<buckets, passed>> /\ lclock' \in {lclock, lclock + 1}
        \/ /\ Take(ConnKind) /\ UNCHANGED lclock
           /\ IF Enough(ConnKind) THEN Passing(ConnKind) ELSE UNCHANGED passed
        \/ /\ Take(RealmKind) /\ UNCHANGED lclock
           /\ IF Enough(RealmKind) THEN Passing(RealmKind) ELSE UNCHANGED passed
    BY DEF LimitNext, limitVars, LimitTick, RealmCreation, SetLimits, LimitConnect,
           LimitDisconnect
  <1> QED BY <1>2, <1>3, <1>4, <1>5

LimitInv == RateInv(ConnKind) /\ CountInv

(* connectionAllowed, _take, _prune and releaseConnection, with buckets    *)
(* that fill up before they count as idle (connections_per_minute_per_ip:  *)
(* a minute, BUCKET_IDLE_MS: ten): whatever is refused, closed, repeated   *)
(* or pruned, an address gets no more connections than its bucket allows,  *)
(* and the count is that of the connections that are open and counted.     *)
THEOREM ConnectionsStayLimited ==
  ASSUME Burst[ConnKind] * Cost[ConnKind] <= BucketIdle
  PROVE  LimitSpec => []ConnectionsAreLimited
  <1>1. ConnKind \in Kinds /\ Full(ConnKind) <= BucketIdle /\ MaxConnections \in Nat
    BY LimitsAssumption DEF Full
  <1>2. LimitInit => LimitInv
    <2> SUFFICES ASSUME LimitInit PROVE LimitInv
      OBVIOUS
    <2>1. passed[ConnKind] = <<>> /\ buckets[ConnKind] = NoBucket /\ lclock = 0
      BY <1>1 DEF LimitInit
    <2>2. RateInv(ConnKind)
      BY <2>1 DEF RateInv, Paid, WithinRate
    <2>3. {s \in LSockets : lsocket[s] = "counted"} = {}
      BY DEF LimitInit
    <2>4. IsFiniteSet({}) /\ Cardinality({}) = 0
      BY FS_EmptySet
    <2>5. connections = 0 /\ 0 <= MaxConnections
      BY <1>1 DEF LimitInit
    <2>6. ConnectionsAreCounted /\ IsFiniteSet({s \in LSockets : lsocket[s] = "counted"})
      BY <2>3, <2>4, <2>5 DEF ConnectionsAreCounted
    <2>7. buckets = [k \in Kinds |-> buckets[k]] /\ passed = [k \in Kinds |-> passed[k]]
          /\ lsocket = [s \in LSockets |-> lsocket[s]]
      BY DEF LimitInit
    <2>8. CountInv
      BY <2>6, <2>7, Zenon DEF CountInv
    <2> QED BY <2>2, <2>8 DEF LimitInv
  <1>3. LimitInv /\ [LimitNext]_limitVars => LimitInv'
    BY <1>1, RateStep, CountStep DEF LimitInv
  <1>4. LimitInv => ConnectionsAreLimited
    BY DEF LimitInv, RateInv, CountInv, ConnectionsAreLimited, ConnectionRate
  <1> QED BY <1>2, <1>3, <1>4, PTL DEF LimitSpec

-----------------------------------------------------------------------------
(* Chat tickets: uploads.  Between(M, a, b) are the uploads of a session   *)
(* from time a on and before b.                                            *)

Between(M, a, b) == {n \in DOMAIN M : a <= M[n] /\ M[n] < b}
Uploads(M, a, b) == Cardinality(Between(M, a, b))

(* Uploads are counted, and more in a longer interval. *)
LEMMA UploadsFacts ==
  ASSUME NEW M \in Seq(Nat), NEW a, NEW b
  PROVE  /\ IsFiniteSet(Between(M, a, b)) /\ Uploads(M, a, b) \in Nat
         /\ \A T : T \subseteq Between(M, a, b) => Cardinality(T) <= Uploads(M, a, b)
  <1>1. DOMAIN M = 1..Len(M) /\ Len(M) \in Nat
    OBVIOUS
  <1>2. IsFiniteSet(1..Len(M))
    <2>1. 1 \in Int /\ Len(M) \in Int
      BY <1>1
    <2> QED BY <2>1, FS_Interval
  <1>3. Between(M, a, b) \in SUBSET (1..Len(M))
    BY <1>1 DEF Between
  <1>4. IsFiniteSet(Between(M, a, b))
    BY <1>2, <1>3, FS_Subset
  <1> HIDE DEF Between
  <1> QED BY <1>4, FS_Subset, FS_CardinalityType DEF Uploads

(* One more upload, at time x. *)
LEMMA UploadsAppend ==
  ASSUME NEW M \in Seq(Nat), NEW x \in Nat, NEW a \in Nat, NEW b \in Nat
  PROVE  Uploads(Append(M, x), a, b)
           = IF a <= x /\ x < b THEN Uploads(M, a, b) + 1 ELSE Uploads(M, a, b)
  <1> DEFINE N == Append(M, x)
             L == Len(M)
  <1>1. L \in Nat /\ DOMAIN M = 1..L /\ DOMAIN N = 1..(L + 1) /\ N[L + 1] = x
        /\ \A n \in 1..L : N[n] = M[n]
    OBVIOUS
  <1> HIDE DEF N, L
  <1>2. L + 1 \notin 1..L /\ 1..(L + 1) = 1..L \cup {L + 1}
    BY <1>1
  <1>3. L + 1 \notin Between(M, a, b)
    BY <1>1, <1>2 DEF Between
  <1>4. CASE a <= x /\ x < b
    <2>1. Between(N, a, b) = Between(M, a, b) \cup {L + 1}
      BY <1>1, <1>2, <1>4 DEF Between
    <2>2. Cardinality(Between(M, a, b) \cup {L + 1}) = Cardinality(Between(M, a, b)) + 1
      BY <1>3, UploadsFacts, FS_AddElement
    <2> QED BY <1>4, <2>1, <2>2 DEF Uploads, N
  <1>5. CASE ~(a <= x /\ x < b)
    <2>1. Between(N, a, b) = Between(M, a, b)
      BY <1>1, <1>2, <1>5 DEF Between
    <2> QED BY <1>5, <2>1 DEF Uploads, N
  <1> QED BY <1>4, <1>5

(* An interval is no more than its two parts. *)
LEMMA UploadsSplit ==
  ASSUME NEW M \in Seq(Nat), NEW a \in Nat, NEW b \in Nat, NEW c \in Nat
  PROVE  Uploads(M, a, c) <= Uploads(M, a, b) + Uploads(M, b, c)
  <1> DEFINE S == Between(M, a, b)
             T == Between(M, b, c)
  <1>1. IsFiniteSet(S) /\ IsFiniteSet(T) /\ Cardinality(S) \in Nat /\ Cardinality(T) \in Nat
    BY UploadsFacts DEF Uploads
  <1>2. Between(M, a, c) \in SUBSET (S \cup T)
    BY DEF Between
  <1> HIDE DEF S, T
  <1>3. IsFiniteSet(S \cup T) /\ IsFiniteSet(S \cap T)
        /\ Cardinality(S \cup T) = Cardinality(S) + Cardinality(T) - Cardinality(S \cap T)
    <2>1. S \cap T \in SUBSET S
      OBVIOUS
    <2> QED BY <1>1, <2>1, FS_Union, FS_Subset
  <1>4. Cardinality(S \cap T) \in Nat /\ Cardinality(S \cup T) \in Nat
    BY <1>3, FS_CardinalityType
  <1>5. Cardinality(Between(M, a, c)) <= Cardinality(S \cup T)
    BY <1>2, <1>3, FS_Subset
  <1>6. Cardinality(Between(M, a, c)) \in Nat
    BY UploadsFacts DEF Uploads
  <1>7. Cardinality(Between(M, a, c)) <= Cardinality(S) + Cardinality(T)
    BY <1>1, <1>3, <1>4, <1>5, <1>6
  <1> QED BY <1>7 DEF Uploads, S, T

(* A session with uploads at the times M, whose window began at b and has  *)
(* had c of them: one at b is not counted after b, and no interval as long *)
(* as a window reaches from the first moment of the last window into this  *)
(* one.                                                                    *)
WindowInv(M, c, b) ==
  /\ M \in Seq(Nat) /\ c \in 0..UploadCap /\ b \in Nat
  /\ \A n \in DOMAIN M : M[n] < b + WindowMs
  /\ Uploads(M, b, b + WindowMs) <= c
  /\ Uploads(M, b + 1, b + WindowMs) <= IF c = 0 THEN 0 ELSE c - 1
  /\ \A t \in Nat : b < t + WindowMs => Uploads(M, t, b) <= UploadCap - 1
  /\ \A t \in Nat : Uploads(M, t, t + WindowMs) <= 2 * UploadCap - 1

(* The settings of the store as numbers. *)
LEMMA TicketNumbers ==
  /\ UploadCap \in Nat /\ UploadCap >= 1 /\ WindowMs \in Nat /\ WindowMs >= 1
  /\ Ttl \in Nat /\ MaxTickets \in Nat /\ MaxClock \in Nat /\ MaxIssued \in Nat
  <1>1. UploadCap \in Nat \ {0} /\ WindowMs \in Nat \ {0}
    BY TicketAssumption
  <1>2. Ttl \in Nat /\ MaxTickets \in Nat /\ MaxClock \in Nat /\ MaxIssued \in Nat
    BY TicketAssumption
  <1> QED BY <1>1, <1>2

(* A new window, at time x. *)
LEMMA WindowOpens ==
  ASSUME NEW M, NEW c, NEW b, WindowInv(M, c, b),
         NEW x \in Nat, M = <<>> \/ b + WindowMs <= x
  PROVE  WindowInv(M, 0, x)
  <1>1. /\ M \in Seq(Nat) /\ c \in 0..UploadCap /\ b \in Nat
        /\ \A n \in DOMAIN M : M[n] \in Nat /\ M[n] < b + WindowMs
        /\ UploadCap \in Nat /\ UploadCap >= 1 /\ WindowMs \in Nat /\ WindowMs >= 1
        /\ 0 \in 0..UploadCap
    <2>1. M \in Seq(Nat) /\ c \in 0..UploadCap /\ b \in Nat
          /\ \A n \in DOMAIN M : M[n] < b + WindowMs
      BY DEF WindowInv
    <2>2. \A n \in DOMAIN M : M[n] \in Nat
      BY <2>1
    <2> QED BY <2>1, <2>2, TicketNumbers
  <1>2. \A n \in DOMAIN M : M[n] < x
    <2>1. CASE M = <<>>
      BY <2>1
    <2>2. CASE b + WindowMs <= x
      BY <1>1, <2>2
    <2> QED BY <2>1, <2>2
  <1>3. \A n \in DOMAIN M : M[n] < x + WindowMs /\ ~(x <= M[n]) /\ ~(x + 1 <= M[n])
    BY <1>1, <1>2
  <1>4. Uploads(M, x, x + WindowMs) = 0 /\ Uploads(M, x + 1, x + WindowMs) = 0
    <2>1. Between(M, x, x + WindowMs) = {} /\ Between(M, x + 1, x + WindowMs) = {}
      BY <1>3 DEF Between
    <2> QED BY <2>1, FS_EmptySet DEF Uploads
  <1>5. ASSUME NEW t \in Nat, x < t + WindowMs
        PROVE  Uploads(M, t, x) <= UploadCap - 1
    <2>1. CASE M = <<>>
      <3>1. Between(M, t, x) = {}
        BY <2>1 DEF Between
      <3>2. Uploads(M, t, x) = 0
        BY <3>1, FS_EmptySet DEF Uploads
      <3> QED BY <1>1, <3>2
    <2>2. CASE b + WindowMs <= x
      <3>1. b + 1 <= t
        BY <1>1, <1>5, <2>2
      <3>2. Between(M, t, x) \subseteq Between(M, b + 1, b + WindowMs)
        BY <1>1, <3>1 DEF Between
      <3>3. Uploads(M, t, x) <= Uploads(M, b + 1, b + WindowMs)
        BY <1>1, <3>2, UploadsFacts DEF Uploads
      <3>4. Uploads(M, b + 1, b + WindowMs) <= UploadCap - 1
            /\ Uploads(M, b + 1, b + WindowMs) \in Nat
        <4>1. Uploads(M, b + 1, b + WindowMs) \in Nat
          BY <1>1, UploadsFacts
        <4>2. (IF c = 0 THEN 0 ELSE c - 1) <= UploadCap - 1
          BY <1>1
        <4>3. Uploads(M, b + 1, b + WindowMs) <= IF c = 0 THEN 0 ELSE c - 1
          BY DEF WindowInv
        <4> QED BY <1>1, <4>1, <4>2, <4>3
      <3>5. Uploads(M, t, x) \in Nat
        BY <1>1, UploadsFacts
      <3> QED BY <1>1, <3>3, <3>4, <3>5
    <2> QED BY <2>1, <2>2
  <1>6. \A t \in Nat : Uploads(M, t, t + WindowMs) <= 2 * UploadCap - 1
    BY DEF WindowInv
  <1>7. 0 <= (IF 0 = 0 THEN 0 ELSE 0 - 1)
    OBVIOUS
  <1> QED BY <1>1, <1>3, <1>4, <1>5, <1>6, <1>7 DEF WindowInv

(* An upload at time x, let through or refused for want of room. *)
LEMMA WindowCounts ==
  ASSUME NEW M, NEW c, NEW b, WindowInv(M, c, b), c < UploadCap,
         NEW x \in Nat, b <= x, x < b + WindowMs, c = 0 => b = x
  PROVE  WindowInv(M, c + 1, b) /\ WindowInv(Append(M, x), c + 1, b)
  <1> DEFINE N == Append(M, x)
             W == WindowMs
             cap == UploadCap
  <1>1. /\ M \in Seq(Nat) /\ c \in Nat /\ c < cap /\ c + 1 \in 0..cap /\ b \in Nat
        /\ \A n \in DOMAIN M : M[n] \in Nat /\ M[n] < b + W
        /\ cap \in Nat /\ cap >= 1 /\ W \in Nat /\ W >= 1
        /\ b + W \in Nat /\ b + 1 \in Nat
    <2>1. M \in Seq(Nat) /\ c \in 0..UploadCap /\ b \in Nat
          /\ \A n \in DOMAIN M : M[n] < b + WindowMs
      BY DEF WindowInv
    <2>2. \A n \in DOMAIN M : M[n] \in Nat
      BY <2>1
    <2>3. \A y \in 0..cap : y < cap => y \in Nat /\ y + 1 \in 0..cap
      BY TicketNumbers
    <2> QED BY <2>1, <2>2, <2>3, TicketNumbers
  <1>2. /\ Uploads(M, b, b + W) <= c /\ Uploads(M, b, b + W) \in Nat
        /\ Uploads(M, b + 1, b + W) <= (IF c = 0 THEN 0 ELSE c - 1)
        /\ Uploads(M, b + 1, b + W) \in Nat
        /\ \A t \in Nat : b < t + W => Uploads(M, t, b) <= cap - 1
        /\ \A t \in Nat : Uploads(M, t, t + W) <= 2 * cap - 1
    BY <1>1, UploadsFacts DEF WindowInv
  <1>3. N \in Seq(Nat) /\ \A n \in DOMAIN N : N[n] \in Nat /\ N[n] < b + W
    BY <1>1
  <1>4. Uploads(N, b, b + W) <= c + 1
    <2>1. Uploads(N, b, b + W) = Uploads(M, b, b + W) + 1
      BY <1>1, UploadsAppend
    <2>2. \A y \in Nat : y <= c => y + 1 <= c + 1
      BY <1>1
    <2> QED BY <1>2, <2>1, <2>2
  <1>5. Uploads(N, b + 1, b + W) <= c
    <2>1. CASE c = 0
      <3>1. ~(b + 1 <= x)
        BY <1>1, <2>1
      <3> QED BY <1>1, <1>2, <2>1, <3>1, UploadsAppend
    <2>2. CASE c # 0
      <3>1. \/ Uploads(N, b + 1, b + W) = Uploads(M, b + 1, b + W) + 1
            \/ Uploads(N, b + 1, b + W) = Uploads(M, b + 1, b + W)
        BY <1>1, UploadsAppend
      <3>2. \A y \in Nat : y <= c - 1 => y <= c /\ y + 1 <= c
        BY <1>1
      <3> QED BY <1>2, <2>2, <3>1, <3>2
    <2> QED BY <2>1, <2>2
  <1>6. ASSUME NEW t \in Nat, b < t + W
        PROVE  Uploads(N, t, b) <= cap - 1
    <2>1. Uploads(N, t, b) = Uploads(M, t, b)
      BY <1>1, UploadsAppend
    <2> QED BY <1>2, <1>6, <2>1
  <1>7. ASSUME NEW t \in Nat
        PROVE  Uploads(N, t, t + W) <= 2 * cap - 1
    <2>0. t + W \in Nat
      BY <1>1
    <2>1. CASE ~(t <= x /\ x < t + W)
      <3>1. Uploads(N, t, t + W) = Uploads(M, t, t + W)
        BY <1>1, <2>0, <2>1, UploadsAppend
      <3> QED BY <1>2, <3>1
    <2>2. CASE t <= x /\ x < t + W /\ b < t
      <3>1. Between(N, t, t + W) \subseteq Between(N, b + 1, b + W)
        <4> HIDE DEF N
        <4> QED BY <1>1, <1>3, <2>2 DEF Between
      <3>2. Uploads(N, t, t + W) <= Uploads(N, b + 1, b + W)
        BY <1>3, <3>1, UploadsFacts DEF Uploads
      <3>3. Uploads(N, t, t + W) \in Nat /\ Uploads(N, b + 1, b + W) \in Nat
        BY <1>3, UploadsFacts
      <3> QED BY <1>1, <1>5, <3>2, <3>3
    <2>3. CASE t <= x /\ x < t + W /\ t <= b
      <3>1. Uploads(N, t, t + W) <= Uploads(N, t, b) + Uploads(N, b, t + W)
        BY <1>1, <1>3, <2>0, UploadsSplit
      <3>2. Uploads(N, t, b) <= cap - 1
        BY <1>1, <1>6, <2>3
      <3>3. Between(N, b, t + W) \subseteq Between(N, b, b + W)
        <4> HIDE DEF N
        <4> QED BY <1>1, <1>3, <2>3 DEF Between
      <3>4. Uploads(N, b, t + W) <= Uploads(N, b, b + W)
        BY <1>3, <3>3, UploadsFacts DEF Uploads
      <3>5. /\ Uploads(N, t, t + W) \in Nat /\ Uploads(N, b, b + W) \in Nat
            /\ Uploads(N, t, b) \in Nat /\ Uploads(N, b, t + W) \in Nat
        BY <1>3, UploadsFacts
      <3> QED BY <1>1, <1>4, <3>1, <3>2, <3>4, <3>5
    <2> QED BY <1>1, <2>1, <2>2, <2>3
  <1>8. c + 1 # 0 /\ c + 1 - 1 = c
    BY <1>1
  <1>9. WindowInv(N, c + 1, b)
    <2> HIDE DEF N
    <2> QED BY <1>1, <1>3, <1>4, <1>5, <1>6, <1>7, <1>8 DEF WindowInv
  <1>10. Uploads(M, b, b + W) <= c + 1 /\ Uploads(M, b + 1, b + W) <= c
    <2>1. \A y \in Nat : /\ y <= c => y <= c + 1
                         /\ y <= (IF c = 0 THEN 0 ELSE c - 1) => y <= c
      BY <1>1
    <2> QED BY <1>2, <2>1
  <1>11. WindowInv(M, c + 1, b)
    BY <1>1, <1>2, <1>8, <1>10 DEF WindowInv
  <1> QED BY <1>9, <1>11

(* The windows of all sessions.  A session without a window has had none. *)
UploadInv ==
  /\ clock \in 0..MaxClock
  /\ uploads \in [ChatSessions -> [count : Nat, start : Nat]]
  /\ minted = [s \in ChatSessions |-> minted[s]]
  /\ \A s \in ChatSessions :
       /\ WindowInv(minted[s], uploads[s].count, uploads[s].start)
       /\ uploads[s].start <= clock
       /\ uploads[s].count = 0 => minted[s] = <<>>

(* Every step keeps the windows of the sessions. *)
LEMMA UploadStep ==
  ASSUME UploadInv, [TicketNext]_ticketVars
  PROVE  UploadInv'
  <1> USE DEF UploadInv
  <1>0. clock \in Nat /\ MaxClock \in Nat /\ clock <= MaxClock
    BY TicketNumbers
  <1>1. CASE UNCHANGED <<uploads, minted>> /\ clock' \in 0..MaxClock /\ clock <= clock'
    <2>1. \A s \in ChatSessions : uploads[s].start <= clock'
      BY <1>0, <1>1
    <2> QED BY <1>1, <2>1
  <1>2. CASE TicketTick
    <2>1. clock' \in 0..MaxClock /\ clock <= clock' /\ UNCHANGED <<uploads, minted>>
      BY <1>0, <1>2 DEF TicketTick
    <2> QED BY <1>1, <2>1
  <1>3. ASSUME NEW s \in ChatSessions, NEW op \in Ops, NEW ref, ChatIssue(s, op, ref)
        PROVE  UploadInv'
    <2>1. CASE op # "upload"
      <3>1. UNCHANGED <<uploads, minted, clock>>
        BY <1>3, <2>1 DEF ChatIssue
      <3> QED BY <1>0, <1>1, <3>1
    <2>2. CASE op = "upload"
      <3> DEFINE v == Window(s)
                 M == minted[s]
      <3>1. /\ UNCHANGED clock /\ ~OverCap(s)
            /\ uploads' = [uploads EXCEPT ![s] = [v EXCEPT !.count = @ + 1]]
            /\ \/ minted' = [minted EXCEPT ![s] = Append(M, clock)]
               \/ UNCHANGED minted
        BY <1>3, <2>2 DEF ChatIssue
      <3>2. /\ uploads[s] \in [count : Nat, start : Nat] /\ uploads[s].start <= clock
            /\ WindowInv(M, uploads[s].count, uploads[s].start)
            /\ uploads[s].count = 0 => M = <<>>
        OBVIOUS
      <3>3. /\ v \in [count : Nat, start : Nat] /\ v.start <= clock
            /\ WindowInv(M, v.count, v.start)
            /\ clock < v.start + WindowMs /\ (v.count = 0 => v.start = clock)
        <4>1. CASE uploads[s].count = 0 \/ clock - uploads[s].start >= WindowMs
          <5>1. v = [count |-> 0, start |-> clock]
            BY <4>1 DEF Window
          <5>2. M = <<>> \/ uploads[s].start + WindowMs <= clock
            BY <1>0, <3>2, <4>1, TicketNumbers
          <5>3. WindowInv(M, 0, clock)
            BY <1>0, <3>2, <5>2, WindowOpens
          <5>4. clock < clock + WindowMs
            BY <1>0, TicketNumbers
          <5> QED BY <1>0, <5>1, <5>3, <5>4
        <4>2. CASE ~(uploads[s].count = 0 \/ clock - uploads[s].start >= WindowMs)
          <5>1. v = uploads[s]
            BY <4>2 DEF Window
          <5>2. clock < uploads[s].start + WindowMs /\ uploads[s].count # 0
            BY <1>0, <3>2, <4>2, TicketNumbers
          <5> QED BY <3>2, <5>1, <5>2
        <4> QED BY <4>1, <4>2
      <3>4. v.count < UploadCap
        BY <3>1, <3>3, TicketNumbers DEF OverCap
      <3> HIDE DEF v
      <3>5. WindowInv(M, v.count + 1, v.start) /\ WindowInv(Append(M, clock), v.count + 1, v.start)
        BY <1>0, <3>3, <3>4, WindowCounts
      <3> DEFINE u == [v EXCEPT !.count = @ + 1]
      <3>6. u \in [count : Nat, start : Nat] /\ u.count = v.count + 1 /\ u.start = v.start
            /\ u.count # 0
        BY <3>3
      <3> HIDE DEF u
      <3>7. /\ uploads' \in [ChatSessions -> [count : Nat, start : Nat]]
            /\ uploads'[s] = u /\ \A o \in ChatSessions \ {s} : uploads'[o] = uploads[o]
        BY <3>1, <3>6 DEF u
      <3>8. /\ minted' = [o \in ChatSessions |-> minted'[o]]
            /\ minted'[s] \in {M, Append(M, clock)}
            /\ \A o \in ChatSessions \ {s} : minted'[o] = minted[o]
        BY <3>1
      <3>9. WindowInv(minted'[s], uploads'[s].count, uploads'[s].start)
        BY <3>5, <3>6, <3>7, <3>8
      <3>10. \A o \in ChatSessions :
              /\ WindowInv(minted'[o], uploads'[o].count, uploads'[o].start)
              /\ uploads'[o].start <= clock
              /\ uploads'[o].count = 0 => minted'[o] = <<>>
        BY <3>3, <3>6, <3>7, <3>8, <3>9
      <3>11. clock' \in 0..MaxClock /\ clock' = clock
        BY <3>1
      <3>12. \A o \in ChatSessions :
               WindowInv(minted[o], uploads[o].count, uploads[o].start)'
        BY <3>10 DEF WindowInv, Uploads, Between
      <3> QED BY <3>7, <3>8, <3>10, <3>11, <3>12
    <2> QED BY <2>1, <2>2
  <1>4. CASE UNCHANGED <<clock, uploads, minted>>
    BY <1>0, <1>1, <1>4
  <1>5. CASE RemoteNext \/ UNCHANGED ticketVars
             \/ \E n \in 1..MaxIssued, op \in Ops, ref \in Refs \cup {NoRef} :
                  ChatVerify(n, op, ref)
    BY <1>2, <1>4, <1>5 DEF RemoteNext, RemoteIssue, RemoteCleanup, RemoteAuth,
       RemoteDisconnect, ChatVerify, ticketVars, chatVars
  <1> QED BY <1>2, <1>3, <1>5 DEF TicketNext, ChatNext

(* The store of chat tickets: a number is one ticket, a ticket in the      *)
(* store has not been redeemed, and one that is gone while it is alive     *)
(* has.                                                                    *)
TicketType == [id : 1..MaxIssued, op : Ops, ref : Refs \cup {NoRef},
               exp : 0..(MaxClock + Ttl)]
StoreInv ==
  /\ clock \in 0..MaxClock /\ issued \in 0..MaxIssued
  /\ tickets \subseteq TicketType /\ alive \subseteq TicketType
  /\ IsFiniteSet(tickets) /\ Cardinality(tickets) <= MaxTickets
  /\ redeemed \in [1..MaxIssued -> Nat]
  /\ \A n \in 1..MaxIssued : redeemed[n] <= 1 /\ (n > issued => redeemed[n] = 0)
  /\ \A t \in tickets \cup alive : t.id <= issued
  /\ \A t, u \in tickets \cup alive : t.id = u.id => t = u
  /\ \A t \in tickets : redeemed[t.id] = 0
  /\ \A t \in alive : clock <= t.exp /\ (t \notin tickets => redeemed[t.id] = 1)

(* Sweeping drops no ticket that is alive. *)
LEMMA SweepKeeps ==
  ASSUME StoreInv
  PROVE  /\ Swept \subseteq tickets /\ IsFiniteSet(Swept)
         /\ Cardinality(Swept) <= MaxTickets /\ Cardinality(Swept) \in Nat
         /\ \A t \in alive : t \in tickets => t \in Swept
  <1>1. Swept \in SUBSET tickets /\ \A t \in alive : t \in tickets => t \in Swept
    BY DEF Swept, StoreInv
  <1>2. IsFiniteSet(Swept) /\ Cardinality(Swept) <= Cardinality(tickets)
        /\ Cardinality(tickets) \in Nat /\ Cardinality(tickets) <= MaxTickets
    BY <1>1, FS_Subset, FS_CardinalityType DEF StoreInv
  <1>3. Cardinality(Swept) \in Nat
    BY <1>2, FS_CardinalityType
  <1> QED BY <1>1, <1>2, <1>3, TicketNumbers

(* Every step keeps the ticket store: its size, and the tickets that are   *)
(* still alive.                                                            *)
LEMMA StoreStep ==
  ASSUME StoreInv, [TicketNext]_ticketVars
  PROVE  StoreInv'
  <1>0. /\ clock \in Nat /\ clock <= MaxClock /\ issued \in Nat /\ MaxIssued \in Nat
        /\ MaxClock \in Nat /\ Ttl \in Nat /\ MaxTickets \in Nat
    BY TicketNumbers DEF StoreInv
  <1>1. CASE UNCHANGED <<clock, chatVars>> /\ issued' \in {issued, issued + 1}
             /\ issued' <= MaxIssued
    <2>1. issued' \in 0..MaxIssued /\ issued <= issued'
      BY <1>0, <1>1
    <2>2. \A n \in 1..MaxIssued : n > issued' => redeemed[n] = 0
      BY <1>0, <1>1, <2>1 DEF StoreInv
    <2>3. \A t \in tickets \cup alive : t.id <= issued'
      BY <1>0, <1>1, <2>1 DEF StoreInv, TicketType
    <2> QED BY <1>1, <2>1, <2>2, <2>3 DEF StoreInv, chatVars
  <1>2. CASE TicketTick
    <2>1. /\ clock' = clock + 1 /\ clock < MaxClock
          /\ alive' = {t \in alive : clock < t.exp}
          /\ UNCHANGED <<tickets, redeemed, issued>>
      BY <1>2 DEF TicketTick
    <2>2. \A t \in alive' : t \in alive /\ clock' <= t.exp
      BY <1>0, <2>1 DEF StoreInv, TicketType
    <2>3. clock' \in 0..MaxClock
      BY <1>0, <2>1
    <2> QED BY <2>1, <2>2, <2>3 DEF StoreInv
  <1>3. ASSUME NEW s \in ChatSessions, NEW op \in Ops, NEW ref \in Refs \cup {NoRef},
               ChatIssue(s, op, ref)
        PROVE  StoreInv'
    <2>1. /\ Room \subseteq tickets /\ IsFiniteSet(Room) /\ Cardinality(Room) \in Nat
          /\ Cardinality(Room) <= MaxTickets
          /\ \A t \in alive : t \in tickets => t \in Room
      <3>1. CASE Room = Swept
        BY <3>1, SweepKeeps
      <3>2. CASE Room = tickets
        BY <3>2, FS_CardinalityType DEF StoreInv
      <3> QED BY <3>1, <3>2 DEF Room
    <2> DEFINE x == [id |-> issued + 1, op |-> op, ref |-> ref, exp |-> clock + Ttl]
    <2>2. UNCHANGED <<clock, redeemed>> /\ issued < MaxIssued
      BY <1>3 DEF ChatIssue
    <2>3. CASE Cardinality(Room) < MaxTickets /\ issued' = issued + 1
               /\ tickets' = Room \cup {x} /\ alive' = alive \cup {x}
      <3>1. x \in TicketType /\ x.id = issued + 1 /\ x.exp = clock + Ttl
        BY <1>0, <2>2 DEF TicketType
      <3> HIDE DEF x
      <3>2. \A t \in tickets \cup alive : t \in TicketType /\ t.id <= issued /\ t.id \in Nat
        BY <1>0 DEF StoreInv, TicketType
      <3>3. x \notin tickets \cup alive /\ \A t \in tickets \cup alive : t.id # x.id
        BY <1>0, <3>1, <3>2
      <3>4. tickets' \subseteq TicketType /\ alive' \subseteq TicketType
            /\ issued' \in 0..MaxIssued
        BY <1>0, <2>1, <2>2, <2>3, <3>1, <3>2
      <3>5. IsFiniteSet(tickets') /\ Cardinality(tickets') <= MaxTickets
        <4>1. IsFiniteSet(Room \cup {x})
              /\ Cardinality(Room \cup {x}) \in {Cardinality(Room), Cardinality(Room) + 1}
          BY <2>1, FS_AddElement
        <4> QED BY <1>0, <2>1, <2>3, <4>1
      <3>6. \A n \in 1..MaxIssued : n > issued' => redeemed[n] = 0
        BY <1>0, <2>3 DEF StoreInv
      <3>7. \A t \in tickets' \cup alive' : t = x \/ t \in tickets \cup alive
        BY <2>1, <2>3
      <3>8. \A t \in tickets' \cup alive' : t.id <= issued'
        BY <1>0, <2>3, <3>1, <3>2, <3>7
      <3>9. \A t, u \in tickets' \cup alive' : t.id = u.id => t = u
        BY <3>3, <3>7 DEF StoreInv
      <3>10. redeemed[x.id] = 0
        BY <1>0, <2>2, <3>1 DEF StoreInv
      <3>11. \A t \in tickets' : redeemed[t.id] = 0
        BY <2>1, <2>3, <3>10 DEF StoreInv
      <3>12. \A t \in alive' : clock <= t.exp /\ (t \notin tickets' => redeemed[t.id] = 1)
        <4>1. clock <= x.exp /\ x \in tickets'
          BY <1>0, <2>3, <3>1
        <4>2. \A t \in alive : clock <= t.exp /\ (t \notin tickets' => redeemed[t.id] = 1)
          BY <2>1, <2>3 DEF StoreInv
        <4> QED BY <2>3, <4>1, <4>2
      <3> QED BY <2>2, <3>4, <3>5, <3>6, <3>8, <3>9, <3>11, <3>12 DEF StoreInv
    <2>4. CASE tickets' = Room /\ UNCHANGED <<issued, alive>>
      <3>1. tickets' \subseteq tickets
        BY <2>1, <2>4
      <3>2. \A t \in alive' : clock <= t.exp /\ (t \notin tickets' => redeemed[t.id] = 1)
        BY <2>1, <2>4 DEF StoreInv
      <3>3. \A t \in tickets' \cup alive' : t \in tickets \cup alive
        BY <2>4, <3>1
      <3>4. IsFiniteSet(tickets') /\ Cardinality(tickets') <= MaxTickets
        BY <2>1, <2>4
      <3> QED BY <2>2, <2>4, <3>1, <3>2, <3>3, <3>4 DEF StoreInv
    <2> QED BY <1>3, <2>3, <2>4 DEF ChatIssue
  <1>4. ASSUME NEW n \in 1..MaxIssued, NEW op \in Ops, NEW ref \in Refs \cup {NoRef},
               ChatVerify(n, op, ref)
        PROVE  StoreInv'
    <2> DEFINE live == {t \in Swept : t.id = n}
               used == UNION {Consumed(t, op, ref) : t \in live}
               valid == {t \in used : t.op = op /\ (op = "download" => t.ref = ref)}
    <2>1. /\ tickets' = Swept \ used /\ UNCHANGED <<clock, alive, issued>>
          /\ redeemed' = [redeemed EXCEPT ![n] = @ + Cardinality(valid)]
      BY <1>4 DEF ChatVerify
    <2>2. used \subseteq live /\ valid = used
      BY DEF Consumed
    <2>3. \A t \in live : t \in tickets /\ t.id = n
      BY SweepKeeps
    <2>4. \A t, u \in live : t = u
      BY <2>3 DEF StoreInv
    <2> HIDE DEF live, used, valid
    <2>5. tickets' \subseteq tickets /\ IsFiniteSet(tickets')
          /\ Cardinality(tickets') <= MaxTickets
      <3>1. Swept \ used \in SUBSET Swept
        OBVIOUS
      <3>2. IsFiniteSet(Swept \ used) /\ Cardinality(Swept \ used) <= Cardinality(Swept)
        BY <3>1, SweepKeeps, FS_Subset
      <3>3. Cardinality(Swept \ used) \in Nat
        BY <3>2, FS_CardinalityType
      <3> QED BY <1>0, <2>1, <3>2, <3>3, SweepKeeps
    <2>6. CASE used = {}
      <3>1. UNCHANGED redeemed
        <4>1. Cardinality(valid) = 0
          BY <2>2, <2>6, FS_EmptySet
        <4>2. redeemed[n] + 0 = redeemed[n]
          BY DEF StoreInv
        <4> QED BY <2>1, <4>1, <4>2 DEF StoreInv
      <3>2. \A t \in alive : t \notin tickets' => t \notin tickets
        BY <2>1, <2>6, SweepKeeps
      <3>3. \A t \in alive' : clock <= t.exp /\ (t \notin tickets' => redeemed'[t.id] = 1)
        BY <2>1, <3>1, <3>2 DEF StoreInv
      <3> QED BY <2>1, <2>5, <3>1, <3>3 DEF StoreInv
    <2>7. ASSUME used # {} PROVE StoreInv'
      <3>1. PICK x : x \in used
        BY <2>7
      <3>2. used = {x} /\ x \in tickets /\ x.id = n /\ x \in live
        BY <2>2, <2>3, <2>4, <3>1
      <3>3. Cardinality(valid) = 1
        BY <2>2, <3>2, FS_Singleton
      <3>4. redeemed[n] = 0
        BY <3>2 DEF StoreInv
      <3>5. /\ redeemed' \in [1..MaxIssued -> Nat] /\ redeemed'[n] = 1
            /\ \A m \in (1..MaxIssued) \ {n} : redeemed'[m] = redeemed[m]
        BY <2>1, <3>3, <3>4 DEF StoreInv
      <3>6. n <= issued
        BY <3>2 DEF StoreInv
      <3>7. \A t \in tickets \cup alive : t.id \in 1..MaxIssued /\ (t.id = n => t = x)
        BY <3>2 DEF StoreInv, TicketType
      <3>8. \A t \in tickets' : redeemed'[t.id] = 0
        <4>1. \A t \in tickets' : t \in tickets /\ t # x
          BY <2>1, <2>5, <3>2
        <4> QED BY <3>5, <3>7, <4>1 DEF StoreInv
      <3>9. \A t \in alive : t \notin tickets' => redeemed'[t.id] = 1
        <4>1. \A t \in alive : t \in tickets => t \in Swept
          BY SweepKeeps
        <4>2. \A t \in alive : t \notin tickets' => t \notin tickets \/ t = x
          BY <2>1, <3>2, <4>1
        <4> QED BY <3>2, <3>5, <3>7, <4>2 DEF StoreInv
      <3>10. \A m \in 1..MaxIssued : redeemed'[m] <= 1 /\ (m > issued => redeemed'[m] = 0)
        BY <1>0, <3>5, <3>6 DEF StoreInv
      <3> QED BY <2>1, <2>5, <3>5, <3>8, <3>9, <3>10 DEF StoreInv
    <2> QED BY <2>6, <2>7
  <1>5. CASE RemoteNext \/ UNCHANGED ticketVars
    <2>1. ASSUME NEW r, NEW role, RemoteIssue(r, role) PROVE StoreInv'
      <3>1. issued' = issued + 1 /\ issued < MaxIssued /\ UNCHANGED <<clock, chatVars>>
        BY <2>1 DEF RemoteIssue
      <3>2. issued' <= MaxIssued
        BY <1>0, <3>1
      <3> QED BY <1>1, <3>1, <3>2
    <2>2. CASE UNCHANGED <<clock, chatVars, issued>>
      BY <1>0, <1>1, <2>2 DEF StoreInv
    <2> QED BY <1>2, <1>5, <2>1, <2>2 DEF RemoteNext, RemoteCleanup, RemoteAuth,
               RemoteDisconnect, ticketVars, chatVars
  <1> QED BY <1>2, <1>3, <1>4, <1>5 DEF TicketNext, ChatNext

(* The /remote namespace: a viewer that sits in a session is listed there, *)
(* and a session that is not muddled names a socket exactly when the       *)
(* socket sits in it.                                                      *)
SessionType == [agent : RemoteSockets \cup {NoAgent}, viewers : SUBSET RemoteSockets]
Agrees(r, k) ==
  /\ sessions[r].agent = k <=> seats[k] = <<r, "agent">>
  /\ k \in sessions[r].viewers <=> seats[k] = <<r, "viewer">>
SeatInv ==
  /\ sessions \in [RemoteSessions -> SessionType]
  /\ seats \in [RemoteSockets -> {NoSeat} \cup (RemoteSessions \X Roles)]
  /\ muddled \subseteq RemoteSessions
  /\ \A p \in passes : p.session \in RemoteSessions /\ p.role \in Roles
  /\ \A r \in RemoteSessions, k \in RemoteSockets :
       /\ seats[k] = <<r, "viewer">> => k \in sessions[r].viewers
       /\ r \notin muddled => Agrees(r, k)

(* A socket that leaves the seat it was given last leaves the others as    *)
(* they are.                                                               *)
LEMMA LeavingKeeps ==
  ASSUME SeatInv, NEW k \in RemoteSockets, Leaves(k), UNCHANGED muddled,
         passes' \subseteq passes
  PROVE  SeatInv'
  <1>1. CASE seats[k] = NoSeat
    BY <1>1 DEF Leaves, SeatInv, Agrees
  <1>2. CASE seats[k] # NoSeat
    <2>1. PICK r \in RemoteSessions, role \in Roles : seats[k] = <<r, role>>
      BY <1>2 DEF SeatInv
    <2>2. seats[k][1] = r /\ seats[k][2] = role
      BY <2>1
    <2> DEFINE y == Left(sessions[r], k, role)
    <2>3. /\ sessions' = [sessions EXCEPT ![r] = y]
          /\ seats' = [seats EXCEPT ![k] = NoSeat]
      BY <1>2, <2>2 DEF Leaves
    <2>4. /\ y \in SessionType
          /\ role = "agent" => y.agent = NoAgent /\ y.viewers = sessions[r].viewers
          /\ role # "agent" => /\ y.agent = sessions[r].agent
                               /\ y.viewers = sessions[r].viewers \ {k}
      BY DEF Left, SeatInv, SessionType
    <2>5. "agent" \in Roles /\ "viewer" \in Roles /\ (role = "agent" \/ role = "viewer")
          /\ (\A q, o : NoSeat # <<q, o>>)
          /\ \A q \in RemoteSessions, o \in Roles : seats[k] = <<q, o>> <=> q = r /\ o = role
      BY <2>1 DEF Roles, NoSeat
    <2> HIDE DEF y
    <2>6. /\ seats' \in [RemoteSockets -> {NoSeat} \cup (RemoteSessions \X Roles)]
          /\ seats'[k] = NoSeat /\ \A j \in RemoteSockets \ {k} : seats'[j] = seats[j]
      BY <2>3 DEF SeatInv
    <2>7. /\ sessions' \in [RemoteSessions -> SessionType]
          /\ sessions'[r] = y /\ \A q \in RemoteSessions \ {r} : sessions'[q] = sessions[q]
      BY <2>3, <2>4 DEF SeatInv
    <2>8. ASSUME NEW q \in RemoteSessions, NEW j \in RemoteSockets
          PROVE  /\ seats'[j] = <<q, "viewer">> => j \in sessions'[q].viewers
                 /\ q \notin muddled' => Agrees(q, j)'
      <3>0. /\ seats[j] = <<q, "viewer">> => j \in sessions[q].viewers
            /\ q \notin muddled => /\ sessions[q].agent = j <=> seats[j] = <<q, "agent">>
                                   /\ j \in sessions[q].viewers <=> seats[j] = <<q, "viewer">>
            /\ q \notin muddled => /\ sessions[q].agent = k <=> seats[k] = <<q, "agent">>
                                   /\ k \in sessions[q].viewers <=> seats[k] = <<q, "viewer">>
            /\ j # NoAgent /\ muddled' = muddled
        BY TicketAssumption DEF SeatInv, Agrees
      <3>1. CASE j = k
        BY <2>4, <2>5, <2>6, <2>7, <3>0, <3>1 DEF Agrees
      <3>2. CASE j # k /\ q # r
        BY <2>6, <2>7, <3>0, <3>2 DEF Agrees
      <3>3. CASE j # k /\ q = r
        BY <2>4, <2>5, <2>6, <2>7, <3>0, <3>3 DEF Agrees
      <3> QED BY <3>1, <3>2, <3>3
    <2> QED BY <2>6, <2>7, <2>8 DEF SeatInv
  <1> QED BY <1>1, <1>2

(* A socket that takes a seat muddles the session whose agent it replaces  *)
(* and the one in which it had another seat, and no other.                 *)
LEMMA SeatingKeeps ==
  ASSUME SeatInv, NEW k \in RemoteSockets, NEW r \in RemoteSessions, NEW role \in Roles,
         seats' = [seats EXCEPT ![k] = <<r, role>>],
         sessions' = [sessions EXCEPT ![r] = Seated(@, k, role)],
         muddled' = muddled \cup Overwrites(k, r, role),
         passes' \subseteq passes
  PROVE  SeatInv'
  <1> DEFINE y == Seated(sessions[r], k, role)
             z == <<r, role>>
  <1>1. seats' = [seats EXCEPT ![k] = z] /\ sessions' = [sessions EXCEPT ![r] = y]
    BY DEF SeatInv
  <1>2. /\ y \in SessionType
        /\ role = "agent" => y.agent = k /\ y.viewers = sessions[r].viewers
        /\ role # "agent" => /\ y.agent = sessions[r].agent
                             /\ y.viewers = sessions[r].viewers \cup {k}
    BY DEF Seated, SeatInv, SessionType
  <1>3. /\ z \in RemoteSessions \X Roles
        /\ \A q \in RemoteSessions, o \in Roles : z = <<q, o>> <=> q = r /\ o = role
    OBVIOUS
  <1>4. "agent" \in Roles /\ "viewer" \in Roles /\ "agent" # "viewer"
        /\ (role = "agent" \/ role = "viewer")
    BY DEF Roles
  <1>5. /\ muddled' \subseteq RemoteSessions /\ muddled \subseteq muddled'
        /\ role = "agent" /\ r \notin muddled' => sessions[r].agent \in {NoAgent, k}
    BY DEF SeatInv, Overwrites
  <1>6. \A q \in RemoteSessions, o \in Roles :
          q \notin muddled' /\ seats[k] = <<q, o>> => q = r /\ o = role
    <2> SUFFICES ASSUME NEW q \in RemoteSessions, NEW o \in Roles, q \notin muddled',
                        seats[k] = <<q, o>>
                 PROVE  q = r /\ o = role
      OBVIOUS
    <2>1. seats[k] # NoSeat /\ seats[k][1] = q
      BY DEF NoSeat
    <2>2. seats[k] = <<r, role>>
      BY <2>1 DEF Overwrites
    <2> QED BY <2>2
  <1> HIDE DEF y, z
  <1>7. /\ seats' \in [RemoteSockets -> {NoSeat} \cup (RemoteSessions \X Roles)]
        /\ seats'[k] = z /\ \A j \in RemoteSockets \ {k} : seats'[j] = seats[j]
    BY <1>1, <1>3 DEF SeatInv
  <1>8. /\ sessions' \in [RemoteSessions -> SessionType]
        /\ sessions'[r] = y /\ \A q \in RemoteSessions \ {r} : sessions'[q] = sessions[q]
    BY <1>1, <1>2 DEF SeatInv
  <1>9. ASSUME NEW q \in RemoteSessions, NEW j \in RemoteSockets
        PROVE  /\ seats'[j] = <<q, "viewer">> => j \in sessions'[q].viewers
               /\ q \notin muddled' => Agrees(q, j)'
    <2>0. /\ seats[j] = <<q, "viewer">> => j \in sessions[q].viewers
          /\ q \notin muddled' => /\ sessions[q].agent = j <=> seats[j] = <<q, "agent">>
                                  /\ j \in sessions[q].viewers <=> seats[j] = <<q, "viewer">>
          /\ j # NoAgent
      BY <1>5, TicketAssumption DEF SeatInv, Agrees
    <2>1. CASE j = k
      BY <1>2, <1>3, <1>4, <1>5, <1>6, <1>7, <1>8, <2>0, <2>1 DEF Agrees
    <2>2. CASE j # k /\ q # r
      BY <1>7, <1>8, <2>0, <2>2 DEF Agrees
    <2>3. CASE j # k /\ q = r
      BY <1>2, <1>4, <1>5, <1>7, <1>8, <2>0, <2>3 DEF Agrees
    <2> QED BY <2>1, <2>2, <2>3
  <1> QED BY <1>5, <1>7, <1>8, <1>9 DEF SeatInv

(* Every step keeps seats and sessions in agreement. *)
LEMMA SeatStep ==
  ASSUME SeatInv, [TicketNext]_ticketVars
  PROVE  SeatInv'
  <1>1. CASE UNCHANGED remoteVars
    BY <1>1 DEF SeatInv, Agrees, remoteVars
  <1>2. ASSUME NEW r \in RemoteSessions, NEW role \in Roles, RemoteIssue(r, role)
        PROVE  SeatInv'
    <2> DEFINE x == [id |-> issued + 1, session |-> r, role |-> role, exp |-> clock + Ttl]
    <2>1. x.session = r /\ x.role = role
      OBVIOUS
    <2>2. passes' = passes \cup {x} /\ UNCHANGED <<sessions, seats, muddled>>
      BY <1>2 DEF RemoteIssue
    <2> HIDE DEF x
    <2> QED BY <2>1, <2>2 DEF SeatInv, Agrees
  <1>3. ASSUME NEW p \in passes, RemoteCleanup(p) PROVE SeatInv'
    BY <1>3 DEF RemoteCleanup, SeatInv, Agrees
  <1>4. ASSUME NEW p \in passes, NEW k \in RemoteSockets, NEW role \in Roles,
               RemoteAuth(k, p, role)
        PROVE  SeatInv'
    <2>1. passes' \subseteq passes /\ p.session \in RemoteSessions
      BY <1>4 DEF RemoteAuth, SeatInv
    <2>2. CASE role # p.role
      BY <1>4, <2>1, <2>2, LeavingKeeps DEF RemoteAuth
    <2>3. CASE role = p.role
      BY <1>4, <2>1, <2>3, SeatingKeeps DEF RemoteAuth
    <2> QED BY <2>2, <2>3
  <1>5. ASSUME NEW k \in RemoteSockets, RemoteDisconnect(k) PROVE SeatInv'
    BY <1>5, LeavingKeeps DEF RemoteDisconnect
  <1>6. CASE ChatNext \/ TicketTick \/ UNCHANGED ticketVars
    BY <1>1, <1>6 DEF ChatNext, TicketTick, ChatIssue, ChatVerify, ticketVars, remoteVars
  <1> QED BY <1>2, <1>3, <1>4, <1>5, <1>6 DEF TicketNext, RemoteNext

(* The chat tickets, at first and at any time. *)
LEMMA ChatInit == TicketInit => UploadInv /\ StoreInv
  <1> SUFFICES ASSUME TicketInit PROVE UploadInv /\ StoreInv
    OBVIOUS
  <1>1. clock \in 0..MaxClock /\ issued \in 0..MaxIssued
    BY TicketNumbers DEF TicketInit
  <1>2. UploadInv
    <2>1. WindowInv(<<>>, 0, 0)
      <3>1. \A a, b : Between(<<>>, a, b) = {}
        BY DEF Between
      <3>2. \A a, b : Uploads(<<>>, a, b) = 0
        BY <3>1, FS_EmptySet DEF Uploads
      <3>3. <<>> \in Seq(Nat) /\ DOMAIN <<>> = {} /\ 0 \in 0..UploadCap
            /\ 0 <= UploadCap - 1 /\ 0 <= 2 * UploadCap - 1
        BY TicketNumbers
      <3> QED BY <3>2, <3>3 DEF WindowInv
    <2>2. \A s \in ChatSessions : minted[s] = <<>> /\ uploads[s].count = 0
                                  /\ uploads[s].start = 0
      BY DEF TicketInit
    <2>3. uploads \in [ChatSessions -> [count : Nat, start : Nat]]
          /\ minted = [s \in ChatSessions |-> minted[s]] /\ clock = 0
      BY DEF TicketInit
    <2> QED BY <1>1, <2>1, <2>2, <2>3 DEF UploadInv
  <1>3. StoreInv
    <2>1. IsFiniteSet({}) /\ Cardinality({}) = 0 /\ 0 <= MaxTickets
      BY FS_EmptySet, TicketNumbers
    <2> QED BY <1>1, <2>1 DEF TicketInit, StoreInv
  <1> QED BY <1>2, <1>3

(* The invariants of windows and store give the two promises. *)
LEMMA ChatSound == UploadInv /\ StoreInv => UploadsPerWindow /\ BurntOnlyByRedemption
  <1> SUFFICES ASSUME UploadInv, StoreInv PROVE UploadsPerWindow /\ BurntOnlyByRedemption
    OBVIOUS
  <1>2. UploadsPerWindow
    <2>1. ASSUME NEW s \in ChatSessions, NEW t \in 0..MaxClock
          PROVE  Cardinality({n \in DOMAIN minted[s] :
                   minted[s][n] >= t /\ minted[s][n] < t + WindowMs}) <= 2 * UploadCap - 1
      <3>1. t \in Nat /\ minted[s] \in Seq(Nat)
            /\ Uploads(minted[s], t, t + WindowMs) <= 2 * UploadCap - 1
        BY TicketNumbers DEF UploadInv, WindowInv
      <3>2. \A n \in DOMAIN minted[s] : minted[s][n] \in Nat
        BY <3>1
      <3>3. {n \in DOMAIN minted[s] : minted[s][n] >= t /\ minted[s][n] < t + WindowMs}
              = Between(minted[s], t, t + WindowMs)
        BY <3>1, <3>2 DEF Between
      <3> QED BY <3>1, <3>3 DEF Uploads
    <2> QED BY <2>1 DEF UploadsPerWindow
  <1>3. BurntOnlyByRedemption
    BY TicketNumbers DEF StoreInv, TicketType, BurntOnlyByRedemption
  <1> QED BY <1>2, <1>3

(* ChatTicketStore.issue, verify and _sweep: an upload cap of c lets 2c - 1 *)
(* uploads into any interval of a window's length and no more, and a ticket *)
(* leaves the store before it expires only by its one redemption, whatever  *)
(* probes are made.                                                         *)
THEOREM ChatTicketsStaySound == TicketSpec => [](UploadsPerWindow /\ BurntOnlyByRedemption)
  <1>1. UploadInv /\ StoreInv /\ [TicketNext]_ticketVars => UploadInv' /\ StoreInv'
    BY UploadStep, StoreStep
  <1> QED BY <1>1, ChatInit, ChatSound, PTL DEF TicketSpec

TicketInv == UploadInv /\ StoreInv /\ SeatInv

(* ChatTicketStore and the /remote namespace: tickets stay within the      *)
(* store, uploads are capped, tickets are burnt once, a session lists      *)
(* every viewer that sits in it, and names exactly the sockets that sit in *)
(* it unless an agent was seated over another or a socket left it by an    *)
(* `auth' for another seat.                                                *)
THEOREM TicketsStaySound == TicketSpec => []TicketsAreSound
  <1>1. TicketInit => TicketInv
    <2> SUFFICES ASSUME TicketInit PROVE TicketInv
      OBVIOUS
    <2>1. SeatInv
      <3>1. NoSession \in SessionType /\ NoSession.agent = NoAgent /\ NoSession.viewers = {}
        BY DEF NoSession, SessionType
      <3>2. \A q, o : NoSeat # <<q, o>>
        BY DEF NoSeat
      <3>3. \A r \in RemoteSessions, k \in RemoteSockets :
              sessions[r] = NoSession /\ seats[k] = NoSeat /\ k # NoAgent
        BY TicketAssumption DEF TicketInit
      <3>4. /\ sessions \in [RemoteSessions -> SessionType]
            /\ seats \in [RemoteSockets -> {NoSeat} \cup (RemoteSessions \X Roles)]
            /\ passes = {} /\ muddled = {}
        BY <3>1 DEF TicketInit
      <3> QED BY <3>1, <3>2, <3>3, <3>4 DEF SeatInv, Agrees
    <2> QED BY <2>1, ChatInit DEF TicketInv
  <1>2. TicketInv /\ [TicketNext]_ticketVars => TicketInv'
    BY UploadStep, StoreStep, SeatStep DEF TicketInv
  <1>3. TicketInv => TicketsAreSound
    <2> SUFFICES ASSUME TicketInv PROVE TicketsAreSound
      OBVIOUS
    <2>1. TicketTypeOK
      BY DEF TicketInv, StoreInv, SeatInv, TicketType, SessionType, TicketTypeOK
    <2>2. SessionIsLive
      <3>1. ASSUME NEW r \in RemoteSessions PROVE Viewing(r) \subseteq sessions[r].viewers
        BY DEF TicketInv, SeatInv, Viewing
      <3>2. ASSUME NEW r \in RemoteSessions, r \notin muddled PROVE NamesTheConnected(r)
        <4>1. sessions[r].viewers \subseteq RemoteSockets
          BY DEF TicketInv, SeatInv, SessionType
        <4> QED BY <3>2, <4>1 DEF TicketInv, SeatInv, Agrees, NamesTheConnected, Viewing
      <3> QED BY <3>1, <3>2 DEF SessionIsLive
    <2> QED BY <2>1, <2>2, ChatSound DEF TicketInv, TicketsAreSound
  <1> QED BY <1>1, <1>2, <1>3, PTL DEF TicketSpec

-----------------------------------------------------------------------------
(* Prekeys.  A key that was made is of an earlier installation or has a    *)
(* number that its client has used; a new one is neither, and this is why  *)
(* no number comes twice.  The pool and its mirror hold keys of the        *)
(* identity they are filed under, so that an id says which key it is.      *)

Made(a, k) == k[1] < install[a] \/ (k[1] = install[a] /\ k[2] <= numbered[a])

(* A pool of the keys of one identity. *)
IsPool(q, key) ==
  /\ q \in Seq(OneTime) /\ Len(q) <= PoolMax
  /\ \A n \in DOMAIN q : q[n][1] = key
  /\ \A m, n \in DOMAIN q : q[m] = q[n] => m = n

PrekeyTypes ==
  /\ install \in [Accounts -> 1..MaxInstalls] /\ numbered \in [Accounts -> Nat]
  /\ identityKey \in [Accounts -> 0..MaxInstalls] /\ diskKey \in [Accounts -> 0..MaxInstalls]
  /\ pool \in [Accounts -> Seq(OneTime)] /\ diskPool \in [Accounts -> SUBSET OneTime]
  /\ access \in [Accounts -> Modes] /\ diskAccess \in [Accounts -> Modes]
  /\ handed \in [Accounts -> [OneTime -> Nat]] /\ writeErrors \in Nat
  /\ served = [a \in Accounts |-> served[a]]

(* What one account has made, holds and has handed out. *)
KeysOf(a) ==
  /\ IsPool(pool[a], identityKey[a])
  /\ \A k \in ToSet(pool[a]) \cup diskPool[a] : Made(a, k)
  /\ \A k \in diskPool[a] : k[1] = diskKey[a]
  /\ IsFiniteSet(diskPool[a]) /\ Cardinality(diskPool[a]) <= PoolMax
  /\ \A k \in OneTime : handed[a][k] > 0 => Made(a, k)

(* Until a write fails: what is in the pool was not handed out, and the    *)
(* mirror has it.                                                          *)
PoolIsFresh(a) ==
  /\ \A k \in ToSet(pool[a]) : handed[a][k] = 0
  /\ \A k \in OneTime : handed[a][k] <= 1
  /\ diskPool[a] = ToSet(pool[a])

KeysInv == \A a \in Accounts : KeysOf(a)

PrekeyInv ==
  /\ PrekeyTypes /\ KeysInv /\ BundleIsOfOneIdentity
  /\ writeErrors = 0 =>
       /\ \A a \in Accounts : PoolIsFresh(a)
       /\ diskKey = identityKey /\ diskAccess = access

(* A key is its identity and its id. *)
LEMMA KeyIsItsId ==
  ASSUME NEW k \in OneTime, NEW l \in OneTime, k[1] = l[1], k[2] = l[2]
  PROVE  k = l
  BY DEF OneTime

(* Identities and ids are numbers. *)
LEMMA KeyHasId ==
  ASSUME NEW k \in OneTime
  PROVE  k[1] \in Nat /\ k[2] \in Nat
  BY DEF OneTime

(* The numbers of the assumption, and the first identity. *)
LEMMA PrekeyNumbers ==
  PoolMax \in Nat /\ BatchMax \in Nat /\ MaxPrekeys \in Nat /\ MaxInstalls \in Nat
  /\ 1 \in 1..MaxInstalls /\ 0 \in 0..MaxInstalls
  BY PrekeyAssumption

(* The keys of a sequence without repetition are as many as it is long. *)
LEMMA KeysOfSequence ==
  ASSUME NEW q \in Seq(OneTime)
  PROVE  IsFiniteSet(ToSet(q)) /\ Cardinality(ToSet(q)) <= Len(q)
         /\ Cardinality(ToSet(q)) \in Nat
  <1>1. Len(q) \in Nat /\ DOMAIN q = 1..Len(q)
    OBVIOUS
  <1>2. IsFiniteSet(1..Len(q)) /\ Cardinality(1..Len(q)) = Len(q)
    <2>1. 1 \in Int /\ Len(q) \in Int
      BY <1>1
    <2> QED BY <1>1, <2>1, FS_Interval
  <1>3. q \in Surjection(1..Len(q), ToSet(q))
    BY <1>1 DEF Surjection, ToSet
  <1>4. IsFiniteSet(ToSet(q)) /\ Cardinality(ToSet(q)) <= Cardinality(1..Len(q))
    BY <1>2, <1>3, FS_Surjection
  <1> QED BY <1>2, <1>4, FS_CardinalityType

(* What allBundles reads is the table. *)
LEMMA ReadIsTheTable ==
  ASSUME NEW S \in SUBSET OneTime, IsFiniteSet(S), NEW q \in ById(S)
  PROVE  /\ q \in Seq(OneTime) /\ Len(q) = Cardinality(S) /\ ToSet(q) = S
         /\ \A m, n \in DOMAIN q : q[m] = q[n] => m = n
  <1> DEFINE c == Cardinality(S)
  <1>1. c \in Nat
    BY FS_CardinalityType
  <1>2. q \in [1..c -> S] /\ \A m, n \in 1..c : m < n => q[m][2] < q[n][2]
    BY DEF ById
  <1>3. IsFiniteSet(1..c) /\ Cardinality(1..c) = c
    <2>1. 1 \in Int /\ c \in Int
      BY <1>1
    <2> QED BY <1>1, <2>1, FS_Interval
  <1> HIDE DEF c
  <1>4. \A m, n \in 1..c : q[m] = q[n] => m = n
    <2>1. \A m \in 1..c : q[m][2] \in Nat
      BY <1>2 DEF OneTime
    <2> SUFFICES ASSUME NEW m \in 1..c, NEW n \in 1..c, q[m] = q[n], m # n PROVE FALSE
      OBVIOUS
    <2>2. m < n \/ n < m
      BY <1>1
    <2> QED BY <1>2, <2>1, <2>2
  <1>5. q \in Injection(1..c, S)
    BY <1>2, <1>4 DEF Injection, IsInjective
  <1>6. q \in Surjection(1..c, S)
    BY <1>3, <1>5, FS_Injection DEF c
  <1>7. ToSet(q) = S
    BY <1>2, <1>6 DEF Surjection, ToSet
  <1>8. q \in Seq(OneTime) /\ Len(q) = c /\ DOMAIN q = 1..c
    BY <1>1, <1>2
  <1> QED BY <1>4, <1>7, <1>8 DEF c

(* The first keys of a sequence. *)
LEMMA FirstKeys ==
  ASSUME NEW s \in Seq(OneTime), NEW g \in 0..Len(s)
  PROVE  /\ SubSeq(s, 1, g) \in Seq(OneTime) /\ Len(SubSeq(s, 1, g)) = g
         /\ \A i \in 1..g : SubSeq(s, 1, g)[i] = s[i]
  <1>1. Len(s) \in Nat /\ g \in Int /\ 1 \in Int /\ g \in Nat
    OBVIOUS
  <1>2. \A i \in 1..g : s[i] \in OneTime
    BY <1>1
  <1>3. /\ SubSeq(s, 1, g) \in Seq(OneTime)
        /\ Len(SubSeq(s, 1, g)) = IF 1 <= g THEN g - 1 + 1 ELSE 0
        /\ \A i \in 1..(g - 1 + 1) : SubSeq(s, 1, g)[i] = s[1 + i - 1]
    BY <1>1, <1>2, SubSeqProperties
  <1>4. g - 1 + 1 = g /\ (~(1 <= g) => g = 0) /\ \A i \in 1..g : 1 + i - 1 = i
    BY <1>1
  <1> QED BY <1>3, <1>4

(* Two sequences of keys, one behind the other. *)
LEMMA ConcatenatedKeys ==
  ASSUME NEW P \in Seq(OneTime), NEW B \in Seq(OneTime)
  PROVE  /\ P \o B \in Seq(OneTime) /\ Len(P \o B) = Len(P) + Len(B)
         /\ \A i \in 1..(Len(P) + Len(B)) :
              (P \o B)[i] = IF i <= Len(P) THEN P[i] ELSE B[i - Len(P)]
  BY ConcatProperties

(* The pool before a publication, the batch, and the two joined.           *)
OldKeys(P, key, N, R) ==
  /\ P \in Seq(OneTime)
  /\ \A i \in DOMAIN P : P[i] \in R /\ P[i][1] = key /\ P[i][2] <= N
  /\ \A i, j \in DOMAIN P : P[i] = P[j] => i = j

NewKeys(B, key, N, n) ==
  /\ B \in Seq(OneTime) /\ n = Len(B)
  /\ \A m \in 1..n : B[m] \in OneTime /\ B[m][1] = key /\ B[m][2] = N + m

AllKeys(q, l, key, top, N, R) ==
  /\ q \in Seq(OneTime) /\ Len(q) = l
  /\ \A i \in 1..l : q[i][1] = key /\ q[i][2] <= top /\ (q[i] \in R \/ q[i][2] > N)
  /\ \A i, j \in 1..l : q[i][2] = q[j][2] => i = j

(* A batch of new keys behind a pool of old ones repeats no id. *)
LEMMA JoinedKeys ==
  ASSUME NEW key, NEW N \in Nat, NEW n \in Nat, NEW R, NEW P, NEW B,
         OldKeys(P, key, N, R), NewKeys(B, key, N, n)
  PROVE  AllKeys(P \o B, Len(P) + n, key, N + n, N, R)
  <1> DEFINE all == P \o B
             L == Len(P)
  <1>6. /\ L \in Nat /\ DOMAIN P = 1..L
        /\ \A i \in 1..L : P[i] \in OneTime /\ P[i][1] = key /\ P[i][2] <= N
                           /\ P[i] \in R
        /\ \A i, j \in 1..L : P[i] = P[j] => i = j
    BY DEF OldKeys
  <1>7. /\ all \in Seq(OneTime) /\ Len(all) = L + n
        /\ (\A i \in 1..L : all[i] = P[i])
        /\ \A i \in (L + 1)..(L + n) : i - L \in 1..n /\ all[i] = B[i - L]
    <2>1. /\ P \o B \in Seq(OneTime) /\ Len(P \o B) = Len(P) + Len(B)
          /\ \A i \in 1..(Len(P) + Len(B)) :
               (P \o B)[i] = IF i <= Len(P) THEN P[i] ELSE B[i - Len(P)]
      BY ConcatenatedKeys, Zenon DEF OldKeys, NewKeys
    <2>2. \A i \in 1..L : i \in 1..(L + n) /\ i <= L
      BY <1>6
    <2>3. \A i \in (L + 1)..(L + n) : i \in 1..(L + n) /\ ~(i <= L) /\ i - L \in 1..n
      BY <1>6
    <2> QED BY <2>1, <2>2, <2>3 DEF NewKeys
  <1> HIDE DEF L, all
  <1>8. \A i \in 1..(L + n) :
          /\ all[i] \in OneTime /\ all[i][1] = key /\ all[i][2] <= N + n
          /\ i \in 1..L => all[i] \in R /\ all[i][2] <= N
          /\ i \notin 1..L => all[i][2] = N + (i - L) /\ i > L
    <2> TAKE i \in 1..(L + n)
    <2>1. CASE i \in 1..L
      <3>1. all[i] = P[i] /\ P[i] \in OneTime /\ P[i][1] = key /\ P[i][2] <= N
            /\ P[i] \in R
        BY <1>6, <1>7, <2>1
      <3>2. P[i][2] \in Nat
        BY <3>1, KeyHasId
      <3>3. \A x \in Nat : x <= N => x <= N + n
        OBVIOUS
      <3> QED BY <2>1, <3>1, <3>2, <3>3
    <2>2. CASE i \notin 1..L
      <3>1. i \in (L + 1)..(L + n) /\ i > L
        BY <1>6, <2>2
      <3>2. all[i] = B[i - L] /\ i - L \in 1..n
        BY <1>7, <3>1
      <3>3. all[i] \in OneTime /\ all[i][1] = key /\ all[i][2] = N + (i - L)
        BY <3>2 DEF NewKeys
      <3>4. N + (i - L) <= N + n
        BY <1>6, <3>2
      <3> QED BY <2>2, <3>1, <3>3, <3>4
    <2> QED BY <2>1, <2>2
  <1>9. \A i, j \in 1..(L + n) : all[i][2] = all[j][2] => i = j
    <2> SUFFICES ASSUME NEW i \in 1..(L + n), NEW j \in 1..(L + n), all[i][2] = all[j][2]
                 PROVE  i = j
      OBVIOUS
    <2>1. CASE i \in 1..L /\ j \in 1..L
      <3>1. all[i] = all[j]
        <4>1. all[i] \in OneTime /\ all[j] \in OneTime /\ all[i][1] = all[j][1]
          BY <1>8
        <4> QED BY <4>1, KeyIsItsId
      <3>2. P[i] = P[j]
        BY <1>7, <2>1, <3>1
      <3> QED BY <1>6, <2>1, <3>2
    <2>2. CASE i \notin 1..L /\ j \notin 1..L
      <3>1. N + (i - L) = N + (j - L)
        BY <1>8, <2>2
      <3> QED BY <1>6, <3>1
    <2>3. \A x \in 1..(L + n), y \in Nat : x > L /\ y <= N => y # N + (x - L)
      BY <1>6
    <2>4. all[i][2] \in Nat /\ all[j][2] \in Nat
      BY <1>8, KeyHasId
    <2>5. CASE i \in 1..L /\ j \notin 1..L
      <3>1. all[i][2] <= N /\ all[j][2] = N + (j - L) /\ j > L
        BY <1>8, <2>5
      <3> QED BY <2>3, <2>4, <3>1
    <2>6. CASE i \notin 1..L /\ j \in 1..L
      <3>1. all[j][2] <= N /\ all[i][2] = N + (i - L) /\ i > L
        BY <1>8, <2>6
      <3> QED BY <2>3, <2>4, <3>1
    <2> QED BY <2>1, <2>2, <2>5, <2>6
  <1>10. \A i \in 1..(L + n) : all[i] \in R \/ all[i][2] > N
    <2> TAKE i \in 1..(L + n)
    <2>1. CASE i \in 1..L
      BY <1>8, <2>1
    <2>2. CASE i \notin 1..L
      <3>1. all[i][2] = N + (i - L) /\ i > L
        BY <1>8, <2>2
      <3>2. N + (i - L) > N
        BY <1>6, <3>1
      <3> QED BY <3>1, <3>2
    <2> QED BY <2>1, <2>2
  <1>11. AllKeys(all, L + n, key, N + n, N, R)
    BY <1>7, <1>8, <1>9, <1>10 DEF AllKeys
  <1> QED BY <1>11 DEF L, all

(* A sequence without repeated ids is written whole. *)
LEMMA KeptKeys ==
  ASSUME NEW key, NEW h \in Nat, NEW kept \in Seq(OneTime), Len(kept) = h, h <= PoolMax,
         \A i \in 1..h : kept[i][1] = key,
         \A i, j \in 1..h : kept[i][2] = kept[j][2] => i = j
  PROVE  IsPool(kept, key) /\ LastById(kept) = ToSet(kept)
  <1>1. DOMAIN kept = 1..h
    OBVIOUS
  <1>2. IsPool(kept, key)
    BY <1>1 DEF IsPool
  <1>3. \A m, l \in 1..h : l > m => kept[l][2] # kept[m][2]
    OBVIOUS
  <1>4. {m \in DOMAIN kept : \A l \in DOMAIN kept : l > m => kept[l][2] # kept[m][2]}
            = DOMAIN kept
    BY <1>1, <1>3
  <1>5. LastById(kept) = ToSet(kept)
    BY <1>4 DEF LastById, ToSet
  <1> QED BY <1>2, <1>5

(* The pool that PREKEY_PUBLISH leaves. *)
Batch(a, n) == [m \in 1..n |-> <<install[a], numbered[a] + m>>]
Joined(a, n) == PoolFor(a, install[a]) \o Batch(a, n)
Kept(a, n) ==
  SubSeq(Joined(a, n), 1, IF Len(Joined(a, n)) < PoolMax THEN Len(Joined(a, n)) ELSE PoolMax)

(* A publication leaves the first PoolMax keys of the pool and the new     *)
(* ones, all of the one identity and none of them twice.                   *)
LEMMA PublishedPool ==
  ASSUME NEW a \in Accounts, PrekeyTypes, KeysInv, NEW n \in 0..BatchMax,
         numbered[a] + n <= MaxPrekeys
  PROVE  /\ IsPool(Kept(a, n), install[a])
         /\ \A k \in ToSet(Kept(a, n)) :
              /\ k[1] = install[a] /\ k[2] <= numbered[a] + n
              /\ k \in ToSet(pool[a]) \/ k[2] > numbered[a]
         /\ LastById(Kept(a, n)) = ToSet(Kept(a, n))
  <1> DEFINE key == install[a]
             N == numbered[a]
             P == PoolFor(a, key)
             B == Batch(a, n)
             L == Len(P)
  <1>1. key \in 1..MaxInstalls /\ N \in Nat /\ n \in Nat /\ N + n <= MaxPrekeys
        /\ PoolMax \in Nat /\ MaxPrekeys \in Nat /\ MaxInstalls \in Nat
    BY PrekeyNumbers DEF PrekeyTypes
  <1>2. /\ P \in Seq(OneTime)
        /\ (\A i \in DOMAIN P : P[i] \in ToSet(pool[a]) /\ P[i][1] = key /\ P[i][2] <= N)
        /\ (\A i, j \in DOMAIN P : P[i] = P[j] => i = j)
    <2>1. CASE identityKey[a] = key
      <3>1. P = pool[a]
        BY <2>1 DEF PoolFor
      <3>2. IsPool(pool[a], key) /\ \A k \in ToSet(pool[a]) : Made(a, k)
        BY <2>1 DEF KeysInv, KeysOf
      <3>3. \A i \in DOMAIN pool[a] : pool[a][i] \in ToSet(pool[a]) /\ pool[a][i][1] = key
        BY <3>2 DEF IsPool, ToSet
      <3>4. \A i \in DOMAIN pool[a] : pool[a][i][2] <= N
        BY <1>1, <3>2, <3>3 DEF Made
      <3> QED BY <3>1, <3>2, <3>3, <3>4 DEF IsPool
    <2>2. CASE identityKey[a] # key
      <3>1. P = <<>>
        BY <2>2 DEF PoolFor
      <3> QED BY <3>1
    <2> QED BY <2>1, <2>2
  <1>3. \A m \in 1..n : <<key, N + m>> \in OneTime /\ <<key, N + m>>[1] = key
                        /\ <<key, N + m>>[2] = N + m
    <2>1. \A m \in 1..n : N + m \in 1..MaxPrekeys
      BY <1>1
    <2> QED BY <1>1, <2>1 DEF OneTime
  <1>4. /\ B \in Seq(OneTime) /\ Len(B) = n
        /\ \A m \in 1..n : B[m] \in OneTime /\ B[m][1] = key /\ B[m][2] = N + m
    <2>1. \A m \in 1..n : B[m] = <<key, N + m>>
      BY DEF Batch
    <2>2. B \in [1..n -> OneTime]
      BY <1>3 DEF Batch
    <2> HIDE DEF B
    <2>3. B \in Seq(OneTime) /\ Len(B) = n
      BY <1>1, <2>2
    <2> QED BY <1>3, <2>1, <2>3
  <1> HIDE DEF P, B, key, N
  <1> DEFINE all == P \o B
             g == IF Len(all) < PoolMax THEN Len(all) ELSE PoolMax
  <1>5. /\ all \in Seq(OneTime) /\ Len(all) = L + n
        /\ \A i \in 1..(L + n) : /\ all[i][1] = key /\ all[i][2] <= N + n
                                 /\ all[i] \in ToSet(pool[a]) \/ all[i][2] > N
        /\ \A i, j \in 1..(L + n) : all[i][2] = all[j][2] => i = j
    <2>1. OldKeys(P, key, N, ToSet(pool[a])) /\ NewKeys(B, key, N, n)
      BY <1>2, <1>4 DEF OldKeys, NewKeys
    <2>2. AllKeys(all, L + n, key, N + n, N, ToSet(pool[a]))
      <3>1. AllKeys(P \o B, Len(P) + n, key, N + n, N, ToSet(pool[a]))
        BY <1>1, <2>1, JoinedKeys, Zenon
      <3> QED BY <3>1
    <2> QED BY <2>2 DEF AllKeys
  <1> HIDE DEF all
  <1>6. L \in Nat
    BY <1>2
  <1> HIDE DEF L
  <1>7. g \in 0..Len(all) /\ g <= PoolMax /\ g \in Nat /\ 1..g \subseteq 1..(L + n)
    BY <1>1, <1>5, <1>6
  <1> HIDE DEF g
  <1> DEFINE kept == SubSeq(all, 1, g)
  <1>8. /\ kept \in Seq(OneTime) /\ Len(kept) = g
        /\ \A i \in 1..g : kept[i] = all[i]
    BY <1>5, <1>7, FirstKeys
  <1>9. Kept(a, n) = kept
    BY DEF Kept, Joined, kept, g, all, P, B, key
  <1> HIDE DEF kept
  <1>10. \A i \in 1..g : /\ kept[i][1] = key /\ kept[i][2] <= N + n
                         /\ kept[i] \in ToSet(pool[a]) \/ kept[i][2] > N
    BY <1>5, <1>7, <1>8
  <1>11. \A i, j \in 1..g : kept[i][2] = kept[j][2] => i = j
    BY <1>5, <1>7, <1>8
  <1>12. IsPool(kept, key) /\ LastById(kept) = ToSet(kept)
    <2>1. \A i \in 1..g : kept[i][1] = key
      BY <1>10
    <2> QED BY <1>7, <1>8, <1>11, <2>1, KeptKeys, ZenonT(30)
  <1>13. \A k \in ToSet(kept) : \E i \in 1..g : k = kept[i]
    BY <1>8 DEF ToSet
  <1>14. \A k \in ToSet(kept) :
           /\ k[1] = key /\ k[2] <= N + n
           /\ k \in ToSet(pool[a]) \/ k[2] > N
    BY <1>10, <1>13
  <1> QED BY <1>9, <1>12, <1>14 DEF key, N

(* The directory starts empty. *)
LEMMA PrekeyStarts == PrekeyInit => PrekeyInv
  <1> SUFFICES ASSUME PrekeyInit PROVE PrekeyInv
    OBVIOUS
  <1>1. <<>> \in Seq(OneTime) /\ Len(<<>>) = 0 /\ DOMAIN <<>> = {} /\ ToSet(<<>>) = {}
    BY DEF ToSet
  <1>2. PrekeyTypes
    BY <1>1, PrekeyNumbers DEF PrekeyInit, PrekeyTypes, Modes
  <1>3. IsFiniteSet({}) /\ Cardinality({}) = 0
    BY FS_EmptySet
  <1>4. ASSUME NEW a \in Accounts
        PROVE  KeysOf(a) /\ PoolIsFresh(a) /\ served[a][2] = <<>>
    <2>1. /\ pool[a] = <<>> /\ diskPool[a] = {} /\ served[a] = <<0, <<>>>>
          /\ \A k \in OneTime : handed[a][k] = 0
      BY DEF PrekeyInit
    <2>2. IsPool(<<>>, identityKey[a])
      BY <1>1, PrekeyNumbers DEF IsPool
    <2> QED BY <1>1, <1>3, <2>1, <2>2, PrekeyNumbers DEF KeysOf, PoolIsFresh
  <1>5. diskKey = identityKey /\ diskAccess = access
    BY DEF PrekeyInit
  <1> QED BY <1>2, <1>4, <1>5 DEF PrekeyInv, KeysInv, BundleIsOfOneIdentity

(* What an account has made stays made when it uses more numbers or        *)
(* installs again.                                                         *)
LEMMA MadeStays ==
  ASSUME NEW a \in Accounts, NEW k \in OneTime, Made(a, k), PrekeyTypes, PrekeyTypes',
         \/ install'[a] > install[a]
         \/ install'[a] = install[a] /\ numbered'[a] >= numbered[a]
  PROVE  Made(a, k)'
  <1>1. k[1] \in Nat /\ k[2] \in Nat
    BY KeyHasId
  <1>2. install[a] \in Nat /\ install'[a] \in Nat /\ numbered[a] \in Nat /\ numbered'[a] \in Nat
    BY PrekeyNumbers DEF PrekeyTypes
  <1>3. Made(a, k)' <=> k[1] < install'[a] \/ (k[1] = install'[a] /\ k[2] <= numbered'[a])
    BY DEF Made
  <1>4. k[1] < install[a] \/ (k[1] = install[a] /\ k[2] <= numbered[a])
    BY DEF Made
  <1> QED BY <1>1, <1>2, <1>3, <1>4

(* An account whose tables a step leaves alone. *)
LEMMA AccountStays ==
  ASSUME NEW a \in Accounts, PrekeyTypes, PrekeyTypes', KeysOf(a),
         \/ install'[a] > install[a]
         \/ install'[a] = install[a] /\ numbered'[a] >= numbered[a],
         identityKey'[a] = identityKey[a], pool'[a] = pool[a], diskKey'[a] = diskKey[a],
         diskPool'[a] = diskPool[a], handed'[a] = handed[a]
  PROVE  KeysOf(a)' /\ (PoolIsFresh(a) => PoolIsFresh(a)')
  <1>1. \A k \in OneTime : Made(a, k) => Made(a, k)'
    BY MadeStays
  <1>2. ToSet(pool[a]) \subseteq OneTime /\ diskPool[a] \subseteq OneTime
    <2>1. \A q \in Seq(OneTime) : ToSet(q) \subseteq OneTime
      BY DEF ToSet
    <2> QED BY <2>1 DEF PrekeyTypes
  <1>3. KeysOf(a)'
    <2>1. IsPool(pool'[a], identityKey'[a])
      BY DEF KeysOf
    <2>2. \A k \in ToSet(pool'[a]) \cup diskPool'[a] : Made(a, k)'
      BY <1>1, <1>2 DEF KeysOf
    <2>3. \A k \in diskPool'[a] : k[1] = diskKey'[a]
      BY DEF KeysOf
    <2>4. IsFiniteSet(diskPool'[a]) /\ Cardinality(diskPool'[a]) <= PoolMax
      BY DEF KeysOf
    <2>5. \A k \in OneTime : handed'[a][k] > 0 => Made(a, k)'
      BY <1>1 DEF KeysOf
    <2> QED BY <2>1, <2>2, <2>3, <2>4, <2>5 DEF KeysOf
  <1>4. PoolIsFresh(a) => PoolIsFresh(a)'
    BY DEF PoolIsFresh
  <1> QED BY <1>3, <1>4

(* PREKEY_PUBLISH preserves the invariant. *)
LEMMA PublishStep ==
  ASSUME PrekeyInv, NEW a \in Accounts, NEW n \in 0..BatchMax, PrekeyPublish(a, n)
  PROVE  PrekeyInv'
  <1> DEFINE key == install[a]
             K == Kept(a, n)
  <1>0. PrekeyTypes /\ KeysInv
    BY DEF PrekeyInv
  <1>1. /\ numbered[a] + n <= MaxPrekeys
        /\ numbered' = [numbered EXCEPT ![a] = @ + n]
        /\ identityKey' = [identityKey EXCEPT ![a] = key]
        /\ pool' = [pool EXCEPT ![a] = K]
        /\ UNCHANGED <<install, access, diskAccess, handed, served, crashes>>
    BY DEF PrekeyPublish, Kept, Joined, Batch
  <1>2. \/ /\ diskKey' = [diskKey EXCEPT ![a] = key]
           /\ diskPool' = [diskPool EXCEPT ![a] = LastById(K)]
           /\ writeErrors' = writeErrors
        \/ diskKey' = diskKey /\ diskPool' = diskPool /\ writeErrors' = writeErrors + 1
    BY DEF PrekeyPublish, WriteOrError, Kept, Joined, Batch
  <1>3. /\ IsPool(K, key) /\ LastById(K) = ToSet(K)
        /\ \A k \in ToSet(K) : /\ k[1] = key /\ k[2] <= numbered[a] + n
                               /\ k \in ToSet(pool[a]) \/ k[2] > numbered[a]
    BY <1>0, <1>1, PublishedPool
  <1> HIDE DEF K
  <1>4. K \in Seq(OneTime) /\ Len(K) <= PoolMax /\ Len(K) \in Nat
    BY <1>3 DEF IsPool
  <1>5. ToSet(K) \subseteq OneTime
    BY <1>4 DEF ToSet
  <1>6. key \in 1..MaxInstalls /\ key \in 0..MaxInstalls /\ numbered[a] \in Nat
        /\ numbered[a] + n \in Nat /\ numbered[a] + n >= numbered[a]
    BY <1>0, PrekeyNumbers DEF PrekeyTypes
  <1> HIDE DEF key
  <1>7. PrekeyTypes'
    <2>1. install' \in [Accounts -> 1..MaxInstalls] /\ numbered' \in [Accounts -> Nat]
          /\ identityKey' \in [Accounts -> 0..MaxInstalls] /\ pool' \in [Accounts -> Seq(OneTime)]
      BY <1>0, <1>1, <1>4, <1>6 DEF PrekeyTypes
    <2>2. diskKey' \in [Accounts -> 0..MaxInstalls] /\ diskPool' \in [Accounts -> SUBSET OneTime]
          /\ writeErrors' \in Nat
      <3>1. /\ diskKey \in [Accounts -> 0..MaxInstalls] /\ writeErrors \in Nat
            /\ diskPool \in [Accounts -> SUBSET OneTime]
        BY <1>0 DEF PrekeyTypes
      <3>2. LastById(K) \in SUBSET OneTime
        BY <1>3, <1>5
      <3>3. /\ [diskKey EXCEPT ![a] = key] \in [Accounts -> 0..MaxInstalls]
            /\ [diskPool EXCEPT ![a] = LastById(K)] \in [Accounts -> SUBSET OneTime]
            /\ writeErrors + 1 \in Nat
        BY <1>6, <3>1, <3>2
      <3> QED BY <1>2, <3>1, <3>3
    <2> QED BY <1>0, <1>1, <2>1, <2>2 DEF PrekeyTypes
  <1>8. ASSUME NEW b \in Accounts, b # a
        PROVE  KeysOf(b)' /\ (PoolIsFresh(b) => PoolIsFresh(b)')
    <2>1. install'[b] = install[b] /\ numbered'[b] >= numbered[b]
      BY <1>0, <1>1, <1>8 DEF PrekeyTypes
    <2>2. identityKey'[b] = identityKey[b] /\ pool'[b] = pool[b] /\ handed'[b] = handed[b]
      BY <1>0, <1>1, <1>8 DEF PrekeyTypes
    <2>3. diskKey'[b] = diskKey[b] /\ diskPool'[b] = diskPool[b]
      BY <1>0, <1>2, <1>8 DEF PrekeyTypes
    <2> QED BY <1>0, <1>7, <2>1, <2>2, <2>3, AccountStays DEF KeysInv
  <1>9. /\ identityKey'[a] = key /\ pool'[a] = K /\ handed'[a] = handed[a]
        /\ install'[a] = key /\ numbered'[a] = numbered[a] + n
    BY <1>0, <1>1 DEF PrekeyTypes, key
  <1>10. \A k \in OneTime : Made(a, k) => Made(a, k)'
    BY <1>0, <1>6, <1>7, <1>9, MadeStays DEF key
  <1>11. \A k \in ToSet(K) : Made(a, k)'
    BY <1>3, <1>9 DEF Made
  <1>12. \A k \in OneTime : handed'[a][k] > 0 => Made(a, k)'
    BY <1>0, <1>9, <1>10 DEF KeysInv, KeysOf
  <1>13. CASE /\ diskKey' = [diskKey EXCEPT ![a] = key]
              /\ diskPool' = [diskPool EXCEPT ![a] = LastById(K)]
              /\ writeErrors' = writeErrors
    <2>1. diskKey'[a] = key /\ diskPool'[a] = ToSet(K)
      BY <1>0, <1>3, <1>13 DEF PrekeyTypes
    <2>2. IsFiniteSet(ToSet(K)) /\ Cardinality(ToSet(K)) <= PoolMax
      <3>1. /\ IsFiniteSet(ToSet(K)) /\ Cardinality(ToSet(K)) <= Len(K)
            /\ Cardinality(ToSet(K)) \in Nat
        BY <1>4, KeysOfSequence
      <3> QED BY <1>4, <3>1, PrekeyNumbers
    <2>3. KeysOf(a)'
      BY <1>3, <1>9, <1>11, <1>12, <2>1, <2>2 DEF KeysOf
    <2>4. PoolIsFresh(a) => PoolIsFresh(a)'
      <3> SUFFICES ASSUME PoolIsFresh(a) PROVE PoolIsFresh(a)'
        OBVIOUS
      <3>1. ASSUME NEW k \in ToSet(K) PROVE handed[a][k] = 0
        <4>1. CASE k \in ToSet(pool[a])
          BY <4>1 DEF PoolIsFresh
        <4>2. CASE k[2] > numbered[a]
          <5>1. k[1] = key /\ k \in OneTime /\ k[1] \in Nat /\ k[2] \in Nat
            BY <1>3, <1>5, KeyHasId
          <5>2. ~Made(a, k)
            BY <1>6, <4>2, <5>1 DEF Made, key
          <5>3. handed[a][k] \in Nat /\ ~(handed[a][k] > 0)
            BY <1>0, <5>1, <5>2 DEF KeysInv, KeysOf, PrekeyTypes
          <5> QED BY <5>3
        <4> QED BY <1>3, <4>1, <4>2
      <3>2. \A k \in OneTime : handed[a][k] <= 1
        BY DEF PoolIsFresh
      <3> QED BY <1>9, <2>1, <3>1, <3>2 DEF PoolIsFresh
    <2>5. KeysInv'
      BY <1>8, <2>3 DEF KeysInv
    <2>6. writeErrors' = 0 => \A b \in Accounts : PoolIsFresh(b)'
      BY <1>8, <1>13, <2>4 DEF PrekeyInv
    <2>7. writeErrors' = 0 => diskKey' = identityKey' /\ diskAccess' = access'
      BY <1>1, <1>13 DEF PrekeyInv
    <2>8. BundleIsOfOneIdentity'
      BY <1>1 DEF PrekeyInv, BundleIsOfOneIdentity
    <2> QED BY <1>7, <2>5, <2>6, <2>7, <2>8 DEF PrekeyInv
  <1>14. CASE diskKey' = diskKey /\ diskPool' = diskPool /\ writeErrors' = writeErrors + 1
    <2>1. diskKey'[a] = diskKey[a] /\ diskPool'[a] = diskPool[a] /\ diskPool[a] \subseteq OneTime
      BY <1>0, <1>14 DEF PrekeyTypes
    <2>2. \A k \in diskPool[a] : Made(a, k)'
      BY <1>0, <1>10, <2>1 DEF KeysInv, KeysOf
    <2>3. (\A k \in diskPool[a] : k[1] = diskKey[a]) /\ IsFiniteSet(diskPool[a])
          /\ Cardinality(diskPool[a]) <= PoolMax
      BY <1>0 DEF KeysInv, KeysOf
    <2>4. KeysOf(a)'
      BY <1>3, <1>9, <1>11, <1>12, <2>1, <2>2, <2>3 DEF KeysOf
    <2>5. KeysInv'
      BY <1>8, <2>4 DEF KeysInv
    <2>6. writeErrors' # 0
      BY <1>0, <1>14 DEF PrekeyTypes
    <2>7. BundleIsOfOneIdentity'
      BY <1>1 DEF PrekeyInv, BundleIsOfOneIdentity
    <2> QED BY <1>7, <2>5, <2>6, <2>7 DEF PrekeyInv
  <1> QED BY <1>2, <1>13, <1>14

(* What is left of a pool when its first key is taken. *)
LEMMA PoolWithoutHead ==
  ASSUME NEW q, NEW key, IsPool(q, key), q # <<>>
  PROVE  /\ Head(q) \in OneTime /\ Head(q) \in ToSet(q) /\ Head(q)[1] = key
         /\ IsPool(Tail(q), key)
         /\ ToSet(Tail(q)) = {k \in ToSet(q) : k[2] # Head(q)[2]}
         /\ Head(q) \notin ToSet(Tail(q))
  <1> DEFINE t == Tail(q)
             l == Len(q)
  <1>1. /\ q \in Seq(OneTime) /\ l \in Nat /\ DOMAIN q = 1..l /\ l <= PoolMax
        /\ \A i \in 1..l : q[i] \in OneTime /\ q[i][1] = key
        /\ \A i, j \in 1..l : q[i] = q[j] => i = j
    BY DEF IsPool
  <1>2. l # 0 /\ Head(q) = q[1]
    BY <1>1
  <1>3. /\ t \in Seq(OneTime) /\ Len(t) = l - 1 /\ \A i \in 1..(l - 1) : t[i] = q[i + 1]
    BY <1>1, HeadTailProperties
  <1> HIDE DEF t, l
  <1>4. DOMAIN t = 1..(l - 1)
    BY <1>3
  <1>5. 1 \in 1..l /\ \A i \in 1..(l - 1) : i + 1 \in 1..l /\ i + 1 # 1
    BY <1>1, <1>2
  <1>6. IsPool(t, key)
    <2>1. Len(t) <= PoolMax
      BY <1>1, <1>2, <1>3, PrekeyNumbers
    <2>2. \A i \in DOMAIN t : t[i][1] = key
      BY <1>1, <1>3, <1>4, <1>5
    <2>3. \A i, j \in DOMAIN t : t[i] = t[j] => i = j
      <3> SUFFICES ASSUME NEW i \in 1..(l - 1), NEW j \in 1..(l - 1), t[i] = t[j]
                   PROVE  i = j
        BY <1>4
      <3>1. i + 1 = j + 1
        BY <1>1, <1>3, <1>5
      <3> QED BY <1>1, <3>1
    <2> QED BY <1>3, <2>1, <2>2, <2>3 DEF IsPool
  <1>7. Head(q) \in OneTime /\ Head(q) \in ToSet(q) /\ Head(q)[1] = key
    BY <1>1, <1>2, <1>5 DEF ToSet
  <1>8. \A i \in 1..l : q[i][2] = q[1][2] => i = 1
    <2> SUFFICES ASSUME NEW i \in 1..l, q[i][2] = q[1][2] PROVE i = 1
      OBVIOUS
    <2>1. q[i] \in OneTime /\ q[1] \in OneTime /\ q[i][1] = q[1][1]
      BY <1>1, <1>5
    <2>2. q[i] = q[1]
      BY <2>1, KeyIsItsId
    <2> QED BY <1>1, <1>5, <2>2
  <1>9. \A k : k \in ToSet(t) <=> \E i \in 1..(l - 1) : k = q[i + 1]
    BY <1>3, <1>4 DEF ToSet
  <1>10. \A k : k \in ToSet(q) <=> \E i \in 1..l : k = q[i]
    BY <1>1 DEF ToSet
  <1>11. ASSUME NEW k \in ToSet(t) PROVE k \in ToSet(q) /\ k[2] # Head(q)[2]
    <2>1. PICK i \in 1..(l - 1) : k = q[i + 1]
      BY <1>9
    <2>2. i + 1 \in 1..l /\ i + 1 # 1
      BY <1>5
    <2> QED BY <1>2, <1>8, <1>10, <2>1, <2>2
  <1>12. ASSUME NEW k \in ToSet(q), k[2] # Head(q)[2] PROVE k \in ToSet(t)
    <2>1. PICK i \in 1..l : k = q[i]
      BY <1>10
    <2>2. i # 1
      BY <1>2, <1>12, <2>1
    <2>3. i - 1 \in 1..(l - 1) /\ (i - 1) + 1 = i
      BY <1>1, <2>2
    <2> QED BY <1>9, <2>1, <2>3
  <1> QED BY <1>6, <1>7, <1>11, <1>12 DEF t

(* PREKEY_TAKE preserves the invariant. *)
LEMMA TakeStep ==
  ASSUME PrekeyInv, NEW a \in Accounts, PrekeyTake(a)
  PROVE  PrekeyInv'
  <1> DEFINE k == Head(pool[a])
             q == pool[a]
  <1>0. PrekeyTypes /\ KeysInv /\ BundleIsOfOneIdentity
    BY DEF PrekeyInv
  <1>1. UNCHANGED <<install, numbered, identityKey, diskKey, access, diskAccess, crashes>>
    BY DEF PrekeyTake
  <1>2. CASE q = <<>>
    <2>1. /\ served' = [served EXCEPT ![a] = <<identityKey[a], <<>>>>]
          /\ UNCHANGED <<pool, handed, diskPool, writeErrors>>
      BY <1>2 DEF PrekeyTake
    <2>2. PrekeyTypes'
      BY <1>0, <1>1, <2>1 DEF PrekeyTypes
    <2>3. BundleIsOfOneIdentity'
      <3> SUFFICES ASSUME NEW b \in Accounts
                   PROVE  served'[b][2] # <<>> => served'[b][2][1] = served'[b][1]
        BY DEF BundleIsOfOneIdentity
      <3>1. CASE b = a
        <4>1. served'[b] = <<identityKey[a], <<>>>>
          BY <1>0, <2>1, <3>1 DEF PrekeyTypes
        <4> QED BY <4>1
      <3>2. CASE b # a
        <4>1. served'[b] = served[b]
          BY <1>0, <2>1, <3>2 DEF PrekeyTypes
        <4> QED BY <1>0, <4>1 DEF BundleIsOfOneIdentity
      <3> QED BY <3>1, <3>2
    <2>4. KeysInv' /\ (writeErrors' = 0 => \A b \in Accounts : PoolIsFresh(b)')
      BY <1>0, <1>1, <2>1 DEF PrekeyInv, KeysInv, KeysOf, Made, PoolIsFresh
    <2>5. writeErrors' = 0 => diskKey' = identityKey' /\ diskAccess' = access'
      BY <1>1, <2>1 DEF PrekeyInv
    <2> QED BY <2>2, <2>3, <2>4, <2>5 DEF PrekeyInv
  <1>3. CASE q # <<>>
    <2>1. /\ pool' = [pool EXCEPT ![a] = Tail(q)]
          /\ handed' = [handed EXCEPT ![a][k] = @ + 1]
          /\ served' = [served EXCEPT ![a] = <<identityKey[a], k>>]
      BY <1>3 DEF PrekeyTake
    <2>2. \/ /\ diskPool' = [diskPool EXCEPT ![a] = DiskAfterTake(a, k)]
             /\ writeErrors' = writeErrors
          \/ diskPool' = diskPool /\ writeErrors' = writeErrors + 1
      BY <1>3 DEF PrekeyTake, WriteOrError
    <2>3. KeysOf(a) /\ IsPool(q, identityKey[a])
      BY <1>0 DEF KeysInv, KeysOf
    <2>4. /\ k \in OneTime /\ k \in ToSet(q) /\ k[1] = identityKey[a]
          /\ IsPool(Tail(q), identityKey[a])
          /\ ToSet(Tail(q)) = {d \in ToSet(q) : d[2] # k[2]}
          /\ k \notin ToSet(Tail(q))
      BY <1>3, <2>3, PoolWithoutHead
    <2> HIDE DEF k
    <2>5. Tail(q) \in Seq(OneTime) /\ ToSet(Tail(q)) \subseteq ToSet(q)
      BY <2>4 DEF IsPool
    <2> DEFINE t == Tail(q)
    <2> HIDE DEF t
    <2>6. /\ handed \in [Accounts -> [OneTime -> Nat]] /\ pool \in [Accounts -> Seq(OneTime)]
          /\ diskPool \in [Accounts -> SUBSET OneTime] /\ writeErrors \in Nat
          /\ served = [b \in Accounts |-> served[b]]
      BY <1>0 DEF PrekeyTypes
    <2>7. /\ handed'[a] = [handed[a] EXCEPT ![k] = @ + 1] /\ handed'[a] \in [OneTime -> Nat]
          /\ handed'[a][k] = handed[a][k] + 1
          /\ \A d \in OneTime : d # k => handed'[a][d] = handed[a][d]
          /\ \A b \in Accounts : b # a => handed'[b] = handed[b]
          /\ handed' \in [Accounts -> [OneTime -> Nat]]
      <3>1. handed[a] \in [OneTime -> Nat] /\ handed[a][k] \in Nat
        BY <2>4, <2>6
      <3>2. handed' = [handed EXCEPT ![a] = [handed[a] EXCEPT ![k] = handed[a][k] + 1]]
        BY <2>1
      <3>3. [handed[a] EXCEPT ![k] = handed[a][k] + 1] \in [OneTime -> Nat]
        <4>1. \A h \in [OneTime -> Nat], c \in Nat : [h EXCEPT ![k] = c] \in [OneTime -> Nat]
          OBVIOUS
        <4>2. handed[a][k] + 1 \in Nat
          BY <3>1
        <4> QED BY <3>1, <4>1, <4>2
      <3>4. handed'[a] = [handed[a] EXCEPT ![k] = handed[a][k] + 1]
        BY <2>6, <3>2
      <3>5. handed'[a] \in [OneTime -> Nat]
        BY <3>3, <3>4
      <3>6. handed'[a][k] = handed[a][k] + 1
            /\ \A d \in OneTime : d # k => handed'[a][d] = handed[a][d]
        BY <2>4, <3>1, <3>4
      <3>7. (\A b \in Accounts : b # a => handed'[b] = handed[b])
            /\ handed' \in [Accounts -> [OneTime -> Nat]]
        BY <2>6, <3>2, <3>3
      <3> QED BY <3>4, <3>5, <3>6, <3>7
    <2>8. DiskAfterTake(a, k) \subseteq diskPool[a]
      BY DEF DiskAfterTake
    <2>9. PrekeyTypes'
      <3>1. pool' \in [Accounts -> Seq(OneTime)]
        BY <2>1, <2>5, <2>6
      <3>2. diskPool' \in [Accounts -> SUBSET OneTime] /\ writeErrors' \in Nat
        <4>1. [diskPool EXCEPT ![a] = DiskAfterTake(a, k)] \in [Accounts -> SUBSET OneTime]
          BY <2>6, <2>8
        <4>2. writeErrors + 1 \in Nat
          BY <2>6
        <4> QED BY <2>2, <2>6, <4>1, <4>2
      <3>3. served' = [b \in Accounts |-> served'[b]]
        BY <2>1, <2>6
      <3> QED BY <1>0, <1>1, <2>7, <3>1, <3>2, <3>3 DEF PrekeyTypes
    <2>10. ASSUME NEW b \in Accounts, b # a
           PROVE  KeysOf(b)' /\ (PoolIsFresh(b) => PoolIsFresh(b)')
      <3>1. install'[b] = install[b] /\ numbered'[b] >= numbered[b]
        BY <1>0, <1>1 DEF PrekeyTypes
      <3>2. pool'[b] = pool[b] /\ handed'[b] = handed[b] /\ diskPool'[b] = diskPool[b]
        BY <2>1, <2>2, <2>6, <2>7, <2>10
      <3>3. identityKey'[b] = identityKey[b] /\ diskKey'[b] = diskKey[b]
        BY <1>1
      <3> QED BY <1>0, <2>9, <3>1, <3>2, <3>3, AccountStays DEF KeysInv
    <2>11. pool'[a] = t /\ identityKey'[a] = identityKey[a] /\ diskKey'[a] = diskKey[a]
      BY <1>1, <2>1, <2>6 DEF t
    <2>12. \A d : Made(a, d)' <=> Made(a, d)
      BY <1>1 DEF Made
    <2>13. \A d \in OneTime : handed'[a][d] > 0 => Made(a, d)'
      <3> SUFFICES ASSUME NEW d \in OneTime, handed'[a][d] > 0 PROVE Made(a, d)
        BY <2>12
      <3>1. CASE d = k
        BY <2>3, <2>4, <3>1 DEF KeysOf
      <3>2. CASE d # k
        BY <2>3, <2>7, <3>2 DEF KeysOf
      <3> QED BY <3>1, <3>2
    <2>14. diskPool'[a] \subseteq diskPool[a]
      BY <2>2, <2>6, <2>8
    <2>15. KeysOf(a)'
      <3>1. IsPool(pool'[a], identityKey'[a])
        BY <2>4, <2>11 DEF t
      <3>2. \A d \in ToSet(pool'[a]) \cup diskPool'[a] : Made(a, d)'
        BY <2>3, <2>5, <2>11, <2>12, <2>14 DEF KeysOf, t
      <3>3. \A d \in diskPool'[a] : d[1] = diskKey'[a]
        BY <2>3, <2>11, <2>14 DEF KeysOf
      <3>4. IsFiniteSet(diskPool'[a]) /\ Cardinality(diskPool'[a]) <= PoolMax
        <4>1. IsFiniteSet(diskPool[a]) /\ Cardinality(diskPool[a]) <= PoolMax
          BY <2>3 DEF KeysOf
        <4>2. /\ IsFiniteSet(diskPool'[a])
              /\ Cardinality(diskPool'[a]) <= Cardinality(diskPool[a])
          BY <2>14, <4>1, FS_Subset
        <4>3. Cardinality(diskPool'[a]) \in Nat /\ Cardinality(diskPool[a]) \in Nat
          BY <4>1, <4>2, FS_CardinalityType
        <4> QED BY <4>1, <4>2, <4>3, PrekeyNumbers
      <3> QED BY <2>13, <3>1, <3>2, <3>3, <3>4 DEF KeysOf
    <2>16. BundleIsOfOneIdentity'
      <3> SUFFICES ASSUME NEW b \in Accounts
                   PROVE  served'[b][2] # <<>> => served'[b][2][1] = served'[b][1]
        BY DEF BundleIsOfOneIdentity
      <3>1. CASE b = a
        <4>1. served'[b] = <<identityKey[a], k>>
          BY <2>1, <2>6, <3>1
        <4>2. served'[b][2] = k /\ served'[b][1] = identityKey[a]
          BY <4>1
        <4> QED BY <2>4, <4>2
      <3>2. CASE b # a
        <4>1. served'[b] = served[b]
          BY <2>1, <2>6, <3>2
        <4> QED BY <1>0, <4>1 DEF BundleIsOfOneIdentity
      <3> QED BY <3>1, <3>2
    <2>17. ASSUME writeErrors' = 0
           PROVE  (\A b \in Accounts : PoolIsFresh(b)') /\ diskKey' = identityKey'
                  /\ diskAccess' = access'
      <3>1. writeErrors = 0 /\ diskPool' = [diskPool EXCEPT ![a] = DiskAfterTake(a, k)]
        BY <2>2, <2>6, <2>17
      <3>2. PoolIsFresh(a) /\ \A b \in Accounts : PoolIsFresh(b)
        BY <3>1 DEF PrekeyInv
      <3>3. diskPool'[a] = ToSet(t)
        <4>1. diskPool'[a] = {d \in diskPool[a] : d[2] # k[2]}
          BY <2>6, <3>1 DEF DiskAfterTake
        <4> QED BY <2>4, <3>2, <4>1 DEF PoolIsFresh, t
      <3>4. \A d \in ToSet(t) : handed'[a][d] = 0
        <4>1. ToSet(q) \subseteq OneTime
          BY <2>3 DEF IsPool, ToSet
        <4>2. \A d \in ToSet(t) : d \in OneTime /\ d # k /\ handed[a][d] = 0
          BY <2>4, <2>5, <3>2, <4>1 DEF PoolIsFresh, t
        <4> QED BY <2>7, <4>2
      <3>5. \A d \in OneTime : handed'[a][d] <= 1
        <4>1. handed[a][k] = 0
          BY <2>4, <3>2 DEF PoolIsFresh
        <4> QED BY <2>7, <3>2, <4>1 DEF PoolIsFresh
      <3>6. PoolIsFresh(a)'
        BY <2>11, <3>3, <3>4, <3>5 DEF PoolIsFresh
      <3>7. diskKey' = identityKey' /\ diskAccess' = access'
        BY <1>1, <3>1 DEF PrekeyInv
      <3> QED BY <2>10, <3>2, <3>6, <3>7
    <2> QED BY <2>9, <2>10, <2>15, <2>16, <2>17 DEF PrekeyInv, KeysInv
  <1> QED BY <1>2, <1>3

(* A restart of the broker preserves the invariant: what is read is what   *)
(* the mirror holds.                                                       *)
LEMMA HydrateStep ==
  ASSUME PrekeyInv, Hydrate
  PROVE  PrekeyInv'
  <1>0. PrekeyTypes /\ KeysInv
    BY DEF PrekeyInv
  <1>1. /\ identityKey' = diskKey /\ access' = diskAccess
        /\ UNCHANGED <<install, numbered, diskKey, diskPool, diskAccess, handed, served,
                       writeErrors>>
    BY DEF Hydrate
  <1>2. /\ pool' \in [Accounts -> UNION {ById(diskPool[a]) : a \in Accounts}]
        /\ \A a \in Accounts : pool'[a] \in ById(diskPool[a])
    BY DEF Hydrate
  <1>3. ASSUME NEW a \in Accounts
        PROVE  /\ pool'[a] \in Seq(OneTime) /\ ToSet(pool'[a]) = diskPool[a]
               /\ KeysOf(a)' /\ (PoolIsFresh(a) => PoolIsFresh(a)')
    <2>1. KeysOf(a) /\ diskPool[a] \in SUBSET OneTime /\ pool'[a] \in ById(diskPool[a])
      BY <1>0, <1>2 DEF PrekeyTypes, KeysInv
    <2> DEFINE q == pool'[a]
    <2>2. /\ q \in Seq(OneTime) /\ Len(q) = Cardinality(diskPool[a])
          /\ ToSet(q) = diskPool[a] /\ \A m, n \in DOMAIN q : q[m] = q[n] => m = n
      BY <2>1, ReadIsTheTable DEF KeysOf
    <2> HIDE DEF q
    <2>3. IsPool(q, diskKey[a])
      <3>1. \A n \in DOMAIN q : q[n] \in ToSet(q)
        BY DEF ToSet
      <3>2. \A n \in DOMAIN q : q[n][1] = diskKey[a]
        BY <2>1, <2>2, <3>1 DEF KeysOf
      <3>3. Len(q) <= PoolMax
        BY <2>1, <2>2 DEF KeysOf
      <3> QED BY <2>2, <3>2, <3>3 DEF IsPool
    <2>4. \A d : Made(a, d)' <=> Made(a, d)
      BY <1>1 DEF Made
    <2>5. KeysOf(a)'
      <3>1. IsPool(pool'[a], identityKey'[a])
        BY <1>1, <2>3 DEF q
      <3>2. \A d \in ToSet(pool'[a]) \cup diskPool'[a] : Made(a, d)'
        BY <1>1, <2>1, <2>2, <2>4 DEF KeysOf, q
      <3>3. \A d \in diskPool'[a] : d[1] = diskKey'[a]
        BY <1>1, <2>1 DEF KeysOf
      <3>4. IsFiniteSet(diskPool'[a]) /\ Cardinality(diskPool'[a]) <= PoolMax
        BY <1>1, <2>1 DEF KeysOf
      <3>5. \A d \in OneTime : handed'[a][d] > 0 => Made(a, d)'
        BY <1>1, <2>1, <2>4 DEF KeysOf
      <3> QED BY <3>1, <3>2, <3>3, <3>4, <3>5 DEF KeysOf
    <2>6. PoolIsFresh(a) => PoolIsFresh(a)'
      <3>1. ToSet(pool'[a]) = diskPool[a] /\ handed'[a] = handed[a] /\ diskPool'[a] = diskPool[a]
        BY <1>1, <2>2 DEF q
      <3> QED BY <3>1 DEF PoolIsFresh
    <2> QED BY <2>2, <2>5, <2>6 DEF q
  <1>4. PrekeyTypes'
    <2>1. pool' \in [Accounts -> Seq(OneTime)]
      BY <1>2, <1>3
    <2> QED BY <1>0, <1>1, <2>1 DEF PrekeyTypes
  <1>5. BundleIsOfOneIdentity'
    BY <1>1 DEF PrekeyInv, BundleIsOfOneIdentity
  <1>6. writeErrors' = 0 => /\ \A a \in Accounts : PoolIsFresh(a)'
                            /\ diskKey' = identityKey' /\ diskAccess' = access'
    BY <1>1, <1>3 DEF PrekeyInv
  <1> QED BY <1>3, <1>4, <1>5, <1>6 DEF PrekeyInv, KeysInv

(* The steps that touch no pool: a client installs again, and              *)
(* SEALED_UAK_SET.                                                         *)
LEMMA OtherPrekeyStep ==
  ASSUME PrekeyInv, NEW a \in Accounts,
         \/ Reinstall(a)
         \/ \E mode \in Modes \ {"unset"} : SealedUakSet(a, mode)
  PROVE  PrekeyInv'
  <1>0. PrekeyTypes /\ KeysInv /\ BundleIsOfOneIdentity
    BY DEF PrekeyInv
  <1>1. UNCHANGED <<identityKey, pool, diskKey, diskPool, handed, served>>
    BY DEF Reinstall, SealedUakSet
  <1>2. PrekeyTypes' /\ \A b \in Accounts :
          \/ install'[b] > install[b]
          \/ install'[b] = install[b] /\ numbered'[b] >= numbered[b]
    <2>1. CASE Reinstall(a)
      <3>1. /\ install' = [install EXCEPT ![a] = @ + 1] /\ install[a] < MaxInstalls
            /\ numbered' = [numbered EXCEPT ![a] = 0]
            /\ UNCHANGED <<access, diskAccess, writeErrors>>
        BY <2>1 DEF Reinstall
      <3>2. install[a] + 1 \in 1..MaxInstalls /\ install[a] + 1 > install[a]
        BY <1>0, <3>1, PrekeyNumbers DEF PrekeyTypes
      <3>3. install' \in [Accounts -> 1..MaxInstalls] /\ numbered' \in [Accounts -> Nat]
        BY <1>0, <3>1, <3>2 DEF PrekeyTypes
      <3>4. \A b \in Accounts : \/ install'[b] > install[b]
                                \/ install'[b] = install[b] /\ numbered'[b] >= numbered[b]
        BY <1>0, <3>1, <3>2 DEF PrekeyTypes
      <3> QED BY <1>0, <1>1, <3>1, <3>3, <3>4 DEF PrekeyTypes
    <2>2. ASSUME NEW mode \in Modes, SealedUakSet(a, mode)
          PROVE  PrekeyTypes' /\ \A b \in Accounts :
                   install'[b] = install[b] /\ numbered'[b] >= numbered[b]
      <3>1. /\ access' = [access EXCEPT ![a] = mode] /\ UNCHANGED <<install, numbered>>
            /\ \/ diskAccess' = [diskAccess EXCEPT ![a] = mode] /\ writeErrors' = writeErrors
               \/ diskAccess' = diskAccess /\ writeErrors' = writeErrors + 1
        BY <2>2 DEF SealedUakSet, WriteOrError
      <3>2. access' \in [Accounts -> Modes] /\ diskAccess' \in [Accounts -> Modes]
            /\ writeErrors' \in Nat
        <4>1. /\ access \in [Accounts -> Modes] /\ diskAccess \in [Accounts -> Modes]
              /\ writeErrors \in Nat
          BY <1>0 DEF PrekeyTypes
        <4>2. /\ [access EXCEPT ![a] = mode] \in [Accounts -> Modes]
              /\ [diskAccess EXCEPT ![a] = mode] \in [Accounts -> Modes]
              /\ writeErrors + 1 \in Nat
          BY <4>1
        <4> QED BY <3>1, <4>1, <4>2
      <3>3. \A b \in Accounts : install'[b] = install[b] /\ numbered'[b] >= numbered[b]
        BY <1>0, <3>1 DEF PrekeyTypes
      <3> QED BY <1>0, <1>1, <3>1, <3>2, <3>3 DEF PrekeyTypes
    <2> QED BY <2>1, <2>2
  <1>3. ASSUME NEW b \in Accounts
        PROVE  KeysOf(b)' /\ (PoolIsFresh(b) => PoolIsFresh(b)')
    BY <1>0, <1>1, <1>2, AccountStays DEF KeysInv
  <1>4. BundleIsOfOneIdentity'
    BY <1>0, <1>1 DEF BundleIsOfOneIdentity
  <1>5. writeErrors' = 0 => writeErrors = 0 /\ (diskAccess = access => diskAccess' = access')
    <2>1. CASE Reinstall(a)
      BY <2>1 DEF Reinstall
    <2>2. ASSUME NEW mode \in Modes, SealedUakSet(a, mode)
          PROVE  writeErrors' = 0 => writeErrors = 0 /\ (diskAccess = access => diskAccess' = access')
      <3>1. /\ access' = [access EXCEPT ![a] = mode]
            /\ \/ diskAccess' = [diskAccess EXCEPT ![a] = mode] /\ writeErrors' = writeErrors
               \/ diskAccess' = diskAccess /\ writeErrors' = writeErrors + 1
        BY <2>2 DEF SealedUakSet, WriteOrError
      <3>2. writeErrors + 1 # 0
        BY <1>0 DEF PrekeyTypes
      <3> QED BY <3>1, <3>2
    <2> QED BY <2>1, <2>2
  <1>6. writeErrors' = 0 => /\ \A b \in Accounts : PoolIsFresh(b)'
                            /\ diskKey' = identityKey' /\ diskAccess' = access'
    BY <1>1, <1>3, <1>5 DEF PrekeyInv
  <1> QED BY <1>2, <1>3, <1>4, <1>6 DEF PrekeyInv, KeysInv

(* The invariant of the prekey directory: a key in a pool is made, of the  *)
(* pool's identity and once there, and until a write fails it was never    *)
(* handed out (PREKEY_PUBLISH, PREKEY_TAKE, SEALED_UAK_SET, allBundles).   *)
THEOREM PrekeyInvariance == PrekeySpec => []PrekeyInv
  <1>1. PrekeyInit => PrekeyInv
    BY PrekeyStarts
  <1>2. PrekeyInv /\ [PrekeyNext]_prekeyVars => PrekeyInv'
    <2> SUFFICES ASSUME PrekeyInv, [PrekeyNext]_prekeyVars PROVE PrekeyInv'
      OBVIOUS
    <2>1. CASE UNCHANGED prekeyVars
      <3>1. UNCHANGED <<install, numbered, identityKey, pool, diskKey, diskPool, access,
                        diskAccess, handed, served, writeErrors>>
        BY <2>1 DEF prekeyVars
      <3> QED BY <3>1 DEF PrekeyInv, PrekeyTypes, KeysInv, KeysOf, Made, PoolIsFresh,
                          BundleIsOfOneIdentity
    <2>2. ASSUME NEW a \in Accounts, PrekeyTake(a) PROVE PrekeyInv'
      BY <2>2, TakeStep
    <2>3. ASSUME NEW a \in Accounts, NEW n \in 0..BatchMax, PrekeyPublish(a, n)
          PROVE  PrekeyInv'
      BY <2>3, PublishStep
    <2>4. ASSUME NEW a \in Accounts,
                 \/ Reinstall(a)
                 \/ \E mode \in Modes \ {"unset"} : SealedUakSet(a, mode)
          PROVE  PrekeyInv'
      BY <2>4, OtherPrekeyStep
    <2>5. CASE Hydrate
      BY <2>5, HydrateStep
    <2> QED BY <2>1, <2>2, <2>3, <2>4, <2>5 DEF PrekeyNext
  <1> QED BY <1>1, <1>2, PTL DEF PrekeySpec

(* PREKEY_TAKE: "no two sessions reuse" a one-time prekey.  However        *)
(* publications, installations, takes and restarts follow each other, and  *)
(* for every size of pool and batch, none is handed out twice as long as   *)
(* the writes of the mirror succeed.                                       *)
THEOREM NoPrekeyTwice == PrekeySpec => []TakenOnce
  <1>1. PrekeyInv => TakenOnce
    BY DEF PrekeyInv, PoolIsFresh, TakenOnce
  <1> QED BY <1>1, PrekeyInvariance, PTL

(* The directory keeps to its types and to the cap of a pool, answers with *)
(* bundles of one installation, and is found again by a restart            *)
(* (PREKEY_PUBLISH, PREKEY_TAKE, lib/prekey-store.js).                     *)
THEOREM DirectoryStaysSound == PrekeySpec => []DirectoryIsSound
  <1>1. PrekeyInv => DirectoryIsSound
    <2> SUFFICES ASSUME PrekeyInv PROVE DirectoryIsSound
      OBVIOUS
    <2>1. PrekeyTypes /\ KeysInv /\ BundleIsOfOneIdentity
      BY DEF PrekeyInv
    <2>2. \A a \in Accounts : Len(pool[a]) <= PoolMax
      BY <2>1 DEF KeysInv, KeysOf, IsPool
    <2>3. PrekeyTypeOK
      BY <2>1, <2>2 DEF PrekeyTypes, PrekeyTypeOK
    <2>4. RestartFindsTheDirectory
      BY DEF PrekeyInv, PoolIsFresh, RestartFindsTheDirectory
    <2> QED BY <2>1, <2>3, <2>4 DEF DirectoryIsSound
  <1> QED BY <1>1, PrekeyInvariance, PTL
=============================================================================
