---------------------------- MODULE AuthRequests ----------------------------
(***************************************************************************)
(* Authorization requests (lib/server.js): a client asks, the broker keeps *)
(* the client's latest pending request, a manager decides it.  A broker    *)
(* alone decides on the object in its memory.  In a cluster the requests   *)
(* are mirrored to one document in Redis (lib/cluster.js) which each       *)
(* broker reads, changes and writes back, and the decision travels to the  *)
(* broker that holds the client's socket.                                  *)
(*                                                                         *)
(* Requests are numbered in the order they are made; a request stands for  *)
(* its client, its broker and its status.  The manager's proof is that of  *)
(* ManagerProof: here every decision has a proof of its own.               *)
(***************************************************************************)
EXTENDS Naturals, Sequences, FiniteSets

CONSTANTS
  AuthBrokers, AskingClients,
  MaxAsks,       \* bound: requests made
  MaxDecides,    \* bound: decisions sent
  MaxPending     \* max_pending_authorization_requests

ASSUME AuthAssumption ==
  MaxAsks \in Nat /\ MaxDecides \in Nat /\ MaxPending \in Nat

Requests == 1..MaxAsks
Verdicts == {"approved", "rejected"}
Statuses == {"absent", "pending", "superseded"} \cup Verdicts

VARIABLES
  shared,     \* whether the brokers are a cluster (clusterSync)
  asked,      \* requests made so far, each with its client and broker
  status,     \* by broker and request: request.status in its memory
  mapped,     \* by broker: the requests of authorizationRequestMap
  latest,     \* by broker and client: authorizationRequestClientMap, 0 = none
  authDoc,    \* Redis: <prefix>:authreqs, the status by request
  pipes,      \* by broker: commands to Redis not yet answered, in order
  inbox,      \* <<broker, request, verdict, n>>: decisions of peers to handle
  tasks,      \* without a cluster: decisions between lookup and execution
  outcomes,   \* by request and verdict: decisions carried out
  answers,    \* by request and verdict: notifications sent to the client
  decides

authVars == <<shared, asked, status, mapped, latest, authDoc, pipes,
              inbox, tasks, outcomes, answers, decides>>

asks == Cardinality(asked)
Client(q) == (CHOOSE a \in asked : a.id = q).client
Home(q) == (CHOOSE a \in asked : a.id = q).node
Asked(q) == \E a \in asked : a.id = q

(* A Redis command of an operation: what it is, the request, the verdict   *)
(* and number of the decision, and the document read or to be written.     *)
Step(kind, q, verdict, n) ==
  [kind |-> kind, id |-> q, verdict |-> verdict, n |-> n, replied |-> FALSE,
   doc |-> [r \in Requests |-> "absent"]]

(* A broker's connection answers its commands in order.                    *)
Send(b, step) == pipes' = [pipes EXCEPT ![b] = Append(@, step)]
Continue(b, step) == pipes' = [pipes EXCEPT ![b] = Append(Tail(@), step)]
Done(b) == pipes' = [pipes EXCEPT ![b] = Tail(@)]

AuthInit ==
  /\ shared \in BOOLEAN
  /\ asked = {}
  /\ status = [b \in AuthBrokers |-> [q \in Requests |-> "absent"]]
  /\ mapped = [b \in AuthBrokers |-> {}]
  /\ latest = [b \in AuthBrokers |-> [c \in AskingClients |-> 0]]
  /\ authDoc = [q \in Requests |-> "absent"]
  /\ pipes = [b \in AuthBrokers |-> <<>>]
  /\ inbox = {} /\ tasks = {}
  /\ outcomes = [q \in Requests |-> [v \in Verdicts |-> 0]]
  /\ answers = [q \in Requests |-> [v \in Verdicts |-> 0]]
  /\ decides = 0

-----------------------------------------------------------------------------
(* saveLatestAuthorizationRequest: the client's pending request gives way. *)

GivesWay(b, c) ==
  {q \in {latest[b][c]} \ {0} : status[b][q] = "pending"}

AuthorizationRequest(b, c) ==
  LET q == asks + 1 IN
  /\ asks < MaxAsks
  /\ shared \/ \A a \in asked : a.node = b
  /\ Cardinality({r \in Requests : status[b][r] = "pending"}) < MaxPending
  /\ asked' = asked \cup {[id |-> q, client |-> c, node |-> b]}
  /\ status' = [status EXCEPT ![b] = [r \in Requests |->
                  IF r = q THEN "pending"
                  ELSE IF r \in GivesWay(b, c) THEN "superseded" ELSE @[r]]]
  /\ mapped' = [mapped EXCEPT ![b] = (@ \ GivesWay(b, c)) \cup {q}]
  /\ latest' = [latest EXCEPT ![b][c] = q]
  /\ IF shared THEN Send(b, Step("mirror", q, "none", q)) ELSE UNCHANGED pipes
  /\ UNCHANGED <<shared, authDoc, inbox, tasks, outcomes, answers, decides>>

(* AUTHORIZATION_DECIDE: lookupAuthorizationRequest is asynchronous even   *)
(* without a cluster; then it resolves to the object in memory.            *)
AuthorizationDecide(b, q, v) ==
  LET n == decides + 1 IN
  /\ decides < MaxDecides /\ Asked(q)
  /\ decides' = n
  /\ \/ shared /\ Send(b, Step("lookup", q, v, n)) /\ UNCHANGED tasks
     \/ /\ ~shared /\ q \in mapped[b]
        /\ tasks' = tasks \cup {<<b, Step("claim", q, v, n)>>}
        /\ UNCHANGED pipes
  /\ UNCHANGED <<shared, asked, status, mapped, latest, authDoc, inbox,
                 outcomes, answers>>

(* onAuthDecision: a broker ignores what it published itself.              *)
Listeners(b) == AuthBrokers \ {b}

(* Redis carries out the first command of a broker that it has not         *)
(* answered: getAuthRequests, putAuthRequests, claimNonce or               *)
(* publishAuthDecision.                                                    *)
Redis(b) ==
  \E i \in DOMAIN pipes[b] :
    LET step == pipes[b][i] IN
    /\ ~step.replied /\ \A j \in 1..(i - 1) : pipes[b][j].replied
    /\ pipes' = [pipes EXCEPT ![b][i] =
          [step EXCEPT !.replied = TRUE,
             !.doc = IF step.kind \in {"mirror", "lookup", "persist"}
                     THEN authDoc ELSE @]]
    /\ authDoc' = IF step.kind \in {"mirrored", "persisted"} THEN step.doc
                  ELSE authDoc
    /\ inbox' = IF step.kind = "publish"
                THEN inbox \cup {<<p, step.id, step.verdict, step.n>> :
                                    p \in Listeners(b)}
                ELSE inbox
    /\ UNCHANGED <<shared, asked, status, mapped, latest, tasks, outcomes,
                   answers, decides>>

Replied(b, kind) ==
  pipes[b] # <<>> /\ Head(pipes[b]).kind = kind /\ Head(pipes[b]).replied

unchangedByCluster == <<shared, asked, mapped, latest, authDoc, inbox, decides>>
unchangedByReply == <<unchangedByCluster, status, tasks, outcomes, answers>>

(* mirrorAuthRequestToCluster, with the document it has read.              *)
MirrorAuthRequest(b) ==
  LET step == Head(pipes[b])
      doc == [r \in Requests |->
                IF r = step.id THEN status[b][r]
                ELSE IF step.doc[r] = "pending" /\ Client(r) = Client(step.id)
                THEN "superseded" ELSE step.doc[r]]
  IN /\ Replied(b, "mirror")
     /\ Continue(b, [Step("mirrored", step.id, "none", step.n) EXCEPT !.doc = doc])
     /\ UNCHANGED unchangedByReply

(* The decision: the request is looked up, then its proof is claimed.      *)
LookedUp(b) ==
  LET step == Head(pipes[b]) IN
  /\ Replied(b, "lookup")
  /\ IF step.doc[step.id] = "absent" /\ step.id \notin mapped[b] THEN Done(b)
     ELSE Continue(b, [step EXCEPT !.kind = "claim", !.replied = FALSE])
  /\ UNCHANGED unchangedByReply

(* Mutant: only a peer tells the client. *)
LocalNever(b, q) == FALSE
LocalRequester(b, q) == ~shared \/ Home(q) = b

(* A request found in the document is a copy of its own; else it is the    *)
(* object in memory.                                                       *)
(* Mutant: the status is that of the lookup. *)
FoundBefore(b, step) ==
  IF step.doc[step.id] # "absent" THEN step.doc[step.id] ELSE "pending"

Found(b, step) ==
  IF step.doc[step.id] # "absent" THEN step.doc[step.id] ELSE status[b][step.id]

(* Approval adds the token and persists the settings (ClusterSettings).    *)
CarryOut(b, step) ==
  LET q == step.id IN
  /\ Found(b, step) = "pending"
  /\ outcomes' = [outcomes EXCEPT ![q][step.verdict] = @ + 1]
  /\ answers' = IF LocalRequester(b, q)
                THEN [answers EXCEPT ![q][step.verdict] = @ + 1] ELSE answers
  /\ status' = IF step.doc[q] = "absent" \/ q \in mapped[b]
               THEN [status EXCEPT ![b][q] = step.verdict] ELSE status

RefuseDecision(b) ==
  /\ Replied(b, "claim") /\ Found(b, Head(pipes[b])) # "pending"
  /\ Done(b)
  /\ UNCHANGED unchangedByReply

CarryOutDecision(b) ==
  /\ Replied(b, "claim")
  /\ CarryOut(b, Head(pipes[b]))
  /\ LET step == Head(pipes[b])
     IN Continue(b, Step("persist", step.id, step.verdict, step.n))
  /\ UNCHANGED <<unchangedByCluster, tasks>>

(* Without a cluster the same, on the object in memory.                    *)
DecideAlone(task) ==
  /\ tasks' = tasks \ {task}
  /\ \/ CarryOut(task[1], task[2])
     \/ Found(task[1], task[2]) # "pending" /\ UNCHANGED <<status, outcomes, answers>>
  /\ UNCHANGED <<unchangedByCluster, pipes>>

(* persistAuthDecisionToCluster: read, change, write, then announce.       *)
PersistDecision(b) ==
  LET step == Head(pipes[b]) IN
  /\ \/ /\ Replied(b, "persist")
        /\ Continue(b, [step EXCEPT !.kind = "persisted", !.replied = FALSE,
                                    !.doc[step.id] = step.verdict])
     \/ /\ Replied(b, "persisted")
        /\ Continue(b, Step("publish", step.id, step.verdict, step.n))
     \/ (Replied(b, "mirrored") \/ Replied(b, "publish")) /\ Done(b)
  /\ UNCHANGED unchangedByReply

(* handlePeerAuthDecision *)
PeerDecision(peer) ==
  LET b == peer[1]
      q == peer[2]
      v == peer[3]
      mine == Home(q) = b
  IN /\ inbox' = inbox \ {peer}
     /\ answers' = IF mine THEN [answers EXCEPT ![q][v] = @ + 1] ELSE answers
     /\ status' = IF mine /\ q \in mapped[b]
                  THEN [status EXCEPT ![b][q] = v] ELSE status
     /\ UNCHANGED <<shared, asked, mapped, latest, authDoc, pipes, tasks,
                    outcomes, decides>>

AuthNext ==
  \/ \E b \in AuthBrokers :
       \/ \E c \in AskingClients : AuthorizationRequest(b, c)
       \/ \E q \in Requests, v \in Verdicts : AuthorizationDecide(b, q, v)
       \/ Redis(b) \/ MirrorAuthRequest(b) \/ LookedUp(b)
       \/ RefuseDecision(b) \/ CarryOutDecision(b) \/ PersistDecision(b)
  \/ \E task \in tasks : DecideAlone(task)
  \/ \E peer \in inbox : PeerDecision(peer)

AuthSpec == AuthInit /\ [][AuthNext]_authVars

-----------------------------------------------------------------------------

AuthTypeOK ==
  /\ shared \in BOOLEAN
  /\ asked \subseteq [id : Requests, client : AskingClients, node : AuthBrokers]
  /\ status \in [AuthBrokers -> [Requests -> Statuses]]
  /\ mapped \in [AuthBrokers -> SUBSET Requests]
  /\ latest \in [AuthBrokers -> [AskingClients -> 0..MaxAsks]]
  /\ authDoc \in [Requests -> Statuses]
  /\ decides \in 0..MaxDecides

Decisions(q) == outcomes[q]["approved"] + outcomes[q]["rejected"]

AuthQuiet == inbox = {} /\ tasks = {} /\ \A b \in AuthBrokers : pipes[b] = <<>>

(* A broker alone decides a request once, and never one that a later       *)
(* request of the client superseded, however many decisions are on their   *)
(* way (tests/phase1-auth-realms.test.js:654, "keeps only the latest       *)
(* pending copy"): AUTHORIZATION_DECIDE tests the status of the shared     *)
(* object after the asynchronous lookup and claim.                         *)
DecidedOnceAlone ==
  ~shared => \A q \in Requests :
    /\ Decisions(q) <= 1
    /\ \A b \in AuthBrokers : status[b][q] = "superseded" => Decisions(q) = 0

(* The client is told of every decision exactly once, by whichever broker  *)
(* holds its socket (isLocalRequester, handlePeerAuthDecision).            *)
ToldOfEveryDecision ==
  /\ \A q \in Requests, v \in Verdicts : answers[q][v] <= outcomes[q][v]
  /\ AuthQuiet => answers = outcomes

(* README.md:205: "authorization requests can be decided from any node".   *)
(* When nothing is under way, a request that is pending where it was made  *)
(* is in the document the other brokers look it up in.                     *)
DecidableFromAnyNode ==
  shared /\ AuthQuiet =>
    \A a \in asked : status[a.node][a.id] = "pending" /\ a.id \in mapped[a.node]
                     => authDoc[a.id] \in {"pending", "superseded"}

(* A decision is carried out once and the client that asked is told of it,  *)
(* on whichever broker it was taken (AUTHORIZATION_DECIDE, peer decisions). *)
DecisionsAreTold == DecidedOnceAlone /\ ToldOfEveryDecision
=============================================================================
