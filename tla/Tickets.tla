------------------------------- MODULE Tickets -------------------------------
(***************************************************************************)
(* One-shot capabilities of the broker.  Attachment tickets of the secure  *)
(* chat: CHAT_TICKET_REQUEST issues, the HTTP endpoint verify-ticket       *)
(* redeems (lib/chat-ticket-store.js).  Tickets of the /remote namespace:  *)
(* REMOTE_TICKET_REQUEST issues, `auth' on the namespace redeems and puts  *)
(* the socket in a session as its agent or as a viewer                     *)
(* (lib/remote-namespace.js).                                              *)
(*                                                                         *)
(* Tickets are numbered as they are issued.  Time is counted in steps.     *)
(***************************************************************************)
EXTENDS Naturals, Sequences, FiniteSets, FiniteSetsExt

CONSTANTS
  ChatSessions, Refs, NoRef,
  Ttl,             \* ttlMs
  WindowMs,        \* windowMs
  UploadCap,       \* uploadCapPerWindow
  MaxTickets,      \* maxTickets
  RemoteSessions, RemoteSockets, NoAgent,
  MaxClock,        \* bound: the clock
  MaxIssued        \* bound: tickets issued

ASSUME TicketAssumption ==
  /\ {UploadCap, WindowMs} \subseteq Nat \ {0}
  /\ {Ttl, MaxTickets, MaxClock, MaxIssued} \subseteq Nat
  /\ NoAgent \notin RemoteSockets

VARIABLES
  clock,
  tickets,       \* ChatTicketStore._tickets
  uploads,       \* by session: ChatTicketStore._sessions
  minted,        \* by session: times at which upload tickets were issued
  redeemed,      \* tickets redeemed, with the number of times
  alive,         \* history: tickets issued that have not expired
  issued,        \* tickets issued
  passes,        \* /remote: tickets
  sessions,      \* /remote: sessions, agent and viewers
  seats,         \* /remote: by socket, its remoteSession and role
  muddled        \* history: sessions that got another agent while they had
                 \* one, or that a socket left by an `auth' for another seat

ticketVars == <<clock, tickets, uploads, minted, redeemed, alive, issued,
                passes, sessions, seats, muddled>>
remoteVars == <<passes, sessions, seats, muddled>>
chatVars == <<tickets, uploads, minted, redeemed, alive>>

NoSession == [agent |-> NoAgent, viewers |-> {}]
NoSeat == <<>>

TicketInit ==
  /\ clock = 0
  /\ tickets = {} /\ alive = {} /\ issued = 0
  /\ uploads = [s \in ChatSessions |-> [count |-> 0, start |-> 0]]
  /\ minted = [s \in ChatSessions |-> <<>>]
  /\ redeemed = [n \in 1..MaxIssued |-> 0]
  /\ passes = {}
  /\ sessions = [r \in RemoteSessions |-> NoSession]
  /\ seats = [k \in RemoteSockets |-> NoSeat]
  /\ muddled = {}

TicketTick ==
  /\ clock < MaxClock
  /\ clock' = clock + 1
  /\ alive' = {t \in alive : clock < t.exp}
  /\ UNCHANGED <<tickets, uploads, minted, redeemed, remoteVars, issued>>

-----------------------------------------------------------------------------
(* ChatTicketStore *)

Swept == {t \in tickets : clock <= t.exp}

(* The session's window, started anew when it is over.                     *)
(* Mutant: every request starts one. *)
WindowAnew(s) == [count |-> 0, start |-> clock]
Window(s) ==
  IF uploads[s].count = 0 \/ clock - uploads[s].start >= WindowMs
  THEN [count |-> 0, start |-> clock] ELSE uploads[s]

OverCap(s) == Window(s).count >= UploadCap

(* The store is full: it is swept, and refuses if that does not help.      *)
Room == IF Cardinality(tickets) >= MaxTickets THEN Swept ELSE tickets

ChatIssue(s, op, ref) ==
  LET upload == op = "upload" IN
  /\ issued < MaxIssued
  /\ upload => ref = NoRef /\ ~OverCap(s)
  /\ op = "download" => ref # NoRef
  /\ uploads' = IF upload
                THEN [uploads EXCEPT ![s] = [Window(s) EXCEPT !.count = @ + 1]]
                ELSE uploads
  /\ \/ /\ Cardinality(Room) < MaxTickets
        /\ issued' = issued + 1
        /\ LET ticket == [id |-> issued + 1, op |-> op, ref |-> ref,
                          exp |-> clock + Ttl]
           IN tickets' = Room \cup {ticket} /\ alive' = alive \cup {ticket}
        /\ minted' = IF upload THEN [minted EXCEPT ![s] = Append(@, clock)]
                     ELSE minted
     \/ /\ Cardinality(Room) >= MaxTickets
        /\ tickets' = Room
        /\ UNCHANGED <<issued, minted, alive>>
  /\ UNCHANGED <<clock, redeemed, remoteVars>>

(* Mutant: a probe that does not match burns the ticket. *)
ConsumedByAny(t, op, ref) == {t}
Consumed(t, op, ref) ==
  IF t.op = op /\ (op = "download" => t.ref = ref) THEN {t} ELSE {}

(* verify: sweeps, and consumes the ticket if op and ref match.            *)
ChatVerify(n, op, ref) ==
  LET live == {t \in Swept : t.id = n}
      used == UNION {Consumed(t, op, ref) : t \in live}
      valid == {t \in used : t.op = op /\ (op = "download" => t.ref = ref)}
  IN /\ n <= issued
     /\ tickets' = Swept \ used
     /\ redeemed' = [redeemed EXCEPT ![n] = @ + Cardinality(valid)]
     /\ UNCHANGED <<clock, uploads, minted, alive, issued, remoteVars>>

-----------------------------------------------------------------------------
(* The /remote namespace *)

RemoteIssue(r, role) ==
  /\ issued < MaxIssued
  /\ issued' = issued + 1
  /\ passes' = passes \cup
       {[id |-> issued + 1, session |-> r, role |-> role, exp |-> clock + Ttl]}
  /\ UNCHANGED <<clock, chatVars, sessions, seats, muddled>>

(* The timer of a ticket, after it has expired.                            *)
RemoteCleanup(p) ==
  /\ clock > p.exp
  /\ passes' = passes \ {p}
  /\ UNCHANGED <<clock, chatVars, issued, sessions, seats, muddled>>

Seated(s, k, role) ==
  IF role = "agent" THEN [s EXCEPT !.agent = k]
  ELSE [s EXCEPT !.viewers = @ \cup {k}]

(* Mutant: a viewer that leaves stays listed. *)
LeftKept(s, k, role) == IF role = "agent" THEN [s EXCEPT !.agent = NoAgent] ELSE s
Left(s, k, role) ==
  IF role = "agent" THEN [s EXCEPT !.agent = NoAgent]
  ELSE [s EXCEPT !.viewers = @ \ {k}]

(* `disconnect': the socket leaves the seat it was given last.             *)
Leaves(k) ==
  IF seats[k] = NoSeat THEN UNCHANGED <<sessions, seats>>
  ELSE /\ sessions' = [sessions EXCEPT ![seats[k][1]] = Left(@, k, seats[k][2])]
       /\ seats' = [seats EXCEPT ![k] = NoSeat]

(* Nothing keeps a socket from authenticating again, or a second agent     *)
(* from joining: socket.remoteSession and session.agent are overwritten.   *)
Overwrites(k, r, role) ==
  {q \in RemoteSessions :
     \/ seats[k] # NoSeat /\ seats[k] # <<r, role>> /\ q = seats[k][1]
     \/ role = "agent" /\ sessions[r].agent \notin {NoAgent, k} /\ q = r}

(* `auth': the ticket is used up even if it is for another role (or        *)
(* session), for which the socket is disconnected.                         *)
RemoteAuth(k, p, role) ==
  /\ clock <= p.exp
  /\ passes' = passes \ {p}
  /\ \/ /\ role # p.role
        /\ Leaves(k)
        /\ UNCHANGED muddled
     \/ /\ role = p.role
        /\ seats' = [seats EXCEPT ![k] = <<p.session, role>>]
        /\ sessions' = [sessions EXCEPT ![p.session] = Seated(@, k, role)]
        /\ muddled' = muddled \cup Overwrites(k, p.session, role)
  /\ UNCHANGED <<clock, chatVars, issued>>

(* The socket closes (or sends a ticket that is unknown or has expired);   *)
(* another one may take its place.                                         *)
RemoteDisconnect(k) ==
  /\ seats[k] # NoSeat
  /\ Leaves(k)
  /\ UNCHANGED <<clock, chatVars, issued, passes, muddled>>

Ops == {"upload", "download"}
Roles == {"agent", "viewer"}

ChatNext ==
  \/ TicketTick
  \/ \E s \in ChatSessions, op \in Ops, ref \in Refs \cup {NoRef} :
       ChatIssue(s, op, ref)
  \/ \E n \in 1..MaxIssued, op \in Ops, ref \in Refs \cup {NoRef} :
       ChatVerify(n, op, ref)

RemoteNext ==
  \/ TicketTick
  \/ \E r \in RemoteSessions, role \in Roles : RemoteIssue(r, role)
  \/ \E p \in passes : \/ RemoteCleanup(p)
                       \/ \E k \in RemoteSockets, role \in Roles : RemoteAuth(k, p, role)
  \/ \E k \in RemoteSockets : RemoteDisconnect(k)

TicketNext == ChatNext \/ RemoteNext
TicketSpec == TicketInit /\ [][TicketNext]_ticketVars

-----------------------------------------------------------------------------

TicketTypeOK ==
  /\ clock \in 0..MaxClock /\ issued \in 0..MaxIssued
  /\ tickets \subseteq [id : 1..MaxIssued, op : Ops, ref : Refs \cup {NoRef},
                        exp : 0..(MaxClock + Ttl)]
  /\ Cardinality(tickets) <= MaxTickets
  /\ sessions \in [RemoteSessions -> [agent : RemoteSockets \cup {NoAgent},
                                      viewers : SUBSET RemoteSockets]]
  /\ muddled \subseteq RemoteSessions

(* "DEFAULT_UPLOAD_CAP ... uploads per session per window": windows do not *)
(* slide, so any interval as long as a window has at most twice the cap,   *)
(* less the upload that opened the first of the two windows it meets       *)
(* (ChatTicketStore.issue).                                                *)
UploadsPerWindow ==
  \A s \in ChatSessions, t \in 0..MaxClock :
    Cardinality({n \in DOMAIN minted[s] :
                   minted[s][n] >= t /\ minted[s][n] < t + WindowMs})
      <= 2 * UploadCap - 1

(* "a wrong-op / wrong-ref probe can never burn a legitimate ticket, and a *)
(* redeemed ticket never verifies twice": until it expires a ticket is in  *)
(* the store, or has been redeemed, once (ChatTicketStore.verify, _sweep). *)
BurntOnlyByRedemption ==
  /\ \A n \in 1..issued : redeemed[n] <= 1
  /\ \A t \in alive : redeemed[t.id] = IF t \in tickets THEN 0 ELSE 1

(* tests/remote-namespace.test.js:505: "getSession returns live session    *)
(* state": a session lists every viewer that is connected to it; and as    *)
(* long as no agent was seated over another and none of its sockets took   *)
(* another seat, it names exactly the agent and the viewers that are       *)
(* connected (`auth' and `disconnect').                                    *)
Viewing(r) == {k \in RemoteSockets : seats[k] = <<r, "viewer">>}
NamesTheConnected(r) ==
  /\ sessions[r].viewers = Viewing(r)
  /\ \A k \in RemoteSockets : sessions[r].agent = k <=> seats[k] = <<r, "agent">>
SessionIsLive ==
  \A r \in RemoteSessions :
    /\ Viewing(r) \subseteq sessions[r].viewers
    /\ r \notin muddled => NamesTheConnected(r)

(* The same with no exception, which an agent seated over another and an   *)
(* `auth' for a second seat refute.                                        *)
EverySessionIsLive == \A r \in RemoteSessions : NamesTheConnected(r)

(* Chat tickets are capped and burnt once, and remote sessions name who is  *)
(* connected, whatever was issued, redeemed or left to expire.              *)
TicketsAreSound ==
  TicketTypeOK /\ UploadsPerWindow /\ BurntOnlyByRedemption /\ SessionIsLive
=============================================================================
