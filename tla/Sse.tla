-------------------------------- MODULE Sse ---------------------------------
(***************************************************************************)
(* Server-sent events over HTTP: POST /pub, POST /sub-ticket and GET /sub  *)
(* (lib/server.js: handleHttpPublishRequest, handleHttpSubscribeRequest,   *)
(* openSseStream, replaySseHistory and the registry of sinks).             *)
(*                                                                         *)
(* The stream is that of one realm and event.  A frame is its position in  *)
(* the order of publication.  A client that reconnects sends the id of the *)
(* last frame it received; the broker then replays the history it keeps of *)
(* guaranteed messages, holds back the live frames meanwhile, and goes     *)
(* live.  The history is written to the message store: at once by the      *)
(* memory and SQLite stores, in two round trips by the Redis store, which  *)
(* orders what it holds by millisecond and then by a random id.  Rows of   *)
(* the history outlive the behaviours here (their TTL is a day).           *)
(***************************************************************************)
EXTENDS Naturals, Sequences, FiniteSets, SequencesExt, Subsequences

CONSTANTS Clients,         \* EventSource clients, all behind one address
          SseTickets,      \* tickets POST /sub-ticket can issue
          HistoryStores,   \* the message stores: "memory" (or SQLite), "redis"
          SseCap,          \* the lower of SSE_MAX_PER_REALM, SSE_MAX_PER_IP
          ReplayMax,       \* SSE_REPLAY_MAX_MESSAGES
          PendingMax,      \* SSE_MAX_PENDING_BYTES, in frames
          MaxPublished, MaxInRedis, MaxConnects, MaxMillis,  \* bounds, the
          MaxEvents        \* last one of frames and connections together

ASSUME SseAssumption ==
  /\ HistoryStores \subseteq {"memory", "redis"}
  /\ SseCap \in Nat \ {0} /\ ReplayMax \in Nat \ {0} /\ PendingMax \in Nat \ {0}

VARIABLES
  historyStore, \* the message store of this broker
  published,  \* by frame, whether its message is guaranteed
  millis,     \* the broker's clock
  hist,       \* the index of the SSE history: frames and their score, in order
  adding,     \* rows of the history that Redis has not indexed yet
  sinks,      \* by client, its connection
  sinkCount,  \* sseCountByRealm and sseCountByIp
  sseTickets, \* tickets issued and not consumed
  got,        \* by client, the frames it received, in order
  connects,
  excused     \* history: clients told that their catch-up was truncated

sseVars == <<historyStore, published, millis, hist, adding, sinks, sinkCount, sseTickets,
             got, connects, excused>>

(* phase: validateToken is running, the stream is replaying, live, ended   *)
(* by the broker, or there is none.  `there': the client's side is open.   *)
(* `sent' are the frames written in this connection, of which the client   *)
(* has received the first `read'; the last `queued' fill the broker's      *)
(* write buffer.                                                           *)
Closed == [phase |-> "none", there |-> FALSE, registered |-> FALSE,
           resume |-> 0, buffer |-> <<>>, sent |-> <<>>, read |-> 0,
           queued |-> 0]
LastSeen(c) == IF got[c] = <<>> THEN 0 ELSE Last(got[c])
Guaranteed(f) == published[f]
RedisHistory == historyStore = "redis"

SseInit ==
  /\ historyStore \in HistoryStores
  /\ published = <<>> /\ millis = 0 /\ hist = <<>> /\ adding = {}
  /\ sinks = [c \in Clients |-> Closed] /\ sinkCount = 0
  /\ sseTickets = {} /\ connects = 0
  /\ got = [c \in Clients |-> <<>>] /\ excused = {}

(* The clock matters to the scores of the Redis index only.                *)
SseTick ==
  /\ RedisHistory
  /\ millis < MaxMillis /\ millis' = millis + 1
  /\ UNCHANGED <<historyStore, published, hist, adding, sinks, sinkCount, sseTickets, got,
                 connects, excused>>

-----------------------------------------------------------------------------
(* The registry of sinks *)

(* removeSseSink: counts down only what was in the registry.               *)
(* Mutant: it counts down each time. *)
UncountedAlways(n, s) == IF n = 0 THEN 0 ELSE n - 1
Uncounted(n, s) == IF s.registered THEN n - 1 ELSE n

RemoveSseSink(s) == [s EXCEPT !.registered = FALSE]
DropSseSink(s) == [RemoveSseSink(s) EXCEPT !.phase = "ended"]

(* writeSseChunk: a reader too slow for its buffer is dropped.             *)
WriteSseChunk(s, f) ==
  IF ~s.registered THEN s
  ELSE IF s.queued + 1 > PendingMax THEN DropSseSink(s)
  ELSE [s EXCEPT !.sent = Append(@, f), !.queued = @ + 1]

(* writeSseSink: live frames wait while the history is being replayed.     *)
WriteSseSink(s, f) ==
  IF ~s.registered THEN s
  ELSE IF s.phase = "replaying"
  THEN IF Len(s.buffer) + 1 > ReplayMax
       THEN DropSseSink(s)
       ELSE [s EXCEPT !.buffer = Append(@, f)]
  ELSE WriteSseChunk(s, f)

(* Sinks that turn from registered to not take their count with them.      *)
CountAfter(new) ==
  LET gone == {c \in Clients : sinks[c].registered /\ ~new[c].registered}
  IN sinkCount - Cardinality(gone)

-----------------------------------------------------------------------------
(* Publishing *)

(* A row in the index of the store: at the end, or for Redis after every   *)
(* lower score and anywhere among the equal ones.                          *)
Indexed(h, row) ==
  {InsertAt(h, n, row) : n \in {k \in 1..(Len(h) + 1) :
     /\ \A j \in 1..(k - 1) : h[j].score <= row.score
     /\ \A j \in k..Len(h) : RedisHistory /\ h[j].score >= row.score}}

(* routeProducedMessage, from POST /pub or the socket's PRODUCE: to the    *)
(* sinks first, then, if guaranteed, into the history.                     *)
SsePublish(g) ==
  LET f == Len(published) + 1
      new == [c \in Clients |-> WriteSseSink(sinks[c], f)]
      row == [frame |-> f, score |-> millis]
  IN /\ f <= IF RedisHistory THEN MaxInRedis ELSE MaxPublished
     /\ connects + f <= MaxEvents
     /\ published' = Append(published, g)
     /\ sinks' = new
     /\ sinkCount' = CountAfter(new)
     /\ \/ ~g /\ UNCHANGED <<hist, adding>>
        \/ g /\ RedisHistory /\ adding' = adding \cup {row} /\ UNCHANGED hist
        \/ g /\ ~RedisHistory /\ hist' \in Indexed(hist, row)
             /\ UNCHANGED adding
     /\ UNCHANGED <<historyStore, millis, sseTickets, got, connects, excused>>

(* RedisStore.enqueue: ZADD follows SET and PEXPIREAT.                     *)
ZAdd(row) ==
  /\ row \in adding
  /\ adding' = adding \ {row}
  /\ hist' \in Indexed(hist, row)
  /\ UNCHANGED <<historyStore, published, millis, sinks, sinkCount, sseTickets, got,
                 connects, excused>>

-----------------------------------------------------------------------------
(* Subscribing *)

(* POST /sub-ticket, and the sweep that removes expired tickets.           *)
IssueSseTicket(t) ==
  /\ t \notin sseTickets
  /\ sseTickets' = sseTickets \cup {t}
  /\ UNCHANGED <<historyStore, published, millis, hist, adding, sinks, sinkCount, got,
                 connects, excused>>

SweepSseTickets(t) ==
  /\ t \in sseTickets
  /\ sseTickets' = sseTickets \ {t}
  /\ UNCHANGED <<historyStore, published, millis, hist, adding, sinks, sinkCount, got,
                 connects, excused>>

(* `proceed' and openSseStream.  A client that has gone meanwhile is       *)
(* registered too: the write to its response then fails, and the handlers  *)
(* of `error' remove the sink.                                             *)
Opened(s) ==
  [s EXCEPT !.phase = IF s.resume = 0 THEN "live" ELSE "replaying",
            !.registered = TRUE]
Proceed(c, s) ==
  IF sinkCount >= SseCap
  THEN /\ sinks' = [sinks EXCEPT ![c] = Closed]
       /\ UNCHANGED sinkCount
  ELSE /\ sinks' = [sinks EXCEPT ![c] = Opened(s)]
       /\ sinkCount' = sinkCount + 1

(* GET /sub with Last-Event-ID: with a ticket, which is consumed whatever  *)
(* follows, or with a bearer token, which is validated first.              *)
Requested(c) == [Closed EXCEPT !.there = TRUE, !.resume = LastSeen(c)]

SubscribeByTicket(c, t) ==
  /\ sinks[c] = Closed /\ connects < MaxConnects
  /\ connects + Len(published) < MaxEvents
  /\ t \in sseTickets
  /\ sseTickets' = sseTickets \ {t}
  /\ connects' = connects + 1
  /\ Proceed(c, Requested(c))
  /\ UNCHANGED <<historyStore, published, millis, hist, adding, got, excused>>

SubscribeByToken(c) ==
  /\ sinks[c] = Closed /\ connects < MaxConnects
  /\ connects + Len(published) < MaxEvents
  /\ connects' = connects + 1
  /\ sinks' = [sinks EXCEPT ![c] = [Requested(c) EXCEPT !.phase = "validating"]]
  /\ UNCHANGED <<historyStore, published, millis, hist, adding, sinkCount, sseTickets, got,
                 excused>>

TokenValidated(c) ==
  /\ sinks[c].phase = "validating"
  /\ \/ Proceed(c, sinks[c])
     \/ sinks' = [sinks EXCEPT ![c] = Closed] /\ UNCHANGED sinkCount
  /\ UNCHANGED <<historyStore, published, millis, hist, adding, sseTickets, got, connects,
                 excused>>

-----------------------------------------------------------------------------
(* replaySseHistory *)

(* What follows the resume id in the history, or all of it when the id is  *)
(* not there; of that the newest ReplayMax.                                *)
(* Mutant: an unknown id replays nothing. *)
AfterResumeNothing(h, r) ==
  LET at == {n \in DOMAIN h : h[n].frame = r}
  IN IF at = {} THEN <<>> ELSE SubSeq(h, (CHOOSE n \in at : TRUE) + 1, Len(h))
AfterResume(h, r) ==
  LET at == {n \in DOMAIN h : h[n].frame = r}
  IN IF at = {} THEN h ELSE SubSeq(h, (CHOOSE n \in at : TRUE) + 1, Len(h))

Newest(q) == SubSeq(q, IF Len(q) > ReplayMax THEN Len(q) - ReplayMax + 1
                                             ELSE 1, Len(q))

(* goLive: the frames held back, without those the replay covered.         *)
(* Mutant: frames that were replayed are written again. *)
HeldBackAll(s, frames) == s.buffer
HeldBack(s, frames) ==
  Picked(s.buffer, {n \in DOMAIN s.buffer : s.buffer[n] \notin Range(frames)})

WriteAll(s, fs) ==
  LET after[n \in 0..Len(fs)] ==
        IF n = 0 THEN s ELSE WriteSseChunk(after[n - 1], fs[n])
  IN after[Len(fs)]

(* The dequeue of the history answers, or fails: then nothing is replayed. *)
ReplaySseHistory(c) ==
  LET s == sinks[c]
      after == AfterResume(hist, s.resume)
      Live(frames, held) ==
        LET written == WriteAll(s, frames \o held) IN
        [s EXCEPT !.buffer = <<>>,
                  !.sent = written.sent, !.queued = written.queued,
                  !.registered = written.registered,
                  !.phase = IF written.registered THEN "live"
                                                  ELSE written.phase]
      frames == [n \in DOMAIN Newest(after) |-> Newest(after)[n].frame]
  IN /\ s.phase = "replaying" /\ s.registered
     /\ \/ /\ sinks' = [sinks EXCEPT ![c] = Live(frames, HeldBack(s, frames))]
           /\ excused' = IF Len(after) > ReplayMax THEN excused \cup {c}
                                                   ELSE excused
        \/ /\ sinks' = [sinks EXCEPT ![c] = Live(<<>>, s.buffer)]
           /\ excused' = excused \cup {c}
     /\ sinkCount' = CountAfter(sinks')
     /\ UNCHANGED <<historyStore, published, millis, hist, adding, sseTickets, got, connects>>

-----------------------------------------------------------------------------
(* The connection *)

(* The callback of res.write.                                              *)
Flush(c) ==
  /\ sinks[c].queued > 0 /\ sinks[c].there
  /\ sinks' = [sinks EXCEPT ![c].queued = @ - 1]
  /\ UNCHANGED <<historyStore, published, millis, hist, adding, sinkCount, sseTickets, got,
                 connects, excused>>

(* The client reads a frame.                                               *)
Receive(c) ==
  /\ sinks[c].there /\ sinks[c].read < Len(sinks[c].sent) - sinks[c].queued
  /\ got' = [got EXCEPT ![c] = Append(@, sinks[c].sent[sinks[c].read + 1])]
  /\ sinks' = [sinks EXCEPT ![c].read = @ + 1]
  /\ UNCHANGED <<historyStore, published, millis, hist, adding, sinkCount, sseTickets,
                 connects, excused>>

(* The client leaves, or finds the stream ended and read to its end.       *)
Depart(c) ==
  /\ sinks[c].there
  /\ sinks' = [sinks EXCEPT ![c].there = FALSE]
  /\ UNCHANGED <<historyStore, published, millis, hist, adding, sinkCount, sseTickets, got,
                 connects, excused>>

(* `close' and `error' of request and response: removeSseSink, each time.  *)
Cleanup(c) ==
  LET s == sinks[c] IN
  /\ ~s.there /\ s.phase \in {"live", "replaying", "ended"}
  /\ sinkCount' = Uncounted(sinkCount, s)
  /\ sinks' = [sinks EXCEPT ![c] = IF s.registered THEN RemoveSseSink(s)
                                                   ELSE Closed]
  /\ UNCHANGED <<historyStore, published, millis, hist, adding, sseTickets, got, connects,
                 excused>>

SseNext ==
  \/ SseTick
  \/ \E g \in BOOLEAN : SsePublish(g)
  \/ \E row \in adding : ZAdd(row)
  \/ \E t \in SseTickets : IssueSseTicket(t) \/ SweepSseTickets(t)
  \/ \E c \in Clients :
       \/ \E t \in SseTickets : SubscribeByTicket(c, t)
       \/ SubscribeByToken(c) \/ TokenValidated(c) \/ ReplaySseHistory(c)
       \/ Flush(c) \/ Receive(c) \/ Depart(c) \/ Cleanup(c)

SseSpec == SseInit /\ [][SseNext]_sseVars

-----------------------------------------------------------------------------
(* removeSseSink runs once for each of the events of a connection and once *)
(* more when the broker drops a slow reader: the count the caps are        *)
(* compared with stays the number of registered streams.                   *)
CapsCountStreams ==
  sinkCount = Cardinality({c \in Clients : sinks[c].registered})

(* "a message racing the replay boundary appears exactly once": no frame   *)
(* is written twice to one connection, though the replay and the frames    *)
(* held back during it overlap.                                            *)
OncePerConnection == \A c \in Clients : IsInjective(sinks[c].sent)

(* Resuming leaves no gap ("so the replay->live boundary has no gap"): a   *)
(* client that follows the stream live has been sent every guaranteed      *)
(* message published after the first frame it received, over all its       *)
(* connections, whatever it lost on the way, unless the broker told it     *)
(* that the catch-up was cut short, or logged that it could not be read.   *)
ResumeLeavesNoGap ==
  \A c \in Clients \ excused :
    (sinks[c].phase = "live" /\ sinks[c].registered /\ got[c] # <<>>) =>
      \A f \in (got[c][1])..Len(published) :
        Guaranteed(f) => f \in Range(got[c]) \cup Range(sinks[c].sent)

(* The same where the history is written in the step that publishes: with  *)
(* the memory and SQLite stores.                                           *)
NoGapInOneStep == ~RedisHistory => ResumeLeavesNoGap

(* What a stream is sent is whole and counted, however often the client     *)
(* resumes and however its events are ordered (openSseStream,               *)
(* replaySseHistory, removeSseSink).                                        *)
StreamsAreWhole == CapsCountStreams /\ OncePerConnection /\ NoGapInOneStep
=============================================================================
