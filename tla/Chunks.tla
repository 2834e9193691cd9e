------------------------------- MODULE Chunks -------------------------------
(***************************************************************************)
(* Large messages in pieces (lib/server.js: PRODUCE_CHUNK and the end of a  *)
(* connection).  The broker keeps the pieces of a transfer under the        *)
(* socket and the transfer's id, counts the pieces it takes, and produces   *)
(* the message when the count reaches the total.  The limiter may refuse    *)
(* a piece; the client sends it again when it is told.                      *)
(***************************************************************************)
EXTENDS Naturals, FiniteSets

CONSTANTS Transfers,   \* <<socket, transferId>>: keys of pendingChunks
          Total,       \* pieces of a transfer
          MaxRefused   \* bound

ASSUME ChunkAssumption == Total \in Nat \ {0}

VARIABLES
  chunkEnded,      \* transfers whose connection has ended
  toSend,     \* by transfer, the pieces the client has still to send
  pending,    \* pendingChunks: by transfer, the parts held and `received'
  assembled,  \* by transfer, how often it was handed to handleProduce
  taken,      \* history: by transfer, the pieces the broker took
  chunkRefused

chunkVars == <<chunkEnded, toSend, pending, assembled, taken, chunkRefused>>
Nothing == [parts |-> {}, received |-> 0]

ChunkInit ==
  /\ chunkEnded = {} /\ chunkRefused = 0
  /\ toSend = [x \in Transfers |-> 1..Total]
  /\ pending = [x \in Transfers |-> Nothing]
  /\ taken = [x \in Transfers |-> {}]
  /\ assembled = [x \in Transfers |-> 0]

(* transfer.received === chunk.total, before or after the count goes up.    *)
(* Mutant: the last piece is not waited for. *)
CompleteBefore(t) == t.received = Total - 1
Complete(t) == t.received = Total

(* Parts that are missing are joined as nothing, and the text does not      *)
(* parse: then the transfer is dropped.                                     *)
Parses(t) == t.parts = 1..Total

ProduceChunk(x, n) ==
  LET t == [parts |-> pending[x].parts \cup {n},
            received |-> pending[x].received + 1]
  IN /\ x \notin chunkEnded /\ n \in toSend[x]
     /\ toSend' = [toSend EXCEPT ![x] = @ \ {n}]
     /\ taken' = [taken EXCEPT ![x] = @ \cup {n}]
     /\ IF Complete(t)
        THEN /\ pending' = [pending EXCEPT ![x] = Nothing]
             /\ assembled' = [assembled EXCEPT ![x] = IF Parses(t) THEN @ + 1
                                                                   ELSE @]
        ELSE /\ pending' = [pending EXCEPT ![x] = t] /\ UNCHANGED assembled
     /\ UNCHANGED <<chunkEnded, chunkRefused>>

(* limiter.produceAllowed: the piece is not taken, the client is told.      *)
RefuseChunk(x, n) ==
  /\ x \notin chunkEnded /\ n \in toSend[x] /\ chunkRefused < MaxRefused
  /\ chunkRefused' = chunkRefused + 1
  /\ UNCHANGED <<chunkEnded, toSend, pending, assembled, taken>>

(* disconnect deletes what is kept under the socket.                        *)
EndTransfers(x) ==
  /\ x \notin chunkEnded
  /\ chunkEnded' = chunkEnded \cup {y \in Transfers : y[1] = x[1]}
  /\ pending' = [y \in Transfers |-> IF y[1] = x[1] THEN Nothing ELSE pending[y]]
  /\ UNCHANGED <<toSend, assembled, taken, chunkRefused>>

ChunkNext ==
  \E x \in Transfers :
    \/ \E n \in 1..Total : ProduceChunk(x, n) \/ RefuseChunk(x, n)
    \/ EndTransfers(x)

ChunkSpec == ChunkInit /\ [][ChunkNext]_chunkVars

(* Interleaved transfers do not disturb one another: a transfer is          *)
(* produced, once, exactly when all its pieces were taken, in whatever      *)
(* order they came and were refused.                                        *)
ProducedWhenWhole ==
  \A x \in Transfers : assembled[x] = IF taken[x] = 1..Total THEN 1 ELSE 0
=============================================================================
