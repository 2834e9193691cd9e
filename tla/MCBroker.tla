------------------------------ MODULE MCBroker ------------------------------
(***************************************************************************)
(* The services of one broker that keep state of their own.  In these      *)
(* models they share none, so a behaviour of all of them together is, for  *)
(* each one, a behaviour of that one alone: a run explores them one at a   *)
(* time, the one that `part' names, as in MCCluster.                       *)
(***************************************************************************)
EXTENDS Prekeys, Tickets, Push, PushTransports, MCLimits, Chunks, Notify,
        Realms, Sse, RedisStore

CONSTANTS s1, s2, i1, i2, r1, r2, e2

\* Two transfers of one socket, and one of them by the name of another's.
MCTransfers == {<<s1, i1>>, <<s1, i2>>, <<s2, i1>>}

VARIABLE part

Parts == {"prekeys", "chat", "remote", "push", "fcm", "apns", "limits",
          "chunks", "topics", "boards", "rotation", "joins", "streams",
          "store"}

BrokerInit ==
  /\ part \in Parts
  /\ PrekeyInit /\ TicketInit /\ TransportInit /\ LimitInit /\ ChunkInit
  /\ PushInit /\ (part # "push" => registry = "wake")
  /\ NotifyInit /\ (part # "topics" => stamp = [p \in Proofs |-> 0])
  /\ RealmInit /\ (part # "joins" => realmStore = "memory")
  /\ RedisInit
  /\ SseInit /\ (part # "streams" => historyStore = "memory")

BrokerNext ==
  /\ UNCHANGED part
  /\ \/ /\ part = "prekeys" /\ PrekeyNext
        /\ UNCHANGED <<ticketVars, pushVars, transportVars, limitVars,
                       chunkVars, notifyVars, realmVars, sseVars,
                       redisVars>>
     \/ /\ part = "chat" /\ ChatNext
        /\ UNCHANGED <<prekeyVars, pushVars, transportVars, limitVars,
                       chunkVars, notifyVars, realmVars, sseVars,
                       redisVars>>
     \/ /\ part = "remote" /\ RemoteNext
        /\ UNCHANGED <<prekeyVars, pushVars, transportVars, limitVars,
                       chunkVars, notifyVars, realmVars, sseVars,
                       redisVars>>
     \/ /\ part = "push" /\ PushNext
        /\ UNCHANGED <<prekeyVars, ticketVars, transportVars, limitVars,
                       chunkVars, notifyVars, realmVars, sseVars,
                       redisVars>>
     \/ /\ part = "fcm" /\ FcmNext
        /\ UNCHANGED <<prekeyVars, ticketVars, pushVars, limitVars,
                       chunkVars, notifyVars, realmVars, sseVars,
                       redisVars>>
     \/ /\ part = "apns" /\ ApnsNext
        /\ UNCHANGED <<prekeyVars, ticketVars, pushVars, limitVars,
                       chunkVars, notifyVars, realmVars, sseVars,
                       redisVars>>
     \/ /\ part = "limits" /\ LimitNext
        /\ UNCHANGED <<prekeyVars, ticketVars, pushVars, transportVars,
                       chunkVars, notifyVars, realmVars, sseVars,
                       redisVars>>
     \/ /\ part = "chunks" /\ ChunkNext
        /\ UNCHANGED <<prekeyVars, ticketVars, pushVars, transportVars,
                       limitVars, notifyVars, realmVars, sseVars,
                       redisVars>>
     \/ /\ part = "topics" /\ TopicNext
        /\ UNCHANGED <<prekeyVars, ticketVars, pushVars, transportVars,
                       limitVars, chunkVars, realmVars, sseVars, redisVars>>
     \/ /\ part = "boards" /\ BoardNext
        /\ UNCHANGED <<prekeyVars, ticketVars, pushVars, transportVars,
                       limitVars, chunkVars, realmVars, sseVars, redisVars>>
     \/ /\ part = "rotation" /\ RotateNext
        /\ UNCHANGED <<prekeyVars, ticketVars, pushVars, transportVars,
                       limitVars, chunkVars, notifyVars, sseVars,
                       redisVars>>
     \/ /\ part = "joins" /\ JoinNext
        /\ UNCHANGED <<prekeyVars, ticketVars, pushVars, transportVars,
                       limitVars, chunkVars, notifyVars, sseVars,
                       redisVars>>
     \/ /\ part = "streams" /\ SseNext
        /\ UNCHANGED <<prekeyVars, ticketVars, pushVars, transportVars,
                       limitVars, chunkVars, notifyVars, realmVars,
                       redisVars>>
     \/ /\ part = "store" /\ RedisNext
        /\ UNCHANGED <<prekeyVars, ticketVars, pushVars, transportVars,
                       limitVars, chunkVars, notifyVars, realmVars,
                       sseVars>>

brokerVars == <<part, prekeyVars, ticketVars, pushVars, transportVars,
                      limitVars, chunkVars, notifyVars, realmVars, sseVars,
                      redisVars>>
BrokerSpec == BrokerInit /\ [][BrokerNext]_brokerVars

-----------------------------------------------------------------------------
(* What the runs leave out.  Chat needs four tickets to pass its cap, and  *)
(* remote sessions do with three.                                          *)
ThreePasses == part = "remote" => issued <= 3

(* Over Redis realms end by a command, with the other stores also by the   *)
(* sweep, which does the same.                                             *)
EndedByCommand == realmStore = "redis" => rclock = 0

(* The two realms have interchangeable names, and so have the two clients  *)
(* of streams: what begins with the second one is not explored again.      *)
FirstRealm == config[r2].exists => config[r1].exists \/ ended[r1] > 0
FirstClient == connects = 1 => sinks[e2] = Closed
=============================================================================
