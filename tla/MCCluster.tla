------------------------------ MODULE MCCluster ------------------------------
(***************************************************************************)
(* The protocols that the brokers of a cluster run over one Redis.  They   *)
(* use different keys and channels and share no state in these models, so  *)
(* a behaviour of all of them together is, for each one, a behaviour of    *)
(* that one alone: a run explores them one at a time, the one that `part'  *)
(* names.                                                                  *)
(***************************************************************************)
EXTENDS ManagerProof, ClusterSettings, AuthRequests, ClusterRelay,
        KeyDirectory

CONSTANTS plain, durable, member1, member2

MCProfiles ==
  [c \in Subscribers |->
     [durable |-> c \in {durable, member1}, ack |-> c = durable,
      group |-> IF c \in {member1, member2} THEN Group ELSE NoGroup]]

VARIABLE part

Parts == {"proofs", "settings", "requests", "relay", "keys"}

ClusterInit ==
  /\ part \in Parts
  /\ Init /\ (part # "proofs" => stamp = [p \in Proofs |-> 0])
  /\ SettingsInit
  /\ AuthInit /\ (part # "requests" => shared)
  /\ RelayInit /\ KeyInit

ClusterNext ==
  /\ UNCHANGED part
  /\ \/ /\ part = "proofs" /\ Next
        /\ UNCHANGED <<settingsVars, authVars, relayVars, keyVars>>
     \/ /\ part = "settings" /\ SettingsNext
        /\ UNCHANGED <<vars, authVars, relayVars, keyVars>>
     \/ /\ part = "requests" /\ AuthNext
        /\ UNCHANGED <<vars, settingsVars, relayVars, keyVars>>
     \/ /\ part = "relay" /\ RelayNext
        /\ UNCHANGED <<vars, settingsVars, authVars, keyVars>>
     \/ /\ part = "keys" /\ KeyNext
        /\ UNCHANGED <<vars, settingsVars, authVars, relayVars>>

clusterVars == <<part, vars, settingsVars, authVars, relayVars, keyVars>>
ClusterSpec == ClusterInit /\ [][ClusterNext]_clusterVars

(* The state of every broker and of Redis is of its type.                  *)
ClusterTypeOK ==
  TypeOK /\ SettingsTypeOK /\ AuthTypeOK /\ RelayTypeOK /\ KeyTypeOK
=============================================================================
