--------------------------- MODULE ClusterSettings ---------------------------
(***************************************************************************)
(* The managed settings of a cluster.  Every broker works on its own copy  *)
(* (lib/settings.js) and writes it to its file and, as a whole document,   *)
(* to Redis; the others are told, fetch the document and replace their     *)
(* copy (lib/cluster.js, persistSettings, applyRemoteSettings and          *)
(* initCluster in lib/server.js).  A broker also watches its own file and  *)
(* merges it into its copy whenever the file changes.                      *)
(*                                                                         *)
(* Settings stand for the set of realms they configure: what matters is    *)
(* that a command adds or removes an entry, that `replace' drops what the  *)
(* document lacks and that `merge' cannot drop anything.                   *)
(***************************************************************************)
EXTENDS Naturals, Sequences

CONSTANTS
  Brokers,      \* the brokers of the cluster
  ManagedRealms,\* realms that commands add and remove
  Writers,      \* brokers that managers send commands to
  Crashable,    \* brokers that may stop at any moment
  ColdStart,    \* whether the cluster starts on an empty Redis
  SlowReads,    \* whether a command may come while the file is being read
  MaxCommands,  \* bound: commands
  MaxStops,     \* bound: stops of brokers
  NoDocument    \* the key in Redis does not exist

ASSUME SettingsAssumption ==
  /\ \A d \in SUBSET ManagedRealms : NoDocument # d
  /\ MaxCommands \in Nat /\ MaxStops \in Nat

VARIABLES
  copy,      \* by broker: server.settings
  file,      \* by broker: the settings file
  watched,   \* by broker: the debounce timer of the file is running
  reading,   \* by broker: content read from the file, not yet merged
  document,  \* Redis: <prefix>:settings
  requests,  \* by broker: commands on their way to Redis, in order
  owed,      \* by broker: SETs done whose PUBLISH is still to come
  told,      \* by broker: announcements of peers not yet handled
  replies,   \* by broker: documents fetched, not yet applied
  up,        \* by broker: running, with its subscription in place
  commands, stops

settingsVars == <<copy, file, watched, reading, document, requests, owed,
                  told, replies, up, commands, stops>>

NotReading == <<>>
Settings == SUBSET ManagedRealms
Document == Settings \cup {NoDocument}

Set(d) == [op |-> "set", doc |-> d]
Get == [op |-> "get", doc |-> {}]
Boot == [op |-> "boot", doc |-> {}]   \* the fetch at the start of a broker

(* On an empty Redis the brokers start by fetching the document that is    *)
(* not there; else they have all fetched it and started.                   *)
SettingsInit ==
  /\ copy = [b \in Brokers |-> {}] /\ file = [b \in Brokers |-> {}]
  /\ watched = [b \in Brokers |-> FALSE]
  /\ reading = [b \in Brokers |-> NotReading]
  /\ document = IF ColdStart THEN NoDocument ELSE {}
  /\ requests = [b \in Brokers |-> IF ColdStart THEN <<Boot>> ELSE <<>>]
  /\ owed = [b \in Brokers |-> 0] /\ told = [b \in Brokers |-> 0]
  /\ replies = [b \in Brokers |-> <<>>]
  /\ up = [b \in Brokers |-> TRUE]
  /\ commands = 0 /\ stops = 0

(* writeSettingsFile: the watcher of the file sees every write.            *)
WriteSettingsFile(b, data) ==
  /\ file' = [file EXCEPT ![b] = data]
  /\ watched' = [watched EXCEPT ![b] = TRUE]

(* A management command: applyAuthManagementCommand replaces the broker's  *)
(* settings, persistSettings writes the file and sends the document off.   *)
Command(b, data) ==
  /\ b \in Writers /\ up[b] /\ commands < MaxCommands
  /\ SlowReads \/ reading[b] = NotReading
  /\ copy' = [copy EXCEPT ![b] = data]
  /\ WriteSettingsFile(b, data)
  /\ requests' = [requests EXCEPT ![b] = Append(@, Set(data))]
  /\ commands' = commands + 1
  /\ UNCHANGED <<reading, document, owed, told, replies, up, stops>>

AddRealm(b, r) == r \notin copy[b] /\ Command(b, copy[b] \cup {r})
RemoveRealm(b, r) == r \in copy[b] /\ Command(b, copy[b] \ {r})

(* Redis carries out the oldest command of a broker.  SET is followed by   *)
(* the PUBLISH of the change, once its reply is back.                      *)
ExecuteSet(b) ==
  /\ requests[b] # <<>> /\ Head(requests[b]).op = "set"
  /\ document' = Head(requests[b]).doc
  /\ owed' = [owed EXCEPT ![b] = @ + 1]
  /\ requests' = [requests EXCEPT ![b] = Tail(@)]
  /\ UNCHANGED <<copy, file, watched, reading, told, replies, up, commands, stops>>

ExecuteGet(b) ==
  /\ requests[b] # <<>> /\ Head(requests[b]).op \in {"get", "boot"}
  /\ requests' = [requests EXCEPT ![b] =
                    IF Head(@).op = "boot" /\ document = NoDocument
                    THEN Append(Tail(@), Set(copy[b])) ELSE Tail(@)]
  /\ replies' = [replies EXCEPT ![b] =
                   IF document = NoDocument THEN @ ELSE Append(@, document)]
  /\ UNCHANGED <<copy, file, watched, reading, document, owed, told, up,
                 commands, stops>>

(* The announcement reaches the peers that are up; a broker ignores its    *)
(* own.                                                                    *)
(* Mutant: nobody is told. *)
PeersNobody(b) == {}
Peers(b) == {p \in Brokers \ {b} : up[p]}

Announce(b) ==
  /\ owed[b] > 0
  /\ owed' = [owed EXCEPT ![b] = @ - 1]
  /\ told' = [p \in Brokers |-> IF p \in Peers(b) THEN told[p] + 1 ELSE told[p]]
  /\ UNCHANGED <<copy, file, watched, reading, document, requests, replies,
                 up, commands, stops>>

OnSettingsChange(b) ==
  /\ up[b] /\ told[b] > 0
  /\ told' = [told EXCEPT ![b] = @ - 1]
  /\ requests' = [requests EXCEPT ![b] = Append(@, Get)]
  /\ UNCHANGED <<copy, file, watched, reading, document, owed, replies, up,
                 commands, stops>>

ApplyRemoteSettings(b) ==
  LET data == Head(replies[b])
  IN /\ replies[b] # <<>>
     /\ SlowReads \/ reading[b] = NotReading
     /\ copy' = [copy EXCEPT ![b] = data]
     /\ WriteSettingsFile(b, data)
     /\ replies' = [replies EXCEPT ![b] = Tail(@)]
     /\ UNCHANGED <<reading, document, requests, owed, told, up, commands, stops>>

(* The watcher of the file: debounce, asynchronous read, deep merge.       *)
LoadFile(b) ==
  /\ up[b] /\ watched[b]
  /\ watched' = [watched EXCEPT ![b] = FALSE]
  /\ reading' = [reading EXCEPT ![b] = Append(@, file[b])]
  /\ UNCHANGED <<copy, file, document, requests, owed, told, replies, up,
                 commands, stops>>

FileLoaded(b) ==
  /\ reading[b] # NotReading
  /\ copy' = [copy EXCEPT ![b] = @ \cup Head(reading[b])]
  /\ reading' = [reading EXCEPT ![b] = Tail(@)]
  /\ UNCHANGED <<file, watched, document, requests, owed, told, replies, up,
                 commands, stops>>

(* A broker stops: its timers, its commands on the way and its             *)
(* subscription are gone.  It starts again from its file, subscribes, and  *)
(* fetches the document.                                                   *)
Stop(b) ==
  /\ b \in Crashable /\ up[b] /\ stops < MaxStops
  /\ stops' = stops + 1
  /\ up' = [up EXCEPT ![b] = FALSE]
  /\ watched' = [watched EXCEPT ![b] = FALSE]
  /\ reading' = [reading EXCEPT ![b] = NotReading]
  /\ requests' = [requests EXCEPT ![b] = <<>>]
  /\ owed' = [owed EXCEPT ![b] = 0] /\ told' = [told EXCEPT ![b] = 0]
  /\ replies' = [replies EXCEPT ![b] = <<>>]
  /\ UNCHANGED <<copy, file, document, commands>>

Start(b) ==
  /\ ~up[b]
  /\ up' = [up EXCEPT ![b] = TRUE]
  /\ copy' = [copy EXCEPT ![b] = file[b]]
  /\ requests' = [requests EXCEPT ![b] = <<Boot>>]
  /\ UNCHANGED <<file, watched, reading, document, owed, told, replies,
                 commands, stops>>

SettingsNext ==
  \E b \in Brokers :
    \/ \E r \in ManagedRealms : AddRealm(b, r) \/ RemoveRealm(b, r)
    \/ ExecuteSet(b) \/ ExecuteGet(b) \/ Announce(b)
    \/ OnSettingsChange(b) \/ ApplyRemoteSettings(b)
    \/ LoadFile(b) \/ FileLoaded(b) \/ Stop(b) \/ Start(b)

SettingsSpec == SettingsInit /\ [][SettingsNext]_settingsVars

-----------------------------------------------------------------------------

SettingsTypeOK ==
  /\ copy \in [Brokers -> Settings] /\ file \in [Brokers -> Settings]
  /\ document \in Document
  /\ up \in [Brokers -> BOOLEAN] /\ watched \in [Brokers -> BOOLEAN]
  /\ commands \in 0..MaxCommands /\ stops \in 0..MaxStops

SettingsQuiet ==
  \A b \in Brokers :
    /\ up[b] /\ ~watched[b] /\ reading[b] = NotReading
    /\ requests[b] = <<>> /\ owed[b] = 0 /\ told[b] = 0 /\ replies[b] = <<>>

(* README.md:202: "managed settings (realms, pre-shared keys, approved     *)
(* tokens) stay in sync across nodes".  When nothing is under way every    *)
(* broker works on the document in Redis, and its file says the same:      *)
(* whatever fetches, announcements, reads of the file and restarts crossed *)
(* each other (publishSettings, onSettingsChange, applyRemoteSettings).    *)
SettingsAgree ==
  SettingsQuiet => \A b \in Brokers : copy[b] = document /\ file[b] = document
=============================================================================
