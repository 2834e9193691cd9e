--------------------------- MODULE Cluster_proofs ---------------------------
(***************************************************************************)
(* Proofs about the protocols of a cluster: its settings, the directory of *)
(* keys, the relay of messages, the requests for authorization and the     *)
(* proofs by which managers give their commands, for any number of brokers.*)
(***************************************************************************)
EXTENDS MCCluster, FiniteSetTheorems, SequenceTheorems, TLAPS

-----------------------------------------------------------------------------
(* Sequences: what Append and Tail leave of the first, the last and all    *)
(* elements.                                                               *)

LastOf(s) == s[Len(s)]

(* An element is appended. *)
LEMMA Appended ==
  ASSUME NEW S, NEW s \in Seq(S), NEW e \in S
  PROVE  /\ Append(s, e) \in Seq(S) /\ Append(s, e) # <<>> /\ LastOf(Append(s, e)) = e
         /\ Len(Append(s, e)) = Len(s) + 1
         /\ \A n \in DOMAIN Append(s, e) :
              Append(s, e)[n] = e \/ (n \in DOMAIN s /\ Append(s, e)[n] = s[n])
         /\ \A n \in DOMAIN s : n \in DOMAIN Append(s, e) /\ Append(s, e)[n] = s[n]
  BY DEF LastOf

(* The first element is taken off. *)
LEMMA Shortened ==
  ASSUME NEW S, NEW s \in Seq(S), s # <<>>
  PROVE  /\ Head(s) \in S /\ Head(s) = s[1] /\ 1 \in DOMAIN s
         /\ Tail(s) \in Seq(S) /\ Len(Tail(s)) = Len(s) - 1
         /\ \A n \in DOMAIN Tail(s) : n + 1 \in DOMAIN s /\ Tail(s)[n] = s[n + 1]
         /\ Tail(s) # <<>> => LastOf(Tail(s)) = LastOf(s)
         /\ Tail(s) = <<>> => Head(s) = LastOf(s)
  <1>1. Len(s) \in Nat /\ Len(s) # 0 /\ DOMAIN s = 1..Len(s) /\ Head(s) = s[1] /\ Head(s) \in S
    OBVIOUS
  <1>2. /\ Tail(s) \in Seq(S) /\ Len(Tail(s)) = Len(s) - 1
        /\ \A n \in 1..Len(Tail(s)) : Tail(s)[n] = s[n + 1]
    BY HeadTailProperties
  <1>3. DOMAIN Tail(s) = 1..(Len(s) - 1)
    BY <1>2
  <1>4. 1 \in DOMAIN s /\ \A n \in DOMAIN Tail(s) : n + 1 \in DOMAIN s
    BY <1>1, <1>3
  <1>5. Tail(s) # <<>> => LastOf(Tail(s)) = LastOf(s)
    <2> SUFFICES ASSUME Tail(s) # <<>> PROVE LastOf(Tail(s)) = LastOf(s)
      OBVIOUS
    <2>1. Len(Tail(s)) # 0
      BY <1>2
    <2>2. Len(s) - 1 \in 1..Len(Tail(s)) /\ (Len(s) - 1) + 1 = Len(s)
      BY <1>1, <1>2, <2>1
    <2> QED BY <1>2, <2>2 DEF LastOf
  <1>6. Tail(s) = <<>> => Head(s) = LastOf(s)
    <2>1. \A t \in Seq(S) : t = <<>> => Len(t) = 0
      OBVIOUS
    <2>2. Tail(s) = <<>> => Len(s) - 1 = 0
      BY <1>2, <2>1
    <2>3. \A l \in Nat : l - 1 = 0 => l = 1
      OBVIOUS
    <2> QED BY <1>1, <2>2, <2>3 DEF LastOf
  <1> QED BY <1>1, <1>2, <1>3, <1>4, <1>5, <1>6

-----------------------------------------------------------------------------
(* Settings.                                                               *)

Commands == [op : {"set", "get", "boot"}, doc : Settings]

SettingsTypes ==
  /\ copy \in [Brokers -> Settings] /\ file \in [Brokers -> Settings]
  /\ document \in Document
  /\ up \in [Brokers -> BOOLEAN] /\ watched \in [Brokers -> BOOLEAN]
  /\ reading \in [Brokers -> Seq(Settings)] /\ replies \in [Brokers -> Seq(Settings)]
  /\ requests \in [Brokers -> Seq(Commands)]
  /\ owed \in [Brokers -> Nat] /\ told \in [Brokers -> Nat]
  /\ commands \in 0..MaxCommands /\ stops \in 0..MaxStops

(* The commands to Redis are of their type. *)
LEMMA CommandTypes ==
  /\ Get \in Commands /\ Boot \in Commands /\ \A d \in Settings : Set(d) \in Commands
  /\ Get.op = "get" /\ Boot.op = "boot" /\ \A d : Set(d).op = "set" /\ Set(d).doc = d
  BY DEF Get, Boot, Set, Commands, Settings

(* A function changed at one argument keeps its type. *)
LEMMA Updated ==
  ASSUME NEW D, NEW R, NEW f \in [D -> R], NEW a \in D, NEW v \in R
  PROVE  /\ [f EXCEPT ![a] = v] \in [D -> R] /\ [f EXCEPT ![a] = v][a] = v
         /\ \A b \in D : b # a => [f EXCEPT ![a] = v][b] = f[b]
  OBVIOUS

(* Every step keeps the types of the settings. *)
LEMMA SettingsTypeStep ==
  ASSUME SettingsTypes, [SettingsNext]_settingsVars
  PROVE  SettingsTypes'
  <1>0. MaxCommands \in Nat /\ MaxStops \in Nat /\ {} \in Settings
    BY SettingsAssumption DEF Settings
  <1>1. CASE UNCHANGED settingsVars
    BY <1>1 DEF settingsVars, SettingsTypes
  <1>2. ASSUME NEW b \in Brokers, NEW r \in ManagedRealms, AddRealm(b, r) \/ RemoveRealm(b, r)
        PROVE  SettingsTypes'
    <2>1. PICK data \in Settings : Command(b, data)
      BY <1>2 DEF AddRealm, RemoveRealm, SettingsTypes, Settings
    <2>2. /\ copy' = [copy EXCEPT ![b] = data] /\ file' = [file EXCEPT ![b] = data]
          /\ watched' = [watched EXCEPT ![b] = TRUE]
          /\ requests' = [requests EXCEPT ![b] = Append(requests[b], Set(data))]
          /\ commands' = commands + 1 /\ commands < MaxCommands
          /\ UNCHANGED <<reading, document, owed, told, replies, up, stops>>
      BY <2>1 DEF Command, WriteSettingsFile
    <2>3. Append(requests[b], Set(data)) \in Seq(Commands)
      BY CommandTypes DEF SettingsTypes
    <2>4. requests' \in [Brokers -> Seq(Commands)]
      BY <2>2, <2>3 DEF SettingsTypes
    <2>5. commands' \in 0..MaxCommands
      BY <1>0, <2>2 DEF SettingsTypes
    <2>6. watched' \in [Brokers -> BOOLEAN]
      BY <2>2, Updated, Zenon DEF SettingsTypes
    <2> QED BY <2>2, <2>4, <2>5, <2>6 DEF SettingsTypes
  <1>3. ASSUME NEW b \in Brokers, ExecuteSet(b) PROVE SettingsTypes'
    <2>1. /\ requests[b] # <<>> /\ document' = Head(requests[b]).doc
          /\ owed' = [owed EXCEPT ![b] = owed[b] + 1]
          /\ requests' = [requests EXCEPT ![b] = Tail(requests[b])]
          /\ UNCHANGED <<copy, file, watched, reading, told, replies, up, commands, stops>>
      BY <1>3 DEF ExecuteSet
    <2>2. requests[b] \in Seq(Commands)
      BY DEF SettingsTypes
    <2>3. Head(requests[b]) \in Commands /\ Tail(requests[b]) \in Seq(Commands)
      BY <2>1, <2>2, Shortened
    <2>4. document' \in Document /\ requests' \in [Brokers -> Seq(Commands)]
      BY <2>1, <2>3 DEF SettingsTypes, Document, Commands
    <2>5. owed' \in [Brokers -> Nat]
      BY <2>1 DEF SettingsTypes
    <2> QED BY <2>1, <2>4, <2>5 DEF SettingsTypes
  <1>4. ASSUME NEW b \in Brokers, ExecuteGet(b) PROVE SettingsTypes'
    <2>1. /\ requests[b] # <<>>
          /\ requests' = [requests EXCEPT ![b] =
                IF Head(requests[b]).op = "boot" /\ document = NoDocument
                THEN Append(Tail(requests[b]), Set(copy[b])) ELSE Tail(requests[b])]
          /\ replies' = [replies EXCEPT ![b] =
                IF document = NoDocument THEN replies[b] ELSE Append(replies[b], document)]
          /\ UNCHANGED <<copy, file, watched, reading, document, owed, told, up, commands, stops>>
      BY <1>4 DEF ExecuteGet
    <2>2. requests[b] \in Seq(Commands) /\ copy[b] \in Settings /\ replies[b] \in Seq(Settings)
      BY DEF SettingsTypes
    <2>3. Tail(requests[b]) \in Seq(Commands)
      BY <2>1, <2>2, Shortened
    <2>4. Append(Tail(requests[b]), Set(copy[b])) \in Seq(Commands)
      BY <2>2, <2>3, CommandTypes
    <2>5. document # NoDocument => Append(replies[b], document) \in Seq(Settings)
      BY <2>2 DEF SettingsTypes, Document
    <2>6. requests' \in [Brokers -> Seq(Commands)]
      BY <2>1, <2>3, <2>4 DEF SettingsTypes
    <2>7. replies' \in [Brokers -> Seq(Settings)]
      BY <2>1, <2>2, <2>5 DEF SettingsTypes
    <2> QED BY <2>1, <2>6, <2>7 DEF SettingsTypes
  <1>5. ASSUME NEW b \in Brokers, Announce(b) PROVE SettingsTypes'
    <2>1. /\ owed' = [owed EXCEPT ![b] = owed[b] - 1] /\ owed[b] > 0
          /\ told' = [p \in Brokers |-> IF p \in Peers(b) THEN told[p] + 1 ELSE told[p]]
          /\ UNCHANGED <<copy, file, watched, reading, document, requests, replies, up,
                         commands, stops>>
      BY <1>5 DEF Announce
    <2>2. owed' \in [Brokers -> Nat] /\ told' \in [Brokers -> Nat]
      BY <2>1 DEF SettingsTypes
    <2> QED BY <2>1, <2>2 DEF SettingsTypes
  <1>6. ASSUME NEW b \in Brokers, OnSettingsChange(b) PROVE SettingsTypes'
    <2>1. /\ told' = [told EXCEPT ![b] = told[b] - 1] /\ told[b] > 0
          /\ requests' = [requests EXCEPT ![b] = Append(requests[b], Get)]
          /\ UNCHANGED <<copy, file, watched, reading, document, owed, replies, up,
                         commands, stops>>
      BY <1>6 DEF OnSettingsChange
    <2>2. told' \in [Brokers -> Nat]
      BY <2>1 DEF SettingsTypes
    <2>3. Append(requests[b], Get) \in Seq(Commands)
      BY CommandTypes DEF SettingsTypes
    <2>4. requests' \in [Brokers -> Seq(Commands)]
      BY <2>1, <2>3 DEF SettingsTypes
    <2> QED BY <2>1, <2>2, <2>4 DEF SettingsTypes
  <1>7. ASSUME NEW b \in Brokers, ApplyRemoteSettings(b) PROVE SettingsTypes'
    <2> DEFINE data == Head(replies[b])
    <2>1. /\ replies[b] # <<>> /\ copy' = [copy EXCEPT ![b] = data]
          /\ file' = [file EXCEPT ![b] = data] /\ watched' = [watched EXCEPT ![b] = TRUE]
          /\ replies' = [replies EXCEPT ![b] = Tail(replies[b])]
          /\ UNCHANGED <<reading, document, requests, owed, told, up, commands, stops>>
      BY <1>7 DEF ApplyRemoteSettings, WriteSettingsFile
    <2>2. data \in Settings /\ Tail(replies[b]) \in Seq(Settings)
      BY <2>1, Shortened DEF SettingsTypes
    <2> HIDE DEF data
    <2>3. watched' \in [Brokers -> BOOLEAN]
      BY <2>1, Updated, Zenon DEF SettingsTypes
    <2> QED BY <2>1, <2>2, <2>3 DEF SettingsTypes
  <1>8. ASSUME NEW b \in Brokers, LoadFile(b) PROVE SettingsTypes'
    <2>1. /\ watched' = [watched EXCEPT ![b] = FALSE]
          /\ reading' = [reading EXCEPT ![b] = Append(reading[b], file[b])]
          /\ UNCHANGED <<copy, file, document, requests, owed, told, replies, up,
                         commands, stops>>
      BY <1>8 DEF LoadFile
    <2>2. watched' \in [Brokers -> BOOLEAN]
      BY <2>1, Updated, Zenon DEF SettingsTypes
    <2>3. Append(reading[b], file[b]) \in Seq(Settings)
      BY DEF SettingsTypes
    <2>4. reading' \in [Brokers -> Seq(Settings)]
      BY <2>1, <2>3 DEF SettingsTypes
    <2> QED BY <2>1, <2>2, <2>4 DEF SettingsTypes
  <1>9. ASSUME NEW b \in Brokers, FileLoaded(b) PROVE SettingsTypes'
    <2>1. /\ reading[b] # <<>> /\ copy' = [copy EXCEPT ![b] = copy[b] \cup Head(reading[b])]
          /\ reading' = [reading EXCEPT ![b] = Tail(reading[b])]
          /\ UNCHANGED <<file, watched, document, requests, owed, told, replies, up,
                         commands, stops>>
      BY <1>9 DEF FileLoaded, NotReading
    <2>2. Head(reading[b]) \in Settings /\ Tail(reading[b]) \in Seq(Settings)
      BY <2>1, Shortened DEF SettingsTypes
    <2>3. copy[b] \cup Head(reading[b]) \in Settings
      BY <2>2 DEF SettingsTypes, Settings
    <2> QED BY <2>1, <2>2, <2>3 DEF SettingsTypes
  <1>10. ASSUME NEW b \in Brokers, Stop(b) PROVE SettingsTypes'
    <2>1. /\ up' = [up EXCEPT ![b] = FALSE] /\ watched' = [watched EXCEPT ![b] = FALSE]
          /\ reading' = [reading EXCEPT ![b] = <<>>] /\ requests' = [requests EXCEPT ![b] = <<>>]
          /\ owed' = [owed EXCEPT ![b] = 0] /\ told' = [told EXCEPT ![b] = 0]
          /\ replies' = [replies EXCEPT ![b] = <<>>]
          /\ stops < MaxStops /\ stops' = stops + 1
          /\ UNCHANGED <<copy, file, document, commands>>
      BY <1>10 DEF Stop, NotReading
    <2>2. up' \in [Brokers -> BOOLEAN] /\ watched' \in [Brokers -> BOOLEAN]
      BY <2>1, Updated, Zenon DEF SettingsTypes
    <2>3. <<>> \in Seq(Settings) /\ <<>> \in Seq(Commands)
      OBVIOUS
    <2>4. reading' \in [Brokers -> Seq(Settings)] /\ replies' \in [Brokers -> Seq(Settings)]
      BY <2>1, <2>3 DEF SettingsTypes
    <2>5. requests' \in [Brokers -> Seq(Commands)]
      BY <2>1, <2>3 DEF SettingsTypes
    <2>6. owed' \in [Brokers -> Nat] /\ told' \in [Brokers -> Nat] /\ stops' \in 0..MaxStops
      BY <1>0, <2>1 DEF SettingsTypes
    <2> QED BY <2>1, <2>2, <2>4, <2>5, <2>6 DEF SettingsTypes
  <1>11. ASSUME NEW b \in Brokers, Start(b) PROVE SettingsTypes'
    <2>1. /\ up' = [up EXCEPT ![b] = TRUE] /\ copy' = [copy EXCEPT ![b] = file[b]]
          /\ requests' = [requests EXCEPT ![b] = <<Boot>>]
          /\ UNCHANGED <<file, watched, reading, document, owed, told, replies,
                         commands, stops>>
      BY <1>11 DEF Start
    <2>2. up' \in [Brokers -> BOOLEAN]
      BY <2>1, Updated, Zenon DEF SettingsTypes
    <2>3. <<Boot>> \in Seq(Commands)
      BY CommandTypes
    <2>4. requests' \in [Brokers -> Seq(Commands)] /\ copy' \in [Brokers -> Settings]
      BY <2>1, <2>3 DEF SettingsTypes
    <2> QED BY <2>1, <2>2, <2>4 DEF SettingsTypes
  <1> QED BY <1>1, <1>2, <1>3, <1>4, <1>5, <1>6, <1>7, <1>8, <1>9, <1>10, <1>11 DEF SettingsNext

(* With one writer, a warm start and reads of the file that end before the *)
(* next change.  A broker's copy is its file, and what it has read of the  *)
(* file is that too.                                                       *)
FileInv ==
  \A b \in Brokers : /\ copy[b] = file[b]
                     /\ \A n \in DOMAIN reading[b] : reading[b][n] = file[b]

(* The writer is never told of anything; the document will be its file     *)
(* when its last SET is done.                                              *)
WriterInv(w) ==
  /\ document \in Settings /\ up[w] /\ told[w] = 0 /\ replies[w] = <<>>
  /\ \A n \in DOMAIN requests[w] : requests[w][n].op = "set"
  /\ file[w] = IF requests[w] = <<>> THEN document ELSE LastOf(requests[w]).doc

(* The others write nothing, and until a broker has the document, an       *)
(* announcement, a fetch or the document itself is on its way to it.       *)
OnItsWay(w, b) ==
  up[b] /\ owed[w] = 0 /\ told[b] = 0 /\ requests[b] = <<>> =>
    IF replies[b] = <<>> THEN file[b] = document ELSE LastOf(replies[b]) = document
ReaderInv(w) ==
  \A b \in Brokers \ {w} :
    /\ owed[b] = 0 /\ \A n \in DOMAIN requests[b] : requests[b][n].op # "set"
    /\ OnItsWay(w, b)

SettingsInv(w) == SettingsTypes /\ FileInv /\ WriterInv(w) /\ ReaderInv(w)

(* A command of the writer. *)
LEMMA CommandStep ==
  ASSUME NEW w \in Brokers, Writers \subseteq {w}, ~SlowReads, SettingsInv(w), SettingsTypes',
         NEW b \in Brokers, NEW data \in Settings, Command(b, data)
  PROVE  SettingsInv(w)'
  <1>0. SettingsTypes /\ FileInv /\ WriterInv(w) /\ ReaderInv(w)
    BY DEF SettingsInv
  <1>1. /\ b = w /\ reading[w] = <<>>
        /\ copy' = [copy EXCEPT ![w] = data] /\ file' = [file EXCEPT ![w] = data]
        /\ requests' = [requests EXCEPT ![w] = Append(requests[w], Set(data))]
        /\ UNCHANGED <<reading, document, owed, told, replies, up>>
    BY DEF Command, WriteSettingsFile, NotReading
  <1> DEFINE q == Append(requests[w], Set(data))
  <1>2. /\ requests[w] \in Seq(Commands) /\ Set(data) \in Commands
        /\ Set(data).op = "set" /\ Set(data).doc = data
    BY <1>0, CommandTypes DEF SettingsTypes
  <1>3. /\ q # <<>> /\ LastOf(q) = Set(data)
        /\ \A n \in DOMAIN q : q[n] = Set(data) \/ (n \in DOMAIN requests[w] /\ q[n] = requests[w][n])
    BY <1>2, Appended
  <1> HIDE DEF q
  <1>4. /\ requests'[w] = q /\ file'[w] = data /\ copy'[w] = data
        /\ \A p \in Brokers \ {w} : requests'[p] = requests[p] /\ file'[p] = file[p]
                                    /\ copy'[p] = copy[p]
    BY <1>0, <1>1 DEF SettingsTypes, q
  <1>5. FileInv'
    BY <1>0, <1>1, <1>4 DEF FileInv
  <1>6. \A n \in DOMAIN q : q[n].op = "set"
    BY <1>0, <1>2, <1>3 DEF WriterInv
  <1>7. WriterInv(w)'
    BY <1>0, <1>1, <1>2, <1>3, <1>4, <1>6 DEF WriterInv
  <1>8. ReaderInv(w)'
    BY <1>0, <1>1, <1>4 DEF ReaderInv, OnItsWay
  <1> QED BY <1>5, <1>7, <1>8 DEF SettingsInv

(* Redis, announcements and fetches. *)
LEMMA RoundTripStep ==
  ASSUME NEW w \in Brokers, SettingsInv(w), SettingsTypes', NEW b \in Brokers,
         ExecuteSet(b) \/ ExecuteGet(b) \/ Announce(b) \/ OnSettingsChange(b)
  PROVE  SettingsInv(w)'
  <1>0. SettingsTypes /\ FileInv /\ WriterInv(w) /\ ReaderInv(w)
    BY DEF SettingsInv
  <1>1. UNCHANGED <<copy, file, reading, up>>
    BY DEF ExecuteSet, ExecuteGet, Announce, OnSettingsChange
  <1>2. FileInv'
    BY <1>0, <1>1 DEF FileInv
  <1>3. requests[b] \in Seq(Commands) /\ replies[b] \in Seq(Settings)
    BY <1>0 DEF SettingsTypes
  <1>4. CASE ExecuteSet(b)
    <2>1. /\ requests[b] # <<>> /\ Head(requests[b]).op = "set"
          /\ document' = Head(requests[b]).doc
          /\ owed' = [owed EXCEPT ![b] = owed[b] + 1]
          /\ requests' = [requests EXCEPT ![b] = Tail(requests[b])]
          /\ UNCHANGED <<told, replies>>
      BY <1>4 DEF ExecuteSet
    <2> DEFINE t == Tail(requests[b])
    <2>2. /\ Head(requests[b]) \in Commands /\ Head(requests[b]) = requests[b][1]
          /\ 1 \in DOMAIN requests[b]
          /\ \A n \in DOMAIN t : n + 1 \in DOMAIN requests[b] /\ t[n] = requests[b][n + 1]
          /\ t # <<>> => LastOf(t) = LastOf(requests[b])
          /\ t = <<>> => Head(requests[b]) = LastOf(requests[b])
      BY <1>3, <2>1, Shortened
    <2> HIDE DEF t
    <2>3. b = w
      BY <1>0, <2>1, <2>2 DEF ReaderInv
    <2>4. /\ requests'[w] = t /\ owed'[w] > 0
          /\ \A p \in Brokers \ {w} : requests'[p] = requests[p] /\ owed'[p] = owed[p]
      BY <1>0, <2>1, <2>3 DEF SettingsTypes, t
    <2>5. document' \in Settings
      BY <2>1, <2>2 DEF Commands
    <2>6. \A n \in DOMAIN t : t[n].op = "set"
      BY <1>0, <2>2, <2>3 DEF WriterInv
    <2>7. file[w] = IF t = <<>> THEN document' ELSE LastOf(t).doc
      BY <1>0, <2>1, <2>2, <2>3 DEF WriterInv
    <2>8. WriterInv(w)'
      BY <1>0, <1>1, <2>1, <2>4, <2>5, <2>6, <2>7 DEF WriterInv
    <2>9. ReaderInv(w)'
      <3>1. owed'[w] # 0
        BY <1>0, <2>4 DEF SettingsTypes
      <3> QED BY <1>0, <2>4, <3>1 DEF ReaderInv, OnItsWay
    <2> QED BY <1>2, <2>8, <2>9 DEF SettingsInv
  <1>5. CASE ExecuteGet(b)
    <2>0. document # NoDocument /\ document \in Settings
      BY <1>0, SettingsAssumption DEF WriterInv, Settings
    <2>1. /\ requests[b] # <<>> /\ Head(requests[b]).op # "set"
          /\ requests' = [requests EXCEPT ![b] = Tail(requests[b])]
          /\ replies' = [replies EXCEPT ![b] = Append(replies[b], document)]
          /\ UNCHANGED <<document, owed, told>>
      BY <1>5, <2>0 DEF ExecuteGet
    <2> DEFINE t == Tail(requests[b])
               q == Append(replies[b], document)
    <2>2. /\ Head(requests[b]) = requests[b][1] /\ 1 \in DOMAIN requests[b]
          /\ \A n \in DOMAIN t : n + 1 \in DOMAIN requests[b] /\ t[n] = requests[b][n + 1]
      BY <1>3, <2>1, Shortened
    <2>3. q # <<>> /\ LastOf(q) = document
      BY <1>3, <2>0, Appended
    <2> HIDE DEF t, q
    <2>4. b # w
      BY <1>0, <2>1, <2>2 DEF WriterInv
    <2>5. /\ requests'[b] = t /\ replies'[b] = q
          /\ \A p \in Brokers \ {b} : requests'[p] = requests[p] /\ replies'[p] = replies[p]
      BY <1>0, <2>1 DEF SettingsTypes, t, q
    <2>6. WriterInv(w)'
      BY <1>0, <1>1, <2>1, <2>4, <2>5 DEF WriterInv
    <2>7. \A n \in DOMAIN t : t[n].op # "set"
      BY <1>0, <2>2, <2>4 DEF ReaderInv
    <2>8. ReaderInv(w)'
      <3> SUFFICES ASSUME NEW p \in Brokers \ {w}
                   PROVE  /\ owed'[p] = 0 /\ \A n \in DOMAIN requests'[p] : requests'[p][n].op # "set"
                          /\ OnItsWay(w, p)'
        BY DEF ReaderInv
      <3>1. CASE p = b
        BY <1>0, <2>1, <2>3, <2>5, <2>7, <3>1 DEF ReaderInv, OnItsWay
      <3>2. CASE p # b
        BY <1>0, <1>1, <2>1, <2>5, <3>2 DEF ReaderInv, OnItsWay
      <3> QED BY <3>1, <3>2
    <2> QED BY <1>2, <2>6, <2>8 DEF SettingsInv
  <1>6. CASE Announce(b)
    <2>1. /\ owed[b] > 0 /\ owed' = [owed EXCEPT ![b] = owed[b] - 1]
          /\ told' = [p \in Brokers |-> IF p \in Peers(b) THEN told[p] + 1 ELSE told[p]]
          /\ UNCHANGED <<document, requests, replies>>
      BY <1>6 DEF Announce
    <2>2. b = w
      BY <1>0, <2>1 DEF ReaderInv
    <2>3. \A p \in Brokers : p \in Peers(w) <=> p # w /\ up[p]
      BY DEF Peers
    <2>4. /\ told'[w] = told[w]
          /\ \A p \in Brokers \ {w} : owed'[p] = owed[p] /\ (up[p] => told'[p] > 0)
      BY <1>0, <2>1, <2>2, <2>3 DEF SettingsTypes
    <2>5. WriterInv(w)'
      BY <1>0, <1>1, <2>1, <2>4 DEF WriterInv
    <2>6. ReaderInv(w)'
      BY <1>0, <1>1, <2>1, <2>4 DEF ReaderInv, OnItsWay
    <2> QED BY <1>2, <2>5, <2>6 DEF SettingsInv
  <1>7. CASE OnSettingsChange(b)
    <2>1. /\ told[b] > 0 /\ told' = [told EXCEPT ![b] = told[b] - 1]
          /\ requests' = [requests EXCEPT ![b] = Append(requests[b], Get)]
          /\ UNCHANGED <<document, owed, replies>>
      BY <1>7 DEF OnSettingsChange
    <2> DEFINE q == Append(requests[b], Get)
    <2>2. /\ q # <<>>
          /\ \A n \in DOMAIN q : q[n] = Get \/ (n \in DOMAIN requests[b] /\ q[n] = requests[b][n])
      BY <1>3, Appended, CommandTypes
    <2> HIDE DEF q
    <2>3. b # w
      BY <1>0, <2>1 DEF WriterInv
    <2>4. /\ requests'[b] = q
          /\ \A p \in Brokers \ {b} : requests'[p] = requests[p] /\ told'[p] = told[p]
      BY <1>0, <2>1 DEF SettingsTypes, q
    <2>5. WriterInv(w)'
      BY <1>0, <1>1, <2>1, <2>3, <2>4 DEF WriterInv
    <2>6. \A n \in DOMAIN q : q[n].op # "set"
      BY <1>0, <2>2, <2>3, CommandTypes DEF ReaderInv
    <2>7. ReaderInv(w)'
      <3> SUFFICES ASSUME NEW p \in Brokers \ {w}
                   PROVE  /\ owed'[p] = 0 /\ \A n \in DOMAIN requests'[p] : requests'[p][n].op # "set"
                          /\ OnItsWay(w, p)'
        BY DEF ReaderInv
      <3>1. CASE p = b
        BY <1>0, <2>1, <2>2, <2>4, <2>6, <3>1 DEF ReaderInv, OnItsWay
      <3>2. CASE p # b
        BY <1>0, <1>1, <2>1, <2>4, <3>2 DEF ReaderInv, OnItsWay
      <3> QED BY <3>1, <3>2
    <2> QED BY <1>2, <2>5, <2>7 DEF SettingsInv
  <1> QED BY <1>4, <1>5, <1>6, <1>7

(* Documents applied, and the watcher of the file. *)
LEMMA FileStep ==
  ASSUME NEW w \in Brokers, ~SlowReads, SettingsInv(w), SettingsTypes', NEW b \in Brokers,
         ApplyRemoteSettings(b) \/ LoadFile(b) \/ FileLoaded(b)
  PROVE  SettingsInv(w)'
  <1>0. SettingsTypes /\ FileInv /\ WriterInv(w) /\ ReaderInv(w)
    BY DEF SettingsInv
  <1>1. UNCHANGED <<document, requests, owed, told, up>>
    BY DEF ApplyRemoteSettings, LoadFile, FileLoaded
  <1>2. CASE ApplyRemoteSettings(b)
    <2> DEFINE data == Head(replies[b])
               t == Tail(replies[b])
    <2>1. /\ replies[b] # <<>> /\ reading[b] = <<>>
          /\ copy' = [copy EXCEPT ![b] = data] /\ file' = [file EXCEPT ![b] = data]
          /\ replies' = [replies EXCEPT ![b] = t] /\ reading' = reading
      BY <1>2 DEF ApplyRemoteSettings, WriteSettingsFile, NotReading
    <2>2. /\ data \in Settings
          /\ t # <<>> => LastOf(t) = LastOf(replies[b])
          /\ t = <<>> => data = LastOf(replies[b])
      BY <1>0, <2>1, Shortened DEF SettingsTypes
    <2> HIDE DEF data, t
    <2>3. b # w
      BY <1>0, <2>1 DEF WriterInv
    <2>4. /\ copy'[b] = data /\ file'[b] = data /\ replies'[b] = t
          /\ \A p \in Brokers \ {b} : copy'[p] = copy[p] /\ file'[p] = file[p]
                                      /\ replies'[p] = replies[p]
      BY <1>0, <2>1 DEF SettingsTypes
    <2>5. FileInv'
      BY <1>0, <2>1, <2>4 DEF FileInv
    <2>6. WriterInv(w)'
      BY <1>0, <1>1, <2>3, <2>4 DEF WriterInv
    <2>7. ReaderInv(w)'
      <3> SUFFICES ASSUME NEW p \in Brokers \ {w} PROVE OnItsWay(w, p)'
        BY <1>0, <1>1 DEF ReaderInv
      <3>1. CASE p = b
        <4> SUFFICES ASSUME up[b], owed[w] = 0, told[b] = 0, requests[b] = <<>>
                     PROVE  IF t = <<>> THEN data = document ELSE LastOf(t) = document
          BY <1>1, <2>4, <3>1 DEF OnItsWay
        <4>1. LastOf(replies[b]) = document
          BY <1>0, <2>1, <2>3 DEF ReaderInv, OnItsWay
        <4> QED BY <2>2, <4>1
      <3>2. CASE p # b
        BY <1>0, <1>1, <2>4, <3>2 DEF ReaderInv, OnItsWay
      <3> QED BY <3>1, <3>2
    <2> QED BY <2>5, <2>6, <2>7 DEF SettingsInv
  <1>3. CASE LoadFile(b)
    <2>1. /\ reading' = [reading EXCEPT ![b] = Append(reading[b], file[b])]
          /\ UNCHANGED <<copy, file, replies>>
      BY <1>3 DEF LoadFile
    <2> DEFINE q == Append(reading[b], file[b])
    <2>2. \A n \in DOMAIN q : q[n] = file[b] \/ (n \in DOMAIN reading[b] /\ q[n] = reading[b][n])
      <3>1. reading[b] \in Seq(Settings) /\ file[b] \in Settings
        BY <1>0 DEF SettingsTypes
      <3> QED BY <3>1, Appended
    <2> HIDE DEF q
    <2>3. reading'[b] = q /\ \A p \in Brokers \ {b} : reading'[p] = reading[p]
      BY <1>0, <2>1 DEF SettingsTypes, q
    <2>4. FileInv'
      BY <1>0, <2>1, <2>2, <2>3 DEF FileInv
    <2>5. WriterInv(w)' /\ ReaderInv(w)'
      BY <1>0, <1>1, <2>1 DEF WriterInv, ReaderInv, OnItsWay
    <2> QED BY <2>4, <2>5 DEF SettingsInv
  <1>4. CASE FileLoaded(b)
    <2>1. /\ reading[b] # <<>> /\ copy' = [copy EXCEPT ![b] = copy[b] \cup Head(reading[b])]
          /\ reading' = [reading EXCEPT ![b] = Tail(reading[b])]
          /\ UNCHANGED <<file, replies>>
      BY <1>4 DEF FileLoaded, NotReading
    <2> DEFINE t == Tail(reading[b])
    <2>2. /\ Head(reading[b]) = reading[b][1] /\ 1 \in DOMAIN reading[b]
          /\ \A n \in DOMAIN t : n + 1 \in DOMAIN reading[b] /\ t[n] = reading[b][n + 1]
      BY <1>0, <2>1, Shortened DEF SettingsTypes
    <2> HIDE DEF t
    <2>3. copy[b] \cup Head(reading[b]) = file[b]
      BY <1>0, <2>2 DEF FileInv
    <2>4. /\ copy'[b] = file[b] /\ reading'[b] = t
          /\ \A p \in Brokers \ {b} : reading'[p] = reading[p] /\ copy'[p] = copy[p]
      BY <1>0, <2>1, <2>3 DEF SettingsTypes, t
    <2>5. FileInv'
      <3>1. \A n \in DOMAIN t : t[n] = file[b]
        BY <1>0, <2>2 DEF FileInv
      <3> SUFFICES ASSUME NEW p \in Brokers
                   PROVE  /\ copy'[p] = file[p]
                          /\ \A n \in DOMAIN reading'[p] : reading'[p][n] = file[p]
        BY <2>1 DEF FileInv
      <3>2. CASE p = b
        BY <2>4, <3>1, <3>2
      <3>3. CASE p # b
        BY <1>0, <2>4, <3>3 DEF FileInv
      <3> QED BY <3>2, <3>3
    <2>6. WriterInv(w)' /\ ReaderInv(w)'
      BY <1>0, <1>1, <2>1 DEF WriterInv, ReaderInv, OnItsWay
    <2> QED BY <2>5, <2>6 DEF SettingsInv
  <1> QED BY <1>2, <1>3, <1>4

(* A broker other than the writer stops and starts. *)
LEMMA StopStep ==
  ASSUME NEW w \in Brokers, w \notin Crashable, SettingsInv(w), SettingsTypes',
         NEW b \in Brokers, Stop(b) \/ Start(b)
  PROVE  SettingsInv(w)'
  <1>0. SettingsTypes /\ FileInv /\ WriterInv(w) /\ ReaderInv(w)
    BY DEF SettingsInv
  <1>1. b # w /\ UNCHANGED <<document, file>>
    BY <1>0 DEF Stop, Start, WriterInv
  <1>2. \A p \in Brokers \ {b} : /\ copy'[p] = copy[p] /\ reading'[p] = reading[p]
                                 /\ requests'[p] = requests[p] /\ owed'[p] = owed[p]
                                 /\ told'[p] = told[p] /\ replies'[p] = replies[p]
                                 /\ up'[p] = up[p]
    BY <1>0 DEF Stop, Start, SettingsTypes
  <1>3. /\ copy'[b] \in {copy[b], file[b]} /\ reading'[b] \in {reading[b], <<>>}
        /\ owed'[b] \in {owed[b], 0} /\ requests'[b] \in {<<>>, <<Boot>>}
        /\ up'[b] => requests'[b] = <<Boot>>
    BY <1>0 DEF Stop, Start, SettingsTypes, NotReading
  <1>4. FileInv'
    <2> SUFFICES ASSUME NEW p \in Brokers
                 PROVE  /\ copy'[p] = file'[p]
                        /\ \A n \in DOMAIN reading'[p] : reading'[p][n] = file'[p]
      BY DEF FileInv
    <2>1. CASE p = b
      BY <1>0, <1>1, <1>3, <2>1 DEF FileInv
    <2>2. CASE p # b
      BY <1>0, <1>1, <1>2, <2>2 DEF FileInv
    <2> QED BY <2>1, <2>2
  <1>5. WriterInv(w)'
    BY <1>0, <1>1, <1>2 DEF WriterInv
  <1>6. ReaderInv(w)'
    <2> SUFFICES ASSUME NEW p \in Brokers \ {w}
                 PROVE  /\ owed'[p] = 0 /\ \A n \in DOMAIN requests'[p] : requests'[p][n].op # "set"
                        /\ OnItsWay(w, p)'
      BY DEF ReaderInv
    <2>1. CASE p = b
      <3>1. \A n \in DOMAIN requests'[b] : requests'[b][n].op # "set"
        BY <1>3, CommandTypes
      <3>2. <<Boot>> # <<>>
        OBVIOUS
      <3>3. OnItsWay(w, b)'
        BY <1>3, <3>2 DEF OnItsWay
      <3> QED BY <1>0, <1>3, <2>1, <3>1, <3>3 DEF ReaderInv
    <2>2. CASE p # b
      BY <1>0, <1>1, <1>2, <2>2 DEF ReaderInv, OnItsWay
    <2> QED BY <2>1, <2>2
  <1> QED BY <1>4, <1>5, <1>6 DEF SettingsInv

(* The types of the settings, of files, documents and commands, whatever   *)
(* writers, starts and reads there are (lib/settings.js, lib/cluster.js).  *)
THEOREM SettingsTypeCorrect == SettingsSpec => []SettingsTypes
  <1>1. SettingsInit => SettingsTypes
    <2> SUFFICES ASSUME SettingsInit PROVE SettingsTypes
      OBVIOUS
    <2>1. {} \in Settings /\ <<>> \in Seq(Settings) /\ <<>> \in Seq(Commands)
          /\ <<Boot>> \in Seq(Commands) /\ 0 \in 0..MaxCommands /\ 0 \in 0..MaxStops
      BY CommandTypes, SettingsAssumption DEF Settings
    <2>2. requests \in [Brokers -> Seq(Commands)]
      BY <2>1 DEF SettingsInit
    <2> QED BY <2>1, <2>2 DEF SettingsInit, SettingsTypes, Document, NotReading
  <1> QED BY <1>1, SettingsTypeStep, PTL DEF SettingsSpec

(* README.md:202: settings "stay in sync across nodes".  With one writing  *)
(* broker, a warm start and short reads, when nothing is under way every   *)
(* broker and its file have the document, for any number of brokers,       *)
(* commands and restarts (publishSettings, applyRemoteSettings).           *)
THEOREM SettingsStayInSync ==
  ASSUME NEW w \in Brokers, Writers \subseteq {w}, w \notin Crashable, ~ColdStart, ~SlowReads
  PROVE  SettingsSpec => []SettingsAgree
  <1>1. SettingsInit /\ SettingsTypes => SettingsInv(w)
    <2> SUFFICES ASSUME SettingsInit, SettingsTypes PROVE SettingsInv(w)
      OBVIOUS
    <2>0. /\ DOMAIN <<>> = {} /\ {} \in Settings
          /\ \A b \in Brokers : /\ copy[b] = {} /\ file[b] = {} /\ reading[b] = <<>>
                                 /\ requests[b] = <<>> /\ replies[b] = <<>> /\ document = {}
                                 /\ owed[b] = 0
      BY DEF SettingsInit, NotReading, Settings
    <2>1. FileInv
      BY <2>0 DEF FileInv
    <2>2. WriterInv(w)
      BY DEF SettingsInit, WriterInv, Settings
    <2>3. ReaderInv(w)
      BY <2>0 DEF ReaderInv, OnItsWay
    <2> QED BY <2>1, <2>2, <2>3 DEF SettingsInv
  <1>2. SettingsInv(w) /\ SettingsTypes' /\ [SettingsNext]_settingsVars => SettingsInv(w)'
    <2> SUFFICES ASSUME SettingsInv(w), SettingsTypes', [SettingsNext]_settingsVars
                 PROVE  SettingsInv(w)'
      OBVIOUS
    <2>1. CASE UNCHANGED settingsVars
      BY <2>1 DEF settingsVars, SettingsInv, FileInv, WriterInv, ReaderInv, OnItsWay
    <2>2. ASSUME NEW b \in Brokers, NEW r \in ManagedRealms, AddRealm(b, r) \/ RemoveRealm(b, r)
          PROVE  SettingsInv(w)'
      <3>1. PICK data \in Settings : Command(b, data)
        BY <2>2 DEF AddRealm, RemoveRealm, SettingsInv, SettingsTypes, Settings
      <3> QED BY <3>1, CommandStep
    <2>3. ASSUME NEW b \in Brokers,
                 ExecuteSet(b) \/ ExecuteGet(b) \/ Announce(b) \/ OnSettingsChange(b)
          PROVE  SettingsInv(w)'
      BY <2>3, RoundTripStep
    <2>4. ASSUME NEW b \in Brokers, ApplyRemoteSettings(b) \/ LoadFile(b) \/ FileLoaded(b)
          PROVE  SettingsInv(w)'
      BY <2>4, FileStep
    <2>5. ASSUME NEW b \in Brokers, Stop(b) \/ Start(b) PROVE SettingsInv(w)'
      BY <2>5, StopStep
    <2> QED BY <2>1, <2>2, <2>3, <2>4, <2>5 DEF SettingsNext
  <1>3. SettingsInv(w) => SettingsAgree
    <2> SUFFICES ASSUME SettingsInv(w), SettingsQuiet, NEW b \in Brokers
                 PROVE  copy[b] = document /\ file[b] = document
      BY DEF SettingsAgree
    <2>1. copy[b] = file[b]
      BY DEF SettingsInv, FileInv
    <2>2. CASE b = w
      BY <2>1, <2>2 DEF SettingsInv, WriterInv, SettingsQuiet
    <2>3. CASE b # w
      BY <2>1, <2>3 DEF SettingsInv, ReaderInv, OnItsWay, SettingsQuiet
    <2> QED BY <2>2, <2>3
  <1> QED BY <1>1, <1>2, <1>3, SettingsTypeCorrect, PTL DEF SettingsSpec

-----------------------------------------------------------------------------
(* The key directory.                                                      *)

MirrorJobs == [op : {"mirror"}, realm : KeyRealms, to : KeyRealms, owner : Owners, list : Lists]
OtherJobs == [op : {"purge", "rename"}, realm : KeyRealms, to : KeyRealms]
Jobs == MirrorJobs \cup OtherJobs
JobStates == [step : {"get", "act", "publish"}, doc : Directories]
Adoptions == [read : BOOLEAN, doc : Directories]

KeyTypes ==
  /\ keys \in [KeyBrokers -> Directories] /\ keyDoc \in Directories
  /\ joined \in [KeyBrokers -> BOOLEAN] /\ publications \in 0..MaxPublications
  /\ chain \in [KeyBrokers -> Seq(Jobs)] /\ job \in [KeyBrokers -> JobStates]
  /\ toldKeys \in [KeyBrokers -> Nat] /\ adoptions \in [KeyBrokers -> Seq(Adoptions)]

(* The empty directory is one. *)
LEMMA EmptyDirectory ==
  /\ NoKeys \in Lists /\ NoDirectory \in Directories /\ Idle \in JobStates /\ Unread \in Adoptions
  /\ (\A r \in KeyRealms : NoDirectory[r] \in [Owners -> Lists])
  /\ \A r \in KeyRealms, i \in Owners : NoDirectory[r][i] = NoKeys
  <1>1. NoKeys \in Lists
    BY KeyAssumption DEF NoKeys, Lists
  <1>2. /\ NoDirectory \in Directories
        /\ (\A r \in KeyRealms : NoDirectory[r] \in [Owners -> Lists])
        /\ \A r \in KeyRealms, i \in Owners : NoDirectory[r][i] = NoKeys
    BY <1>1 DEF NoDirectory, Directories
  <1>3. Idle \in JobStates /\ Unread \in Adoptions
    BY <1>2 DEF Idle, Unread, JobStates, Adoptions
  <1> QED BY <1>1, <1>2, <1>3

(* A job turns a directory into a directory, and one that would change     *)
(* nothing is not written.                                                 *)
LEMMA ChangedDirectory ==
  ASSUME NEW j \in Jobs, NEW doc \in Directories
  PROVE  Changed(j, doc) \in Directories /\ (~Writes(j, doc) => Changed(j, doc) = doc)
  <1> DEFINE E == [Owners -> Lists]
  <1>0. doc \in [KeyRealms -> E] /\ Directories = [KeyRealms -> E]
        /\ \A r \in KeyRealms : NoDirectory[r] \in E
    BY EmptyDirectory DEF Directories
  <1>1. CASE j \in MirrorJobs
    <2>1. j.op = "mirror" /\ j.realm \in KeyRealms /\ j.owner \in Owners /\ j.list \in Lists
      BY <1>1 DEF MirrorJobs
    <2>2. Changed(j, doc) = [doc EXCEPT ![j.realm] = [doc[j.realm] EXCEPT ![j.owner] = j.list]]
      BY <2>1 DEF Changed
    <2>3. [doc[j.realm] EXCEPT ![j.owner] = j.list] \in E
      BY <1>0, <2>1
    <2>4. Changed(j, doc) \in Directories
      BY <1>0, <2>1, <2>2, <2>3
    <2> QED BY <2>1, <2>4 DEF Writes
  <1>2. CASE j \in OtherJobs
    <2>1. j.op \in {"purge", "rename"} /\ j.realm \in KeyRealms /\ j.to \in KeyRealms
      BY <1>2 DEF OtherJobs
    <2> HIDE DEF E
    <2>2. CASE j.op = "purge"
      <3>1. Changed(j, doc) = [doc EXCEPT ![j.realm] = NoDirectory[j.realm]]
        BY <2>2 DEF Changed
      <3>2. Changed(j, doc) \in Directories
        BY <1>0, <2>1, <3>1
      <3>3. doc[j.realm] = NoDirectory[j.realm] => Changed(j, doc) = doc
        BY <1>0, <2>1, <3>1
      <3> QED BY <2>2, <3>2, <3>3 DEF Writes
    <2>3. CASE j.op = "rename"
      <3> DEFINE x == IF doc[j.to] = NoDirectory[j.to] THEN doc[j.realm] ELSE doc[j.to]
                 d == [doc EXCEPT ![j.to] = x]
      <3>1. Changed(j, doc) = [d EXCEPT ![j.realm] = NoDirectory[j.realm]]
        BY <2>3 DEF Changed
      <3>2. x \in E
        BY <1>0, <2>1
      <3>3. d \in [KeyRealms -> E]
        BY <1>0, <2>1, <3>2
      <3>4. Changed(j, doc) \in Directories
        <4> HIDE DEF d
        <4> QED BY <1>0, <2>1, <3>1, <3>3
      <3>5. doc[j.realm] = NoDirectory[j.realm] => Changed(j, doc) = doc
        <4>0. NoDirectory[j.realm] = NoDirectory[j.to]
          BY <2>1 DEF NoDirectory
        <4>1. doc[j.realm] = NoDirectory[j.realm] => x = doc[j.to]
          BY <4>0
        <4>2. doc[j.realm] = NoDirectory[j.realm] => d = doc
          <5> HIDE DEF x
          <5> QED BY <1>0, <2>1, <4>1
        <4> HIDE DEF d
        <4> QED BY <1>0, <2>1, <3>1, <4>2
      <3> QED BY <2>3, <3>4, <3>5 DEF Writes
    <2> QED BY <2>1, <2>2, <2>3
  <1> QED BY <1>1, <1>2 DEF Jobs

(* What a broker does to its own directory it sends off as a job that does *)
(* the same to the document.                                               *)
LEMMA OwnChange ==
  ASSUME KeyTypes, NEW b \in KeyBrokers, NEW r \in KeyRealms,
         \/ \E i \in Owners, k \in KeyIds : KeyPublish(b, r, i, k)
         \/ PurgeRealmKeys(b, r)
         \/ \E to \in KeyRealms : RenameRealmKeys(b, r, to)
  PROVE  /\ b \in Publishers /\ joined[b] /\ publications' \in 0..MaxPublications
         /\ UNCHANGED <<keyDoc, job, toldKeys, adoptions, joined>>
         /\ \E j \in Jobs : /\ keys' = [keys EXCEPT ![b] = Changed(j, keys[b])]
                            /\ chain' = [chain EXCEPT ![b] = Append(chain[b], j)]
  <1>0. keys[b] \in [KeyRealms -> [Owners -> Lists]] /\ publications \in 0..MaxPublications
        /\ MaxPublications \in Nat /\ publications \in Nat
    BY KeyAssumption DEF KeyTypes, Directories
  <1>1. ASSUME NEW i \in Owners, NEW k \in KeyIds, KeyPublish(b, r, i, k)
        PROVE  /\ publications' \in 0..MaxPublications
               /\ \E j \in Jobs : /\ keys' = [keys EXCEPT ![b] = Changed(j, keys[b])]
                                  /\ chain' = [chain EXCEPT ![b] = Append(chain[b], j)]
    <2> DEFINE list == [keys[b][r][i] EXCEPT ![k] = publications + 1]
               j == [op |-> "mirror", realm |-> r, to |-> r, owner |-> i, list |-> list]
    <2>1. /\ publications' = publications + 1 /\ publications + 1 <= MaxPublications
          /\ keys' = [keys EXCEPT ![b][r][i] = list]
          /\ chain' = [chain EXCEPT ![b] = Append(chain[b], j)]
      BY <1>1 DEF KeyPublish
    <2>2. publications + 1 \in 0..MaxPublications
      BY <1>0, <2>1
    <2>3. list \in Lists
      <3>1. keys[b][r][i] \in [KeyIds -> 0..MaxPublications]
        BY <1>0 DEF Lists
      <3> QED BY <2>2, <3>1 DEF Lists
    <2> HIDE DEF list
    <2>4. /\ j \in Jobs /\ j.op = "mirror" /\ j.realm = r /\ j.owner = i /\ j.list = list
      BY <2>3 DEF Jobs, MirrorJobs
    <2> HIDE DEF j
    <2>5. Changed(j, keys[b]) = [keys[b] EXCEPT ![r][i] = list]
      BY <2>4 DEF Changed
    <2>6. keys' = [keys EXCEPT ![b] = [keys[b] EXCEPT ![r][i] = list]]
      BY <2>1
    <2> QED BY <2>1, <2>2, <2>4, <2>5, <2>6
  <1>2. CASE PurgeRealmKeys(b, r)
    <2> DEFINE j == [op |-> "purge", realm |-> r, to |-> r]
    <2>1. /\ keys' = [keys EXCEPT ![b][r] = NoDirectory[r]]
          /\ chain' = [chain EXCEPT ![b] = Append(chain[b], j)] /\ publications' = publications
      BY <1>2 DEF PurgeRealmKeys
    <2>2. j \in Jobs /\ j.op = "purge" /\ j.realm = r
      BY DEF Jobs, OtherJobs
    <2> HIDE DEF j
    <2>3. Changed(j, keys[b]) = [keys[b] EXCEPT ![r] = NoDirectory[r]]
      BY <2>2 DEF Changed
    <2>4. keys' = [keys EXCEPT ![b] = [keys[b] EXCEPT ![r] = NoDirectory[r]]]
      BY <2>1
    <2> QED BY <1>0, <1>2, <2>1, <2>2, <2>3, <2>4 DEF PurgeRealmKeys
  <1>3. ASSUME NEW to \in KeyRealms, RenameRealmKeys(b, r, to)
        PROVE  /\ publications' \in 0..MaxPublications
               /\ \E j \in Jobs : /\ keys' = [keys EXCEPT ![b] = Changed(j, keys[b])]
                                  /\ chain' = [chain EXCEPT ![b] = Append(chain[b], j)]
    <2> DEFINE j == [op |-> "rename", realm |-> r, to |-> to]
               moved == [keys[b] EXCEPT ![to] = keys[b][r], ![r] = NoDirectory[r]]
    <2>1. /\ keys' = [keys EXCEPT ![b][to] = keys[b][r], ![b][r] = NoDirectory[r]]
          /\ chain' = [chain EXCEPT ![b] = Append(chain[b], j)] /\ publications' = publications
          /\ keys[b][to] = NoDirectory[to]
      BY <1>3 DEF RenameRealmKeys
    <2>2. j \in Jobs /\ j.op = "rename" /\ j.realm = r /\ j.to = to
      BY DEF Jobs, OtherJobs
    <2> HIDE DEF j
    <2>3. Changed(j, keys[b]) = moved
      BY <2>1, <2>2 DEF Changed
    <2>4. keys' = [keys EXCEPT ![b] = moved]
      BY <1>0, <2>1 DEF KeyTypes
    <2> QED BY <1>0, <2>1, <2>2, <2>3, <2>4
  <1>4. b \in Publishers /\ joined[b] /\ UNCHANGED <<keyDoc, job, toldKeys, adoptions, joined>>
    BY DEF KeyPublish, PurgeRealmKeys, RenameRealmKeys
  <1> QED BY <1>1, <1>2, <1>3, <1>4

(* Every step keeps the types of the directories. *)
LEMMA KeyTypeStep ==
  ASSUME KeyTypes, [KeyNext]_keyVars
  PROVE  KeyTypes'
  <1>1. CASE UNCHANGED keyVars
    BY <1>1 DEF keyVars, KeyTypes
  <1>2. ASSUME NEW b \in KeyBrokers, NEW r \in KeyRealms,
               \/ \E i \in Owners, k \in KeyIds : KeyPublish(b, r, i, k)
               \/ PurgeRealmKeys(b, r)
               \/ \E to \in KeyRealms : RenameRealmKeys(b, r, to)
        PROVE  KeyTypes'
    <2>1. /\ publications' \in 0..MaxPublications
          /\ UNCHANGED <<keyDoc, job, toldKeys, adoptions, joined>>
          /\ \E j \in Jobs : /\ keys' = [keys EXCEPT ![b] = Changed(j, keys[b])]
                             /\ chain' = [chain EXCEPT ![b] = Append(chain[b], j)]
      BY <1>2, OwnChange
    <2>2. PICK j \in Jobs : /\ keys' = [keys EXCEPT ![b] = Changed(j, keys[b])]
                            /\ chain' = [chain EXCEPT ![b] = Append(chain[b], j)]
      BY <2>1
    <2>3. Changed(j, keys[b]) \in Directories /\ Append(chain[b], j) \in Seq(Jobs)
      BY ChangedDirectory DEF KeyTypes
    <2>4. keys' \in [KeyBrokers -> Directories] /\ chain' \in [KeyBrokers -> Seq(Jobs)]
      BY <2>2, <2>3 DEF KeyTypes
    <2> QED BY <2>1, <2>4 DEF KeyTypes
  <1>3. ASSUME NEW b \in KeyBrokers, GetKeys(b) PROVE KeyTypes'
    <2>1. /\ job' = [job EXCEPT ![b] = [step |-> "act", doc |-> keyDoc]]
          /\ UNCHANGED <<keys, keyDoc, chain, toldKeys, adoptions, joined, publications>>
      BY <1>3 DEF GetKeys
    <2>2. [step |-> "act", doc |-> keyDoc] \in JobStates
      BY DEF KeyTypes, JobStates
    <2>3. job' \in [KeyBrokers -> JobStates]
      BY <2>1, <2>2 DEF KeyTypes
    <2> QED BY <2>1, <2>3 DEF KeyTypes
  <1>4. ASSUME NEW b \in KeyBrokers, SkipJob(b) \/ PublishChange(b) PROVE KeyTypes'
    <2>1. /\ chain[b] # <<>> /\ chain' = [chain EXCEPT ![b] = Tail(chain[b])]
          /\ job' = [job EXCEPT ![b] = Idle]
          /\ UNCHANGED <<keys, keyDoc, adoptions, joined, publications>>
      BY <1>4 DEF SkipJob, PublishChange, NextJob
    <2>2. toldKeys' \in [KeyBrokers -> Nat]
      <3>0. toldKeys \in [KeyBrokers -> Nat]
        BY DEF KeyTypes
      <3>1. CASE SkipJob(b)
        BY <3>0, <3>1 DEF SkipJob
      <3>2. CASE PublishChange(b)
        <4>1. toldKeys' = [p \in KeyBrokers |->
                IF p # b /\ joined[p] THEN toldKeys[p] + 1 ELSE toldKeys[p]]
          BY <3>2 DEF PublishChange
        <4> QED BY <3>0, <4>1
      <3> QED BY <1>4, <3>1, <3>2
    <2>3. Tail(chain[b]) \in Seq(Jobs)
      BY <2>1, Shortened DEF KeyTypes
    <2>4. chain' \in [KeyBrokers -> Seq(Jobs)] /\ job' \in [KeyBrokers -> JobStates]
      BY <2>1, <2>3, EmptyDirectory DEF KeyTypes
    <2> QED BY <2>1, <2>2, <2>4 DEF KeyTypes
  <1>5. ASSUME NEW b \in KeyBrokers, PutKeys(b) PROVE KeyTypes'
    <2>1. /\ chain[b] # <<>> /\ keyDoc' = Changed(Head(chain[b]), job[b].doc)
          /\ job' = [job EXCEPT ![b].step = "publish"]
          /\ UNCHANGED <<keys, chain, toldKeys, adoptions, joined, publications>>
      BY <1>5 DEF PutKeys
    <2>2. job[b].doc \in Directories /\ Head(chain[b]) \in Jobs
      BY <2>1, Shortened DEF KeyTypes, JobStates
    <2>3. keyDoc' \in Directories
      BY <2>1, <2>2, ChangedDirectory
    <2>4. [job[b] EXCEPT !.step = "publish"] \in JobStates
      BY DEF KeyTypes, JobStates
    <2>5. job' = [job EXCEPT ![b] = [job[b] EXCEPT !.step = "publish"]]
      BY <2>1
    <2>6. job' \in [KeyBrokers -> JobStates]
      BY <2>4, <2>5 DEF KeyTypes
    <2> QED BY <2>1, <2>3, <2>6 DEF KeyTypes
  <1>6. ASSUME NEW b \in KeyBrokers, OnKeysChange(b) PROVE KeyTypes'
    <2>1. /\ toldKeys[b] > 0 /\ toldKeys' = [toldKeys EXCEPT ![b] = toldKeys[b] - 1]
          /\ adoptions' = [adoptions EXCEPT ![b] = Append(adoptions[b], Unread)]
          /\ UNCHANGED <<keys, keyDoc, chain, job, joined, publications>>
      BY <1>6 DEF OnKeysChange
    <2>2. toldKeys' \in [KeyBrokers -> Nat]
      BY <2>1 DEF KeyTypes
    <2>3. Append(adoptions[b], Unread) \in Seq(Adoptions)
      BY EmptyDirectory DEF KeyTypes
    <2>4. adoptions' \in [KeyBrokers -> Seq(Adoptions)]
      BY <2>1, <2>3 DEF KeyTypes
    <2> QED BY <2>1, <2>2, <2>4 DEF KeyTypes
  <1>7. ASSUME NEW b \in KeyBrokers, ReadForAdoption(b) PROVE KeyTypes'
    <2> DEFINE e == [read |-> TRUE, doc |-> keyDoc]
    <2>1. PICK n \in DOMAIN adoptions[b] : adoptions' = [adoptions EXCEPT ![b][n] = e]
      BY <1>7 DEF ReadForAdoption
    <2>2. e \in Adoptions
      BY DEF KeyTypes, Adoptions
    <2> HIDE DEF e
    <2>3. [adoptions[b] EXCEPT ![n] = e] \in Seq(Adoptions)
      BY <2>2 DEF KeyTypes
    <2>4. adoptions' = [adoptions EXCEPT ![b] = [adoptions[b] EXCEPT ![n] = e]]
      BY <2>1
    <2>5. adoptions' \in [KeyBrokers -> Seq(Adoptions)]
      BY <2>3, <2>4 DEF KeyTypes
    <2> QED BY <1>7, <2>5 DEF ReadForAdoption, KeyTypes
  <1>8. ASSUME NEW b \in KeyBrokers, AdoptClusterKeys(b) PROVE KeyTypes'
    <2> DEFINE mine == [r \in KeyRealms |-> [i \in Owners |->
                          AdoptedKeys(keys[b][r][i], Head(adoptions[b]).doc[r][i])]]
    <2>1. /\ adoptions[b] # <<>> /\ keys' = [keys EXCEPT ![b] = mine]
          /\ adoptions' = [adoptions EXCEPT ![b] = Tail(adoptions[b])]
          /\ UNCHANGED <<keyDoc, chain, job, toldKeys, joined, publications>>
      BY <1>8 DEF AdoptClusterKeys
    <2>2. Head(adoptions[b]) \in Adoptions /\ Tail(adoptions[b]) \in Seq(Adoptions)
      BY <2>1, Shortened DEF KeyTypes
    <2>3. Head(adoptions[b]).doc \in Directories /\ keys[b] \in Directories
      BY <2>2 DEF Adoptions, KeyTypes
    <2>4. mine \in Directories
      BY <2>3 DEF Directories, AdoptedKeys
    <2> HIDE DEF mine
    <2>5. keys' \in [KeyBrokers -> Directories] /\ adoptions' \in [KeyBrokers -> Seq(Adoptions)]
      BY <2>1, <2>2, <2>4 DEF KeyTypes
    <2> QED BY <2>1, <2>5 DEF KeyTypes
  <1>9. ASSUME NEW b \in KeyBrokers, JoinCluster(b) PROVE KeyTypes'
    <2>1. /\ joined' = [joined EXCEPT ![b] = TRUE]
          /\ adoptions' = [adoptions EXCEPT ![b] = <<Unread>>]
          /\ UNCHANGED <<keys, keyDoc, chain, job, toldKeys, publications>>
      BY <1>9 DEF JoinCluster
    <2>2. joined' \in [KeyBrokers -> BOOLEAN]
      BY <2>1, Updated, Zenon DEF KeyTypes
    <2>3. <<Unread>> \in Seq(Adoptions)
      BY EmptyDirectory
    <2>4. adoptions' \in [KeyBrokers -> Seq(Adoptions)]
      BY <2>1, <2>3 DEF KeyTypes
    <2> QED BY <2>1, <2>2, <2>4 DEF KeyTypes
  <1> QED BY <1>1, <1>2, <1>3, <1>4, <1>5, <1>6, <1>7, <1>8, <1>9 DEF KeyNext

(* One broker publishes.  Its chain leads from the document to its own     *)
(* directory: the trail of documents in between, the first job of which    *)
(* may be done already.                                                    *)
IsTrail(trail, jobs, from, to) ==
  /\ trail \in Seq(Directories) /\ Len(trail) = Len(jobs) + 1
  /\ trail[1] = from /\ LastOf(trail) = to
  /\ \A n \in DOMAIN jobs : trail[n + 1] = Changed(jobs[n], trail[n])

Leads(jobs, from, to) == \E trail \in Seq(Directories) : IsTrail(trail, jobs, from, to)

(* A trail goes on with a new job. *)
LEMMA TrailGrows ==
  ASSUME NEW jobs \in Seq(Jobs), NEW j \in Jobs, NEW from, NEW to \in Directories,
         Leads(jobs, from, to)
  PROVE  Leads(Append(jobs, j), from, Changed(j, to))
  <1>1. PICK trail \in Seq(Directories) : IsTrail(trail, jobs, from, to)
    BY DEF Leads
  <1> DEFINE d == Changed(j, to)
             longer == Append(trail, d)
             more == Append(jobs, j)
             l == Len(jobs)
  <1>2. d \in Directories
    BY ChangedDirectory
  <1> HIDE DEF d
  <1>3. /\ l \in Nat /\ DOMAIN jobs = 1..l /\ Len(trail) = l + 1 /\ trail[1] = from
        /\ trail[l + 1] = to /\ \A n \in 1..l : trail[n + 1] = Changed(jobs[n], trail[n])
    BY <1>1 DEF IsTrail, LastOf
  <1>4. /\ longer \in Seq(Directories) /\ Len(longer) = l + 2 /\ longer[l + 2] = d
        /\ \A n \in 1..(l + 1) : longer[n] = trail[n]
    BY <1>2, <1>3
  <1>5. /\ Len(more) = l + 1 /\ DOMAIN more = 1..(l + 1) /\ more[l + 1] = j
        /\ \A n \in 1..l : more[n] = jobs[n]
    BY <1>3
  <1> HIDE DEF longer, more, l
  <1>6. longer[1] = from /\ LastOf(longer) = d
    BY <1>3, <1>4 DEF LastOf
  <1>7. ASSUME NEW n \in 1..(l + 1) PROVE longer[n + 1] = Changed(more[n], longer[n])
    <2>1. CASE n = l + 1
      <3>1. longer[n + 1] = d /\ more[n] = j /\ longer[n] = to
        BY <1>3, <1>4, <1>5, <2>1
      <3> QED BY <3>1 DEF d
    <2>2. CASE n # l + 1
      <3>1. n \in 1..l /\ n + 1 \in 1..(l + 1)
        BY <1>3, <2>2
      <3>2. longer[n + 1] = trail[n + 1] /\ more[n] = jobs[n] /\ longer[n] = trail[n]
        BY <1>4, <1>5, <3>1
      <3> QED BY <1>3, <3>1, <3>2
    <2> QED BY <2>1, <2>2
  <1>8. Len(longer) = Len(more) + 1
    BY <1>3, <1>4, <1>5
  <1>9. IsTrail(longer, more, from, d)
    BY <1>4, <1>5, <1>6, <1>7, <1>8 DEF IsTrail
  <1> QED BY <1>4, <1>9 DEF Leads, d, more

(* A trail whose first job is done. *)
LEMMA TrailShrinks ==
  ASSUME NEW jobs \in Seq(Jobs), jobs # <<>>, NEW from, NEW to, Leads(jobs, from, to)
  PROVE  Leads(Tail(jobs), Changed(Head(jobs), from), to)
  <1>1. PICK trail \in Seq(Directories) : IsTrail(trail, jobs, from, to)
    BY DEF Leads
  <1> DEFINE rest == Tail(trail)
             less == Tail(jobs)
             l == Len(jobs)
  <1>2. /\ l \in Nat /\ l # 0 /\ DOMAIN jobs = 1..l /\ Len(trail) = l + 1 /\ trail[1] = from
        /\ LastOf(trail) = to /\ \A n \in 1..l : trail[n + 1] = Changed(jobs[n], trail[n])
    BY <1>1 DEF IsTrail
  <1>3. trail # <<>>
    BY <1>2
  <1>4. /\ rest \in Seq(Directories) /\ Len(rest) = l /\ (rest # <<>> => LastOf(rest) = to)
        /\ \A n \in DOMAIN rest : rest[n] = trail[n + 1]
    <2>1. Len(rest) = Len(trail) - 1
      BY <1>3, Shortened
    <2>2. Len(rest) = l
      BY <1>2, <2>1
    <2> QED BY <1>2, <1>3, <2>2, Shortened
  <1>5. /\ Head(jobs) = jobs[1] /\ less \in Seq(Jobs) /\ Len(less) = l - 1
        /\ \A n \in DOMAIN less : less[n] = jobs[n + 1]
    BY Shortened
  <1> HIDE DEF rest, less, l
  <1>6. DOMAIN rest = 1..l /\ DOMAIN less = 1..(l - 1) /\ rest # <<>>
    BY <1>2, <1>4, <1>5
  <1>7. rest[1] = Changed(Head(jobs), from)
    <2>1. 1 \in 1..l
      BY <1>2
    <2> QED BY <1>2, <1>4, <1>5, <1>6, <2>1
  <1>8. \A n \in DOMAIN less : rest[n + 1] = Changed(less[n], rest[n])
    <2> SUFFICES ASSUME NEW n \in 1..(l - 1) PROVE rest[n + 1] = Changed(less[n], rest[n])
      BY <1>6
    <2>1. n \in 1..l /\ n + 1 \in 1..l
      BY <1>2
    <2>2. rest[n] = trail[n + 1] /\ rest[n + 1] = trail[(n + 1) + 1] /\ less[n] = jobs[n + 1]
      BY <1>4, <1>5, <1>6, <2>1
    <2> QED BY <1>2, <2>1, <2>2
  <1>9. Len(rest) = Len(less) + 1
    BY <1>2, <1>4, <1>5
  <1>10. IsTrail(rest, less, Changed(Head(jobs), from), to)
    BY <1>4, <1>6, <1>7, <1>8, <1>9 DEF IsTrail
  <1> QED BY <1>4, <1>10 DEF Leads, less

(* A trail without jobs ends where it begins, and there is one. *)
LEMMA EmptyTrail ==
  ASSUME NEW from \in Directories, NEW to
  PROVE  Leads(<<>>, from, from) /\ (Leads(<<>>, from, to) => from = to)
  <1>1. IsTrail(<<from>>, <<>>, from, from) /\ <<from>> \in Seq(Directories)
    BY DEF IsTrail, LastOf
  <1>2. Leads(<<>>, from, to) => from = to
    <2> SUFFICES ASSUME NEW trail \in Seq(Directories), IsTrail(trail, <<>>, from, to)
                 PROVE  from = to
      BY DEF Leads
    <2>1. Len(trail) = 1
      BY DEF IsTrail
    <2> QED BY <2>1 DEF IsTrail, LastOf
  <1> QED BY <1>1, <1>2 DEF Leads

(* The publisher adopts nothing; what it read is the document; its chain   *)
(* leads to its own directory, from the document or, when the first job    *)
(* has been written, from there on.                                        *)
PublisherInv(p) ==
  /\ joined[p] /\ toldKeys[p] = 0 /\ adoptions[p] = <<>>
  /\ job[p].step # "get" => chain[p] # <<>>
  /\ job[p].step = "act" => job[p].doc = keyDoc
  /\ IF job[p].step = "publish" THEN Leads(Tail(chain[p]), keyDoc, keys[p])
                                ELSE Leads(chain[p], keyDoc, keys[p])

(* What the document has, a broker finds. *)
Finds(mine, doc) ==
  \A r \in KeyRealms, i \in Owners : doc[r][i] # NoKeys => mine[r][i] = doc[r][i]

(* The others have no jobs, and until one has the document, it is still to *)
(* be told, or to read, or it has read it.                                 *)
Current(p, b) ==
  joined[b] /\ toldKeys[b] = 0 /\ job[p].step # "publish" =>
    IF adoptions[b] = <<>> THEN Finds(keys[b], keyDoc)
    ELSE LastOf(adoptions[b]).read => LastOf(adoptions[b]).doc = keyDoc
FollowerInv(p) == \A b \in KeyBrokers \ {p} : chain[b] = <<>> /\ Current(p, b)

DirectoryInv(p) == KeyTypes /\ PublisherInv(p) /\ FollowerInv(p)

(* The publisher changes its directory. *)
LEMMA OwnChangeStep ==
  ASSUME NEW p \in KeyBrokers, Publishers \subseteq {p}, DirectoryInv(p), KeyTypes',
         NEW b \in KeyBrokers, NEW r \in KeyRealms,
         \/ \E i \in Owners, k \in KeyIds : KeyPublish(b, r, i, k)
         \/ PurgeRealmKeys(b, r)
         \/ \E to \in KeyRealms : RenameRealmKeys(b, r, to)
  PROVE  DirectoryInv(p)'
  <1>0. KeyTypes /\ PublisherInv(p) /\ FollowerInv(p)
    BY DEF DirectoryInv
  <1>1. /\ b \in Publishers /\ UNCHANGED <<keyDoc, job, toldKeys, adoptions, joined>>
        /\ \E j \in Jobs : /\ keys' = [keys EXCEPT ![b] = Changed(j, keys[b])]
                           /\ chain' = [chain EXCEPT ![b] = Append(chain[b], j)]
    BY <1>0, OwnChange
  <1>2. b = p
    BY <1>1
  <1>3. PICK j \in Jobs : /\ keys' = [keys EXCEPT ![p] = Changed(j, keys[p])]
                          /\ chain' = [chain EXCEPT ![p] = Append(chain[p], j)]
    BY <1>1, <1>2
  <1>4. /\ keys'[p] = Changed(j, keys[p]) /\ chain'[p] = Append(chain[p], j)
        /\ \A q \in KeyBrokers \ {p} : keys'[q] = keys[q] /\ chain'[q] = chain[q]
    BY <1>0, <1>3 DEF KeyTypes
  <1>5. chain[p] \in Seq(Jobs) /\ keys[p] \in Directories
    BY <1>0 DEF KeyTypes
  <1>6. chain'[p] # <<>>
    BY <1>4, <1>5, Appended
  <1>7. CASE job[p].step = "publish"
    <2>1. chain[p] # <<>> /\ Leads(Tail(chain[p]), keyDoc, keys[p])
      BY <1>0, <1>7 DEF PublisherInv
    <2>2. Tail(chain[p]) \in Seq(Jobs)
      BY <1>5, <2>1, Shortened
    <2>3. Tail(Append(chain[p], j)) = Append(Tail(chain[p]), j)
      BY <1>5, <2>1
    <2>4. Leads(Tail(chain'[p]), keyDoc, keys'[p])
      BY <1>4, <1>5, <2>1, <2>2, <2>3, TrailGrows
    <2> QED BY <1>0, <1>1, <1>4, <1>6, <1>7, <2>4 DEF DirectoryInv, PublisherInv, FollowerInv, Current
  <1>8. CASE job[p].step # "publish"
    <2>1. Leads(chain[p], keyDoc, keys[p])
      BY <1>0, <1>8 DEF PublisherInv
    <2>2. Leads(chain'[p], keyDoc, keys'[p])
      BY <1>4, <1>5, <2>1, TrailGrows
    <2> QED BY <1>0, <1>1, <1>4, <1>6, <1>8, <2>2 DEF DirectoryInv, PublisherInv, FollowerInv, Current
  <1> QED BY <1>7, <1>8

(* The jobs of the publisher. *)
LEMMA JobStep ==
  ASSUME NEW p \in KeyBrokers, DirectoryInv(p), KeyTypes', NEW b \in KeyBrokers,
         GetKeys(b) \/ SkipJob(b) \/ PutKeys(b) \/ PublishChange(b)
  PROVE  DirectoryInv(p)'
  <1>0. KeyTypes /\ PublisherInv(p) /\ FollowerInv(p)
    BY DEF DirectoryInv
  <1>1. b = p /\ chain[p] # <<>>
    BY <1>0 DEF FollowerInv, GetKeys, SkipJob, PutKeys, PublishChange
  <1>2. UNCHANGED <<keys, adoptions, joined>>
    BY DEF GetKeys, SkipJob, PutKeys, PublishChange
  <1>3. chain[p] \in Seq(Jobs) /\ Head(chain[p]) \in Jobs /\ keyDoc \in Directories
    BY <1>0, <1>1, Shortened DEF KeyTypes
  <1>4. CASE GetKeys(b)
    <2>1. /\ job[p].step = "get" /\ job' = [job EXCEPT ![p] = [step |-> "act", doc |-> keyDoc]]
          /\ UNCHANGED <<keyDoc, chain, toldKeys>>
      BY <1>1, <1>4 DEF GetKeys
    <2>2. job'[p].step = "act" /\ job'[p].doc = keyDoc
      BY <1>0, <2>1 DEF KeyTypes
    <2>3. PublisherInv(p)'
      BY <1>0, <1>1, <1>2, <2>1, <2>2 DEF PublisherInv
    <2>4. FollowerInv(p)'
      BY <1>0, <1>2, <2>1, <2>2 DEF FollowerInv, Current
    <2> QED BY <2>3, <2>4 DEF DirectoryInv
  <1>5. CASE SkipJob(b)
    <2>1. /\ job[p].step = "act" /\ ~Writes(Head(chain[p]), job[p].doc)
          /\ chain' = [chain EXCEPT ![p] = Tail(chain[p])] /\ job' = [job EXCEPT ![p] = Idle]
          /\ UNCHANGED <<keyDoc, toldKeys>>
      BY <1>1, <1>5 DEF SkipJob, NextJob
    <2>2. /\ job'[p].step = "get" /\ chain'[p] = Tail(chain[p])
          /\ \A q \in KeyBrokers \ {p} : chain'[q] = chain[q]
      BY <1>0, <2>1 DEF KeyTypes, Idle
    <2>3. job[p].doc = keyDoc /\ Leads(chain[p], keyDoc, keys[p])
      BY <1>0, <2>1 DEF PublisherInv
    <2>4. Changed(Head(chain[p]), keyDoc) = keyDoc
      BY <1>3, <2>1, <2>3, ChangedDirectory
    <2>5. Leads(Tail(chain[p]), keyDoc, keys[p])
      BY <1>1, <1>3, <2>3, <2>4, TrailShrinks
    <2>6. PublisherInv(p)'
      BY <1>0, <1>2, <2>1, <2>2, <2>5 DEF PublisherInv
    <2>7. FollowerInv(p)'
      BY <1>0, <1>2, <2>1, <2>2 DEF FollowerInv, Current
    <2> QED BY <2>6, <2>7 DEF DirectoryInv
  <1>6. CASE PutKeys(b)
    <2>1. /\ job[p].step = "act" /\ keyDoc' = Changed(Head(chain[p]), job[p].doc)
          /\ job' = [job EXCEPT ![p].step = "publish"]
          /\ UNCHANGED <<chain, toldKeys>>
      BY <1>1, <1>6 DEF PutKeys
    <2>2. job'[p].step = "publish"
      BY <1>0, <2>1 DEF KeyTypes, JobStates
    <2>3. job[p].doc = keyDoc /\ Leads(chain[p], keyDoc, keys[p])
      BY <1>0, <2>1 DEF PublisherInv
    <2>4. Leads(Tail(chain[p]), keyDoc', keys[p])
      BY <1>1, <1>3, <2>1, <2>3, TrailShrinks
    <2>5. PublisherInv(p)'
      BY <1>0, <1>1, <1>2, <2>1, <2>2, <2>4 DEF PublisherInv
    <2>6. FollowerInv(p)'
      BY <1>0, <2>1, <2>2 DEF FollowerInv, Current
    <2> QED BY <2>5, <2>6 DEF DirectoryInv
  <1>7. CASE PublishChange(b)
    <2>1. /\ job[p].step = "publish"
          /\ toldKeys' = [q \in KeyBrokers |->
               IF q # p /\ joined[q] THEN toldKeys[q] + 1 ELSE toldKeys[q]]
          /\ chain' = [chain EXCEPT ![p] = Tail(chain[p])] /\ job' = [job EXCEPT ![p] = Idle]
          /\ UNCHANGED keyDoc
      BY <1>1, <1>7 DEF PublishChange, NextJob
    <2>2. /\ job'[p].step = "get" /\ chain'[p] = Tail(chain[p])
          /\ \A q \in KeyBrokers \ {p} : chain'[q] = chain[q]
      BY <1>0, <2>1 DEF KeyTypes, Idle
    <2>3. toldKeys'[p] = toldKeys[p] /\ \A q \in KeyBrokers \ {p} : joined[q] => toldKeys'[q] # 0
      <3>1. \A q \in KeyBrokers : toldKeys[q] \in Nat
        BY <1>0 DEF KeyTypes
      <3> QED BY <2>1, <3>1
    <2>4. PublisherInv(p)'
      BY <1>0, <1>2, <2>1, <2>2, <2>3 DEF PublisherInv
    <2>5. FollowerInv(p)'
      BY <1>0, <1>2, <2>2, <2>3 DEF FollowerInv, Current
    <2> QED BY <2>4, <2>5 DEF DirectoryInv
  <1> QED BY <1>4, <1>5, <1>6, <1>7

(* The adoptions of the others. *)
LEMMA AdoptionStep ==
  ASSUME NEW p \in KeyBrokers, DirectoryInv(p), KeyTypes', NEW b \in KeyBrokers,
         OnKeysChange(b) \/ ReadForAdoption(b) \/ AdoptClusterKeys(b) \/ JoinCluster(b)
  PROVE  DirectoryInv(p)'
  <1>0. KeyTypes /\ PublisherInv(p) /\ FollowerInv(p)
    BY DEF DirectoryInv
  <1>1. b # p
    BY <1>0 DEF PublisherInv, OnKeysChange, ReadForAdoption, AdoptClusterKeys, JoinCluster
  <1>2. UNCHANGED <<keyDoc, chain, job>>
    BY DEF OnKeysChange, ReadForAdoption, AdoptClusterKeys, JoinCluster
  <1>3. \A q \in KeyBrokers \ {b} : /\ keys'[q] = keys[q] /\ toldKeys'[q] = toldKeys[q]
                                    /\ adoptions'[q] = adoptions[q] /\ joined'[q] = joined[q]
    BY <1>0 DEF OnKeysChange, ReadForAdoption, AdoptClusterKeys, JoinCluster, KeyTypes
  <1>4. PublisherInv(p)'
    BY <1>0, <1>1, <1>2, <1>3 DEF PublisherInv
  <1>5. Unread.read = FALSE
    BY DEF Unread
  <1>6. adoptions[b] \in Seq(Adoptions)
    BY <1>0 DEF KeyTypes
  <1>7. Current(p, b)'
    <2>1. CASE OnKeysChange(b)
      <3>1. adoptions' = [adoptions EXCEPT ![b] = Append(adoptions[b], Unread)]
        BY <2>1 DEF OnKeysChange
      <3>2. adoptions'[b] = Append(adoptions[b], Unread)
        BY <1>0, <3>1 DEF KeyTypes
      <3>3. adoptions'[b] # <<>> /\ LastOf(adoptions'[b]) = Unread
        BY <1>6, <3>2, EmptyDirectory, Appended
      <3> QED BY <1>5, <3>3 DEF Current
    <2>2. CASE ReadForAdoption(b)
      <3> DEFINE e == [read |-> TRUE, doc |-> keyDoc]
      <3>1. PICK n \in DOMAIN adoptions[b] : adoptions' = [adoptions EXCEPT ![b][n] = e]
        BY <2>2 DEF ReadForAdoption
      <3>2. adoptions'[b] = [adoptions[b] EXCEPT ![n] = e]
        BY <1>0, <3>1 DEF KeyTypes
      <3>3. e.doc = keyDoc
        OBVIOUS
      <3> HIDE DEF e
      <3>4. /\ adoptions[b] # <<>> /\ adoptions'[b] # <<>>
            /\ LastOf(adoptions'[b]) \in {e, LastOf(adoptions[b])}
        BY <1>6, <3>2 DEF LastOf
      <3>5. UNCHANGED <<joined, toldKeys>>
        BY <2>2 DEF ReadForAdoption
      <3>6. Current(p, b)
        BY <1>0, <1>1 DEF FollowerInv
      <3> QED BY <1>2, <3>3, <3>4, <3>5, <3>6 DEF Current
    <2>3. CASE AdoptClusterKeys(b)
      <3> DEFINE h == Head(adoptions[b])
                 mine == [r \in KeyRealms |-> [i \in Owners |->
                            AdoptedKeys(keys[b][r][i], h.doc[r][i])]]
      <3>1. /\ adoptions[b] # <<>> /\ h.read /\ keys' = [keys EXCEPT ![b] = mine]
            /\ adoptions' = [adoptions EXCEPT ![b] = Tail(adoptions[b])]
            /\ UNCHANGED <<toldKeys, joined>>
        BY <2>3 DEF AdoptClusterKeys
      <3>2. keys'[b] = mine /\ adoptions'[b] = Tail(adoptions[b])
        BY <1>0, <3>1 DEF KeyTypes
      <3>3. /\ Tail(adoptions[b]) # <<>> => LastOf(Tail(adoptions[b])) = LastOf(adoptions[b])
            /\ Tail(adoptions[b]) = <<>> => h = LastOf(adoptions[b])
        BY <1>6, <3>1, Shortened
      <3> SUFFICES ASSUME joined[b], toldKeys[b] = 0, job[p].step # "publish"
                   PROVE  IF Tail(adoptions[b]) = <<>> THEN Finds(mine, keyDoc)
                          ELSE LastOf(Tail(adoptions[b])).read
                                 => LastOf(Tail(adoptions[b])).doc = keyDoc
        BY <1>2, <3>1, <3>2 DEF Current
      <3>4. LastOf(adoptions[b]).read => LastOf(adoptions[b]).doc = keyDoc
        BY <1>0, <1>1, <3>1 DEF FollowerInv, Current
      <3>5. h.doc = keyDoc => Finds(mine, keyDoc)
        BY DEF Finds, AdoptedKeys
      <3> HIDE DEF mine, h
      <3> QED BY <3>1, <3>3, <3>4, <3>5
    <2>4. CASE JoinCluster(b)
      <3>1. adoptions'[b] = <<Unread>>
        BY <1>0, <2>4 DEF JoinCluster, KeyTypes
      <3>2. adoptions'[b] # <<>> /\ LastOf(adoptions'[b]) = Unread
        BY <3>1 DEF LastOf
      <3> QED BY <1>5, <3>2 DEF Current
    <2> QED BY <2>1, <2>2, <2>3, <2>4
  <1>8. FollowerInv(p)'
    <2> SUFFICES ASSUME NEW q \in KeyBrokers \ {p} PROVE chain'[q] = <<>> /\ Current(p, q)'
      BY DEF FollowerInv
    <2>1. chain'[q] = <<>>
      BY <1>0, <1>2 DEF FollowerInv
    <2>2. CASE q = b
      BY <1>7, <2>1, <2>2
    <2>3. CASE q # b
      BY <1>0, <1>2, <1>3, <2>1, <2>3 DEF FollowerInv, Current
    <2> QED BY <2>2, <2>3
  <1> QED BY <1>4, <1>8 DEF DirectoryInv

(* The types of directories, jobs and adoptions (lib/server.js, the key    *)
(* directory's mirror chain and adoptClusterKeys).                         *)
THEOREM KeyTypeCorrect == KeySpec => []KeyTypes
  <1>1. KeyInit => KeyTypes
    <2> SUFFICES ASSUME KeyInit PROVE KeyTypes
      OBVIOUS
    <2>1. joined \in [KeyBrokers -> BOOLEAN]
      BY DEF KeyInit
    <2>2. 0 \in 0..MaxPublications /\ <<>> \in Seq(Jobs) /\ <<>> \in Seq(Adoptions)
      BY KeyAssumption
    <2> QED BY <2>1, <2>2, EmptyDirectory DEF KeyInit, KeyTypes
  <1> QED BY <1>1, KeyTypeStep, PTL DEF KeySpec

(* lib/cluster.js:184: "a KEY_LOOKUP on any node sees keys published on    *)
(* any other".  With one publishing broker that was there from the start,  *)
(* once nothing is under way every broker finds what the document has, and *)
(* the document is the publisher's directory, for any number of brokers,   *)
(* realms, publications, purges and renames.                               *)
THEOREM LookupsSeeEveryKey ==
  ASSUME NEW p \in KeyBrokers, Publishers \subseteq {p}, p \notin LateBrokers
  PROVE  KeySpec => []LookupsAgree
  <1>1. KeyInit /\ KeyTypes => DirectoryInv(p)
    <2> SUFFICES ASSUME KeyInit, KeyTypes PROVE DirectoryInv(p)
      OBVIOUS
    <2>0. /\ job[p].step = "get" /\ keyDoc = NoDirectory /\ keys[p] = NoDirectory
          /\ \A b \in KeyBrokers : chain[b] = <<>> /\ adoptions[b] = <<>> /\ toldKeys[b] = 0
      BY DEF KeyInit, Idle
    <2>1. Leads(<<>>, NoDirectory, NoDirectory)
      BY EmptyDirectory, EmptyTrail
    <2>2. joined[p]
      BY DEF KeyInit
    <2>3. PublisherInv(p)
      BY <2>0, <2>1, <2>2 DEF PublisherInv
    <2>4. FollowerInv(p)
      BY <2>0, EmptyDirectory DEF FollowerInv, Current, Finds
    <2> QED BY <2>3, <2>4 DEF DirectoryInv
  <1>2. DirectoryInv(p) /\ KeyTypes' /\ [KeyNext]_keyVars => DirectoryInv(p)'
    <2> SUFFICES ASSUME DirectoryInv(p), KeyTypes', [KeyNext]_keyVars PROVE DirectoryInv(p)'
      OBVIOUS
    <2>1. CASE UNCHANGED keyVars
      BY <2>1 DEF keyVars, DirectoryInv, PublisherInv, FollowerInv, Current
    <2>2. ASSUME NEW b \in KeyBrokers, NEW r \in KeyRealms,
                 \/ \E i \in Owners, k \in KeyIds : KeyPublish(b, r, i, k)
                 \/ PurgeRealmKeys(b, r)
                 \/ \E to \in KeyRealms : RenameRealmKeys(b, r, to)
          PROVE  DirectoryInv(p)'
      BY <2>2, OwnChangeStep
    <2>3. ASSUME NEW b \in KeyBrokers, GetKeys(b) \/ SkipJob(b) \/ PutKeys(b) \/ PublishChange(b)
          PROVE  DirectoryInv(p)'
      BY <2>3, JobStep
    <2>4. ASSUME NEW b \in KeyBrokers,
                 OnKeysChange(b) \/ ReadForAdoption(b) \/ AdoptClusterKeys(b) \/ JoinCluster(b)
          PROVE  DirectoryInv(p)'
      BY <2>4, AdoptionStep
    <2> QED BY <2>1, <2>2, <2>3, <2>4 DEF KeyNext
  <1>3. DirectoryInv(p) => LookupsAgree
    <2> SUFFICES ASSUME DirectoryInv(p), KeyQuiet, NEW b \in KeyBrokers, NEW r \in KeyRealms,
                        NEW i \in Owners
                 PROVE  /\ b \in Publishers => keys[b][r][i] = keyDoc[r][i]
                        /\ keyDoc[r][i] # NoKeys => keys[b][r][i] = keyDoc[r][i]
      BY DEF LookupsAgree
    <2>0. KeyTypes /\ PublisherInv(p) /\ FollowerInv(p)
      BY DEF DirectoryInv
    <2>1. chain[p] = <<>> /\ joined[b] /\ toldKeys[b] = 0 /\ adoptions[b] = <<>>
      BY DEF KeyQuiet
    <2>2. job[p].step = "get"
      BY <2>0, <2>1 DEF PublisherInv
    <2>3. Leads(<<>>, keyDoc, keys[p])
      BY <2>0, <2>1, <2>2 DEF PublisherInv
    <2>4. keyDoc = keys[p]
      BY <2>0, <2>3, EmptyTrail DEF KeyTypes
    <2>5. b # p => Finds(keys[b], keyDoc)
      BY <2>0, <2>1, <2>2 DEF FollowerInv, Current
    <2> QED BY <2>4, <2>5 DEF Finds
  <1> QED BY <1>1, <1>2, <1>3, KeyTypeCorrect, PTL DEF KeySpec


-----------------------------------------------------------------------------
(* The relay of messages.                                                  *)

RelayTypes ==
  /\ known \in [RelayBrokers -> SUBSET Subscribers]
  /\ place \in [Subscribers -> RelayBrokers \cup {Nowhere}]
  /\ wires \in [RelayBrokers -> Seq(Messages)]
  /\ got \in [Subscribers -> [Messages -> Nat]]
  /\ method \in [Messages -> Methods \cup {"none"}]
  /\ staying \in [Messages -> SUBSET Subscribers]
  /\ sent \in 0..MaxSent

(* What a broker sends to targets: a copy to each of them whose socket it  *)
(* has.                                                                    *)
Copied(b, m, targets) ==
  got' = [c \in Subscribers |->
    IF c \in Live(b, targets) THEN [got[c] EXCEPT ![m] = @ + 1] ELSE got[c]]

(* Targets that a broker has the sockets of get one copy of the message;   *)
(* nobody else gets anything, and no other message is touched.             *)
LEMMA CopyEffect ==
  ASSUME RelayTypes, NEW b \in RelayBrokers, NEW m \in Messages, NEW targets,
         Copied(b, m, targets)
  PROVE  /\ got' \in [Subscribers -> [Messages -> Nat]]
         /\ \A c \in Subscribers :
              got'[c][m] = IF c \in targets /\ place[c] = b THEN got[c][m] + 1 ELSE got[c][m]
         /\ \A c \in Subscribers, x \in Messages : x # m => got'[c][x] = got[c][x]
  <1>1. \A c \in Subscribers : c \in Live(b, targets) <=> c \in targets /\ place[c] = b
    BY DEF Live
  <1>2. \A c \in Subscribers :
          got'[c] = IF c \in targets /\ place[c] = b THEN [got[c] EXCEPT ![m] = got[c][m] + 1]
                    ELSE got[c]
    BY <1>1 DEF Copied
  <1>3. \A c \in Subscribers : got[c] \in [Messages -> Nat] /\ got[c][m] + 1 \in Nat
    BY DEF RelayTypes
  <1>4. \A c \in Subscribers : got'[c] \in [Messages -> Nat]
    BY <1>2, <1>3
  <1>5. got' = [c \in Subscribers |-> got'[c]]
    BY DEF Copied
  <1> QED BY <1>2, <1>3, <1>4, <1>5

(* Routing message m on broker b gives one copy to some of the subscribers *)
(* connected there: to all of them when it is broadcast, to those outside  *)
(* groups when it is normal.  Of the members of groups a normal message    *)
(* reaches one, and none when it was relayed.                              *)
Same(c, m) == got'[c][m] = got[c][m] /\ (<<c, m>> \in stored' <=> <<c, m>> \in stored)
RouteEffect(b, m, how, relay) ==
  /\ got' \in [Subscribers -> [Messages -> Nat]]
  /\ \A c \in Subscribers, x \in Messages : x # m => Same(c, x)
  /\ \A c \in Subscribers :
       got'[c][m] = got[c][m] \/ (place[c] = b /\ got'[c][m] = got[c][m] + 1)
  /\ \A c \in Subscribers :
       /\ place[c] = b /\ c \in known[b]
       /\ how = "broadcast" \/ (how = "normal" /\ ~InGroup(c))
       => got'[c][m] = got[c][m] + 1
  /\ how = "normal" =>
       \E x : \A c \in Subscribers : InGroup(c) /\ (relay \/ c # x) => Same(c, m)

(* Route does what is said above. *)
LEMMA Routed ==
  ASSUME RelayTypes, NEW b \in RelayBrokers, NEW m \in Messages, NEW how,
         NEW relay \in BOOLEAN, Route(b, m, how, relay)
  PROVE  RouteEffect(b, m, how, relay)
  <1>1. CASE how = "normal" /\ GenerateMessage(b, m, relay)
    <2> DEFINE T == Direct(b, relay) \cup Selected(b, relay)
    <2>1. /\ Copied(b, m, T)
          /\ stored' = stored \cup
               {<<c, m>> : c \in {d \in T \ Live(b, T) : Profiles[d].durable}}
      BY <1>1, Zenon DEF GenerateMessage, Delivered, Copied
    <2>2. \A c \in Subscribers, x \in Messages :
            x # m \/ c \notin T => (<<c, x>> \in stored' <=> <<c, x>> \in stored)
      BY <2>1
    <2>3. known[b] \subseteq Subscribers
      BY DEF RelayTypes
    <2>4. \A c \in Subscribers : place[c] = b /\ c \in known[b] /\ ~InGroup(c) => c \in T
      BY DEF Direct, Ungrouped, Grouped, InGroup, Live
    <2>5. \A c \in Direct(b, relay) : c \in known[b] /\ ~InGroup(c)
      BY DEF Direct, Ungrouped, Grouped, InGroup, Live
    <2>6. PICK x : Selected(b, relay) \subseteq {x} /\ (relay => Selected(b, relay) = {})
      BY DEF Selected, Bucket
    <2>7. \A c \in Subscribers : InGroup(c) /\ (relay \/ c # x) => c \notin T
      BY <2>5, <2>6
    <2> HIDE DEF T
    <2>8. /\ got' \in [Subscribers -> [Messages -> Nat]]
          /\ \A c \in Subscribers :
              got'[c][m] = IF c \in T /\ place[c] = b THEN got[c][m] + 1 ELSE got[c][m]
          /\ \A c \in Subscribers, y \in Messages : y # m => got'[c][y] = got[c][y]
      BY <2>1, CopyEffect
    <2>9. \A c \in Subscribers : InGroup(c) /\ (relay \/ c # x) => Same(c, m)
      BY <2>2, <2>7, <2>8 DEF Same
    <2>10. \A c \in Subscribers, y \in Messages : y # m => Same(c, y)
      BY <2>2, <2>8 DEF Same
    <2> QED BY <1>1, <2>4, <2>8, <2>9, <2>10 DEF RouteEffect
  <1>2. ASSUME NEW cs, Broadcast(b, m, cs), how # "normal",
               how = "broadcast" => cs = Subscribers
        PROVE  RouteEffect(b, m, how, relay)
    <2>1. Copied(b, m, cs) /\ stored' = stored
      BY <1>2, Zenon DEF Broadcast, Copied
    <2>2. /\ got' \in [Subscribers -> [Messages -> Nat]]
          /\ \A c \in Subscribers :
              got'[c][m] = IF c \in cs /\ place[c] = b THEN got[c][m] + 1 ELSE got[c][m]
          /\ \A c \in Subscribers, y \in Messages : y # m => got'[c][y] = got[c][y]
      BY <2>1, CopyEffect
    <2> QED BY <1>2, <2>1, <2>2 DEF RouteEffect, Same
  <1> QED BY <1>1, <1>2 DEF Route

(* A wire carries messages in the order of their numbers, none twice.      *)
On(s, x) == \E i \in DOMAIN s : s[i] = x
Ascends(s, top) ==
  \A i \in DOMAIN s : s[i] <= top /\ \A j \in DOMAIN s : i < j => s[i] < s[j]

(* The next message is put on a wire, or is sent past it. *)
LEMMA WireGrows ==
  ASSUME NEW s \in Seq(Messages), NEW n \in Nat, n + 1 \in Messages, Ascends(s, n)
  PROVE  /\ Append(s, n + 1) \in Seq(Messages) /\ Ascends(Append(s, n + 1), n + 1)
         /\ \A x : On(Append(s, n + 1), x) <=> On(s, x) \/ x = n + 1
         /\ Ascends(s, n + 1) /\ ~On(s, n + 1)
  <1> DEFINE t == Append(s, n + 1)
  <1>0. Messages \subseteq Nat
    BY RelayAssumption DEF Messages
  <1>1. /\ t \in Seq(Messages) /\ DOMAIN s = 1..Len(s) /\ DOMAIN t = 1..(Len(s) + 1)
        /\ Len(s) \in Nat /\ t[Len(s) + 1] = n + 1 /\ \A i \in 1..Len(s) : t[i] = s[i]
        /\ \A i \in 1..Len(s) : s[i] \in Messages
    OBVIOUS
  <1> HIDE DEF t
  <1>2. \A i \in DOMAIN t : i \in DOMAIN s \/ i = Len(s) + 1
    BY <1>1
  <1>3. \A i \in DOMAIN s :
          s[i] \in Nat /\ s[i] <= n /\ s[i] < n + 1 /\ s[i] <= n + 1 /\ i \in DOMAIN t
    <2>1. \A i \in DOMAIN s : s[i] \in Nat
      BY <1>0, <1>1, Zenon
    <2>2. \A i \in DOMAIN s : s[i] <= n /\ i \in DOMAIN t
      BY <1>1 DEF Ascends
    <2>3. \A e \in Nat : e <= n => e < n + 1 /\ e <= n + 1
      OBVIOUS
    <2> QED BY <2>1, <2>2, <2>3
  <1>4. Ascends(t, n + 1)
    <2> SUFFICES ASSUME NEW i \in DOMAIN t
                 PROVE  t[i] <= n + 1 /\ \A j \in DOMAIN t : i < j => t[i] < t[j]
      BY DEF Ascends
    <2>1. CASE i \in DOMAIN s
      BY <1>1, <1>2, <1>3, <2>1 DEF Ascends
    <2>2. CASE i = Len(s) + 1
      BY <1>1, <2>2
    <2> QED BY <1>2, <2>1, <2>2
  <1>5. \A x : On(t, x) <=> On(s, x) \/ x = n + 1
    <2>1. Len(s) + 1 \in DOMAIN t
      BY <1>1
    <2> QED BY <1>1, <1>2, <1>3, <2>1 DEF On
  <1>6. Ascends(s, n + 1) /\ ~On(s, n + 1)
    BY <1>1, <1>3 DEF Ascends, On
  <1> QED BY <1>1, <1>4, <1>5, <1>6 DEF t

(* The first message is taken off a wire. *)
LEMMA WireShrinks ==
  ASSUME NEW s \in Seq(Messages), s # <<>>, NEW n \in Nat, Ascends(s, n)
  PROVE  /\ Head(s) \in Messages /\ Head(s) <= n /\ On(s, Head(s))
         /\ Tail(s) \in Seq(Messages) /\ Ascends(Tail(s), n)
         /\ \A x : On(Tail(s), x) <=> On(s, x) /\ x # Head(s)
  <1> DEFINE t == Tail(s)
  <1>0. Messages \subseteq Nat
    BY RelayAssumption DEF Messages
  <1>1. /\ Head(s) \in Messages /\ Head(s) = s[1] /\ 1 \in DOMAIN s
        /\ t \in Seq(Messages) /\ Len(t) = Len(s) - 1
        /\ \A i \in DOMAIN t : i + 1 \in DOMAIN s /\ t[i] = s[i + 1]
    BY Shortened
  <1>2. Len(s) \in Nat /\ DOMAIN s = 1..Len(s) /\ \A i \in DOMAIN s : s[i] \in Nat
    <2>1. Len(s) \in Nat /\ DOMAIN s = 1..Len(s) /\ \A i \in DOMAIN s : s[i] \in Messages
      OBVIOUS
    <2>2. \A e \in Messages : e \in Nat
      BY <1>0
    <2> QED BY <2>1, <2>2, Zenon
  <1>3. DOMAIN t = 1..(Len(s) - 1)
    BY <1>1
  <1> HIDE DEF t
  <1>4. Head(s) <= n /\ On(s, Head(s))
    BY <1>1 DEF Ascends, On
  <1>5. \A i, j \in DOMAIN t : i + 1 \in DOMAIN s /\ j + 1 \in DOMAIN s /\ (i < j => i + 1 < j + 1)
    BY <1>1, <1>3
  <1>6. Ascends(t, n)
    BY <1>1, <1>5 DEF Ascends
  <1>7. \A i \in DOMAIN s : i # 1 => s[1] < s[i] /\ i - 1 \in DOMAIN t /\ t[i - 1] = s[i]
    <2> SUFFICES ASSUME NEW i \in DOMAIN s, i # 1
                 PROVE  s[1] < s[i] /\ i - 1 \in DOMAIN t /\ t[i - 1] = s[i]
      OBVIOUS
    <2>1. i \in Nat /\ 1 < i /\ i - 1 \in DOMAIN t /\ (i - 1) + 1 = i
      BY <1>2, <1>3
    <2> QED BY <1>1, <2>1 DEF Ascends
  <1>8. ASSUME NEW x PROVE On(t, x) <=> On(s, x) /\ x # Head(s)
    <2>1. ASSUME NEW i \in DOMAIN t, t[i] = x PROVE On(s, x) /\ x # Head(s)
      <3>1. i + 1 \in DOMAIN s /\ i + 1 # 1 /\ x = s[i + 1]
        BY <1>1, <1>3, <2>1
      <3>2. s[1] < s[i + 1] /\ s[1] \in Nat /\ s[i + 1] \in Nat
        BY <1>1, <1>2, <1>7, <3>1
      <3> QED BY <1>1, <3>1, <3>2 DEF On
    <2>2. ASSUME NEW i \in DOMAIN s, s[i] = x, x # Head(s) PROVE On(t, x)
      BY <1>1, <1>7, <2>2 DEF On
    <2> QED BY <2>1, <2>2 DEF On
  <1> QED BY <1>1, <1>4, <1>6, <1>8 DEF t

(* The invariant: wires are in order; a broker knows who is connected to   *)
(* it; a message not yet produced is nowhere.  A subscriber that stayed    *)
(* has either the message still on its broker's wire and no copy of it, or *)
(* the copy it was due.  At most one member of a group holds a normal      *)
(* message.                                                                *)
WiresInOrder == \A b \in RelayBrokers : Ascends(wires[b], sent)
ConnectedIsKnown == \A c \in Subscribers : place[c] # Nowhere => c \in known[place[c]]
Unsent ==
  \A m \in Messages : m > sent =>
    /\ staying[m] = {} /\ method[m] = "none"
    /\ \A c \in Subscribers : got[c][m] = 0 /\ <<c, m>> \notin stored
Due(c, m) == method[m] = "broadcast" \/ (method[m] = "normal" /\ ~InGroup(c))
Reached(c, m) ==
  /\ place[c] # Nowhere
  /\ On(wires[place[c]], m) => got[c][m] = 0
  /\ ~On(wires[place[c]], m) => got[c][m] <= 1 /\ (Due(c, m) => got[c][m] = 1)
StayingAreReached == \A m \in Messages : \A c \in staying[m] : Reached(c, m)
Holds(c, m) == got[c][m] > 0 \/ <<c, m>> \in stored
OneHolder(m) == \E x : \A c \in Subscribers : InGroup(c) /\ Holds(c, m) => c = x
NormalHasOneHolder == \A m \in Messages : method[m] = "normal" => OneHolder(m)

RelayInv ==
  /\ RelayTypes /\ WiresInOrder /\ ConnectedIsKnown /\ Unsent
  /\ StayingAreReached /\ NormalHasOneHolder

(* Connecting and disconnecting: the queue a subscriber is given on        *)
(* joining was already its own, and it counts as staying for no message.   *)
LEMMA MoveStep ==
  ASSUME RelayInv, NEW c \in Subscribers,
         Leave(c) \/ \E b \in RelayBrokers : Join(c, b)
  PROVE  RelayInv'
  <1> USE DEF RelayInv
  <1>0. Nowhere \notin RelayBrokers
    BY RelayAssumption
  <1>1. CASE Leave(c)
    <2>1. /\ place' = [place EXCEPT ![c] = Nowhere]
          /\ staying' = [m \in Messages |-> staying[m] \ {c}]
          /\ UNCHANGED <<known, stored, wires, got, method, sent>>
      BY <1>1 DEF Leave
    <2>2. RelayTypes'
      BY <2>1 DEF RelayTypes
    <2>3. /\ \A d \in Subscribers : d # c => place'[d] = place[d]
          /\ place'[c] = Nowhere
          /\ \A m \in Messages : staying'[m] = staying[m] \ {c} /\ staying[m] \subseteq Subscribers
      BY <2>1 DEF RelayTypes
    <2>4. StayingAreReached'
      BY <2>1, <2>3 DEF StayingAreReached, Reached, Due
    <2>5. Unsent' /\ ConnectedIsKnown' /\ WiresInOrder'
      BY <2>1, <2>3 DEF Unsent, ConnectedIsKnown, WiresInOrder
    <2>6. NormalHasOneHolder'
      BY <2>1, Zenon DEF NormalHasOneHolder, OneHolder, Holds
    <2> QED BY <2>2, <2>4, <2>5, <2>6
  <1>2. ASSUME NEW b \in RelayBrokers, Join(c, b) PROVE RelayInv'
    <2> DEFINE mine == [m \in Messages |->
                 IF Profiles[c].durable /\ <<c, m>> \in stored THEN got[c][m] + 1 ELSE got[c][m]]
    <2>1. /\ place[c] = Nowhere /\ place' = [place EXCEPT ![c] = b]
          /\ known' = [known EXCEPT ![b] = known[b] \cup {c}]
          /\ got' = [got EXCEPT ![c] = mine]
          /\ stored' \subseteq stored
          /\ UNCHANGED <<wires, method, staying, sent>>
      BY <1>2 DEF Join
    <2>2. mine \in [Messages -> Nat]
      BY DEF RelayTypes
    <2>3. \A m \in Messages : mine[m] = got[c][m] \/ <<c, m>> \in stored
      OBVIOUS
    <2> HIDE DEF mine
    <2>4. RelayTypes'
      BY <2>1, <2>2 DEF RelayTypes
    <2>5. /\ \A d \in Subscribers : d # c => place'[d] = place[d] /\ got'[d] = got[d]
          /\ place'[c] = b /\ got'[c] = mine
          /\ \A p \in RelayBrokers : known[p] \subseteq known'[p]
          /\ c \in known'[b]
      BY <2>1 DEF RelayTypes
    <2>6. \A m \in Messages : c \notin staying[m] /\ staying[m] \subseteq Subscribers
      BY <2>1 DEF StayingAreReached, Reached, RelayTypes
    <2>7. StayingAreReached'
      BY <2>1, <2>5, <2>6 DEF StayingAreReached, Reached, Due
    <2>8. ConnectedIsKnown'
      <3> SUFFICES ASSUME NEW d \in Subscribers, place'[d] # Nowhere PROVE d \in known'[place'[d]]
        BY DEF ConnectedIsKnown
      <3>1. CASE d = c
        BY <2>5, <3>1
      <3>2. CASE d # c
        <4>1. place[d] \in RelayBrokers /\ d \in known[place[d]] /\ place'[d] = place[d]
          BY <2>5, <3>2 DEF ConnectedIsKnown, RelayTypes
        <4> QED BY <2>5, <4>1
      <3> QED BY <3>1, <3>2
    <2>9. \A d \in Subscribers, m \in Messages :
            /\ <<d, m>> \in stored' => <<d, m>> \in stored
            /\ got'[d][m] = got[d][m] \/ <<d, m>> \in stored
      BY <2>1, <2>3, <2>5
    <2>10. Unsent' /\ WiresInOrder'
      BY <2>1, <2>9 DEF Unsent, WiresInOrder
    <2>11. \A d \in Subscribers, m \in Messages : Holds(d, m)' => Holds(d, m)
      BY <2>9 DEF Holds
    <2>12. NormalHasOneHolder'
      BY <2>1, <2>11, Zenon DEF NormalHasOneHolder, OneHolder
    <2> QED BY <2>4, <2>7, <2>8, <2>10, <2>12
  <1> QED BY <1>1, <1>2

(* A broker handles a relayed message: the subscribers connected to it had *)
(* no copy yet, and no member of a group is given one.                     *)
LEMMA RelayedStep ==
  ASSUME RelayInv, NEW b \in RelayBrokers, HandleRelayedMessage(b)
  PROVE  RelayInv'
  <1> DEFINE m == Head(wires[b])
  <1> USE DEF RelayInv
  <1>1. /\ wires[b] # <<>> /\ wires' = [wires EXCEPT ![b] = Tail(wires[b])]
        /\ Route(b, m, method[m], TRUE)
        /\ UNCHANGED <<known, place, method, staying, sent>>
    BY DEF HandleRelayedMessage
  <1>2. wires[b] \in Seq(Messages) /\ sent \in Nat /\ Ascends(wires[b], sent)
    BY RelayAssumption DEF RelayTypes, WiresInOrder
  <1>3. /\ m \in Messages /\ m <= sent /\ On(wires[b], m)
        /\ Tail(wires[b]) \in Seq(Messages) /\ Ascends(Tail(wires[b]), sent)
        /\ \A x : On(Tail(wires[b]), x) <=> On(wires[b], x) /\ x # m
    BY <1>1, <1>2, WireShrinks
  <1> HIDE DEF m
  <1>4. RouteEffect(b, m, method[m], TRUE)
    BY <1>1, <1>3, Routed
  <1>5. wires' \in [RelayBrokers -> Seq(Messages)] /\ got' \in [Subscribers -> [Messages -> Nat]]
    BY <1>1, <1>3, <1>4 DEF RelayTypes, RouteEffect
  <1>6. RelayTypes'
    BY <1>1, <1>5 DEF RelayTypes
  <1>7. /\ \A p \in RelayBrokers : p # b => wires'[p] = wires[p]
        /\ wires'[b] = Tail(wires[b])
    BY <1>1 DEF RelayTypes
  <1>8. WiresInOrder' /\ ConnectedIsKnown'
    BY <1>1, <1>3, <1>7 DEF WiresInOrder, ConnectedIsKnown
  <1>9. \A x \in Messages : x > sent => x # m
    BY <1>2, <1>3, RelayAssumption DEF Messages
  <1>10. Unsent'
    BY <1>1, <1>4, <1>9 DEF Unsent, RouteEffect, Same
  <1>11. ASSUME NEW x \in Messages, NEW c \in staying[x] PROVE Reached(c, x)'
    <2>1. Reached(c, x) /\ c \in Subscribers /\ place'[c] = place[c] /\ method'[x] = method[x]
      BY <1>1 DEF StayingAreReached, RelayTypes
    <2>2. place[c] \in RelayBrokers /\ got[c][x] \in Nat
      BY <2>1 DEF RelayTypes, Reached
    <2>3. x # m => got'[c][x] = got[c][x]
      BY <1>4, <2>1 DEF RouteEffect, Same
    <2>4. CASE place[c] # b
      <3>1. got'[c][x] = got[c][x] /\ wires'[place[c]] = wires[place[c]]
        BY <1>4, <1>7, <2>1, <2>2, <2>3, <2>4 DEF RouteEffect
      <3> QED BY <2>1, <3>1 DEF Reached, Due
    <2>5. CASE place[c] = b /\ x # m
      <3>1. On(wires'[b], x) <=> On(wires[b], x)
        BY <1>3, <1>7, <2>5
      <3> QED BY <2>1, <2>3, <2>5, <3>1 DEF Reached, Due
    <2>6. CASE place[c] = b /\ x = m
      <3>1. ~On(wires'[b], x) /\ got[c][x] = 0
        BY <1>3, <1>7, <2>1, <2>6 DEF Reached
      <3>2. c \in known[b]
        BY <2>1, <2>6 DEF ConnectedIsKnown, Reached
      <3>3. got'[c][x] = 0 \/ got'[c][x] = 1
        BY <1>4, <2>1, <2>6, <3>1 DEF RouteEffect
      <3>4. Due(c, x) => got'[c][x] = 1
        BY <1>4, <2>1, <2>6, <3>1, <3>2 DEF RouteEffect, Due
      <3>5. Due(c, x)' <=> Due(c, x)
        BY <1>1 DEF Due
      <3> QED BY <2>1, <2>6, <3>1, <3>3, <3>4, <3>5 DEF Reached
    <2> QED BY <2>4, <2>5, <2>6
  <1>12. StayingAreReached'
    BY <1>1, <1>11 DEF StayingAreReached
  <1>13. ASSUME NEW x \in Messages, method[x] = "normal" PROVE OneHolder(x)'
    <2>1. \A c \in Subscribers : InGroup(c) => Same(c, x)
      BY <1>4, <1>13, Zenon DEF RouteEffect
    <2>2. \A c \in Subscribers : InGroup(c) /\ Holds(c, x)' => Holds(c, x)
      BY <2>1 DEF Same, Holds
    <2> QED BY <1>13, <2>2, Zenon DEF NormalHasOneHolder, OneHolder
  <1>14. NormalHasOneHolder'
    BY <1>1, <1>13 DEF NormalHasOneHolder
  <1> QED BY <1>6, <1>8, <1>10, <1>12, <1>14

(* A message is produced: those connected to the broker have their copy at *)
(* once, for the others it is put on their broker's wire; a normal message *)
(* goes to one member of the groups.                                       *)
LEMMA ProduceStep ==
  ASSUME RelayInv, NEW b \in RelayBrokers, NEW how \in Methods, Produce(b, how)
  PROVE  RelayInv'
  <1> DEFINE m == sent + 1
  <1> USE DEF RelayInv
  <1>1. /\ sent < MaxSent /\ sent' = m /\ Route(b, m, how, FALSE)
        /\ method' = [method EXCEPT ![m] = how]
        /\ wires' = [p \in RelayBrokers |->
             IF p # b THEN Append(wires[p], m) ELSE wires[p]]
        /\ staying' = [staying EXCEPT ![m] = {c \in Subscribers : place[c] # Nowhere}]
        /\ UNCHANGED <<known, place>>
    BY DEF Produce, RelayedTo
  <1>2. sent \in Nat /\ m \in Nat /\ m \in Messages /\ m > sent /\ m \in 0..MaxSent
    BY <1>1, RelayAssumption DEF RelayTypes, Messages
  <1>3. ASSUME NEW p \in RelayBrokers
        PROVE  /\ wires[p] \in Seq(Messages) /\ Ascends(wires[p], sent)
               /\ wires'[p] \in Seq(Messages) /\ Ascends(wires'[p], m) /\ ~On(wires[p], m)
               /\ p # b => \A x : On(wires'[p], x) <=> On(wires[p], x) \/ x = m
               /\ p = b => wires'[p] = wires[p]
    <2>1. wires[p] \in Seq(Messages) /\ Ascends(wires[p], sent)
      BY DEF RelayTypes, WiresInOrder
    <2>2. /\ Append(wires[p], m) \in Seq(Messages) /\ Ascends(Append(wires[p], m), m)
          /\ \A x : On(Append(wires[p], m), x) <=> On(wires[p], x) \/ x = m
          /\ Ascends(wires[p], m) /\ ~On(wires[p], m)
      BY <1>2, <2>1, WireGrows
    <2>3. wires'[p] = IF p # b THEN Append(wires[p], m) ELSE wires[p]
      BY <1>1
    <2> QED BY <2>1, <2>2, <2>3
  <1>4. wires' = [p \in RelayBrokers |-> wires'[p]]
    BY <1>1
  <1>m. \A x \in Messages : x > m => x > sent /\ x # m
    BY <1>2, RelayAssumption DEF Messages
  <1> HIDE DEF m
  <1>5. RouteEffect(b, m, how, FALSE)
    BY <1>1, <1>2, Routed
  <1>6. /\ wires' \in [RelayBrokers -> Seq(Messages)]
        /\ got' \in [Subscribers -> [Messages -> Nat]]
        /\ method' \in [Messages -> Methods \cup {"none"}]
        /\ staying' \in [Messages -> SUBSET Subscribers]
    BY <1>1, <1>2, <1>3, <1>4, <1>5 DEF RelayTypes, RouteEffect
  <1>7. RelayTypes'
    BY <1>1, <1>2, <1>6 DEF RelayTypes
  <1>8. /\ method'[m] = how /\ staying'[m] = {c \in Subscribers : place[c] # Nowhere}
        /\ \A x \in Messages : x # m => method'[x] = method[x] /\ staying'[x] = staying[x]
    BY <1>1, <1>2 DEF RelayTypes
  <1>9. WiresInOrder' /\ ConnectedIsKnown'
    BY <1>1, <1>3 DEF WiresInOrder, ConnectedIsKnown
  <1>10. Unsent'
    BY <1>1, <1>5, <1>8, <1>m DEF Unsent, RouteEffect, Same
  <1>11. \A c \in Subscribers : got[c][m] = 0 /\ <<c, m>> \notin stored
    BY <1>2 DEF Unsent
  <1>12. ASSUME NEW x \in Messages, NEW c \in staying'[x] PROVE Reached(c, x)'
    <2>1. CASE x # m
      <3>1. c \in staying[x] /\ c \in Subscribers /\ Reached(c, x)
        BY <1>8, <2>1 DEF StayingAreReached, RelayTypes
      <3>2. place[c] \in RelayBrokers /\ place'[c] = place[c]
        BY <1>1, <3>1 DEF RelayTypes, Reached
      <3>3. On(wires'[place[c]], x) <=> On(wires[place[c]], x)
        BY <1>3, <2>1, <3>2
      <3>4. got'[c][x] = got[c][x] /\ method'[x] = method[x]
        BY <1>5, <1>8, <2>1, <3>1 DEF RouteEffect, Same
      <3> QED BY <3>1, <3>2, <3>3, <3>4 DEF Reached, Due
    <2>2. CASE x = m
      <3>1. c \in Subscribers /\ place[c] # Nowhere /\ place[c] \in RelayBrokers /\ place'[c] = place[c]
        BY <1>1, <1>8, <2>2 DEF RelayTypes
      <3>2. got[c][m] = 0
        BY <1>11, <3>1
      <3>3. CASE place[c] # b
        <4>1. On(wires'[place[c]], x) /\ got'[c][m] = 0
          BY <1>3, <1>5, <2>2, <3>1, <3>2, <3>3 DEF RouteEffect
        <4> QED BY <2>2, <3>1, <4>1 DEF Reached
      <3>4. CASE place[c] = b
        <4>1. ~On(wires'[place[c]], x) /\ c \in known[b]
          BY <1>3, <2>2, <3>1, <3>4 DEF ConnectedIsKnown
        <4>2. got'[c][m] = 0 \/ got'[c][m] = 1
          BY <1>5, <3>1, <3>2 DEF RouteEffect
        <4>3. Due(c, x)' => got'[c][m] = 1
          BY <1>5, <1>8, <2>2, <3>1, <3>2, <3>4, <4>1 DEF RouteEffect, Due
        <4> QED BY <2>2, <3>1, <4>1, <4>2, <4>3 DEF Reached
      <3> QED BY <3>3, <3>4
    <2> QED BY <2>1, <2>2
  <1>13. StayingAreReached'
    BY <1>12 DEF StayingAreReached
  <1>14. ASSUME NEW x \in Messages, method'[x] = "normal" PROVE OneHolder(x)'
    <2>1. CASE x # m
      <3>1. \A c \in Subscribers : Holds(c, x)' => Holds(c, x)
        BY <1>5, <2>1 DEF RouteEffect, Same, Holds
      <3> QED BY <1>8, <1>14, <2>1, <3>1, Zenon DEF NormalHasOneHolder, OneHolder
    <2>2. CASE x = m
      <3>1. PICK y : \A c \in Subscribers : InGroup(c) /\ c # y => Same(c, m)
        BY <1>5, <1>8, <1>14, <2>2 DEF RouteEffect
      <3>2. \A c \in Subscribers : InGroup(c) /\ Holds(c, x)' => c = y
        BY <1>11, <2>2, <3>1 DEF Same, Holds
      <3> QED BY <3>2, Zenon DEF OneHolder
    <2> QED BY <2>1, <2>2
  <1>15. NormalHasOneHolder'
    BY <1>14 DEF NormalHasOneHolder
  <1> QED BY <1>7, <1>9, <1>10, <1>13, <1>15

(* The invariant holds in every reachable state. *)
THEOREM RelayInvariance == RelaySpec => []RelayInv
  <1>1. RelayInit => RelayInv
    <2> SUFFICES ASSUME RelayInit PROVE RelayInv
      OBVIOUS
    <2>1. RelayTypes
      BY RelayAssumption DEF RelayInit, RelayTypes
    <2>2. WiresInOrder
      BY DEF RelayInit, WiresInOrder, Ascends
    <2>3. ConnectedIsKnown /\ Unsent /\ StayingAreReached
      BY DEF RelayInit, ConnectedIsKnown, Unsent, StayingAreReached
    <2>4. \A m \in Messages : method[m] = "none"
      BY DEF RelayInit
    <2>5. NormalHasOneHolder
      BY <2>4 DEF NormalHasOneHolder
    <2> QED BY <2>1, <2>2, <2>3, <2>5 DEF RelayInv
  <1>2. RelayInv /\ [RelayNext]_relayVars => RelayInv'
    <2> SUFFICES ASSUME RelayInv, [RelayNext]_relayVars PROVE RelayInv'
      OBVIOUS
    <2>1. CASE UNCHANGED relayVars
      BY <2>1 DEF relayVars, RelayInv, RelayTypes, WiresInOrder, ConnectedIsKnown, Unsent,
                  StayingAreReached, Reached, Due, NormalHasOneHolder, OneHolder, Holds
    <2> QED BY <2>1, MoveStep, RelayedStep, ProduceStep DEF RelayNext
  <1> QED BY <1>1, <1>2, PTL DEF RelaySpec

(* README.md:179 and 204, for any number of brokers, subscribers and       *)
(* messages: of the members of groups, however they are spread over the    *)
(* brokers, one at most holds a normal message (generateMessage); and a    *)
(* subscriber that was connected when a message was produced and stayed    *)
(* has the copy it was due once the wires are empty, and never two         *)
(* (relayProducedMessage, handleRelayedMessage).                           *)
THEOREM RelayReachesEveryNode == RelaySpec => []RelayReachesEach
  <1>1. RelayInv => RelayReachesEach
    <2> SUFFICES ASSUME RelayInv PROVE OneMemberPerGroup /\ LiveReachesEveryNode
      BY DEF RelayReachesEach
    <2>1. OneMemberPerGroup
      <3> SUFFICES ASSUME NEW m \in Messages, method[m] = "normal"
                   PROVE  Cardinality({c \in Subscribers : InGroup(c)
                              /\ (got[c][m] > 0 \/ <<c, m>> \in stored)}) <= 1
        BY DEF OneMemberPerGroup
      <3> DEFINE H == {c \in Subscribers : InGroup(c) /\ (got[c][m] > 0 \/ <<c, m>> \in stored)}
      <3>1. PICK x : H \subseteq {x}
        BY DEF RelayInv, NormalHasOneHolder, OneHolder, Holds
      <3>2. IsFiniteSet({x}) /\ Cardinality({x}) = 1
        BY FS_Singleton
      <3> HIDE DEF H
      <3>3. Cardinality(H) <= 1
        BY <3>1, <3>2, FS_Subset
      <3> QED BY <3>3 DEF H
    <2>2. LiveReachesEveryNode
      <3> SUFFICES ASSUME NEW m \in 1..sent, NEW c \in staying[m]
                   PROVE  /\ method[m] = "normal" /\ ~InGroup(c) /\ RelayQuiet => got[c][m] >= 1
                          /\ method[m] = "broadcast" /\ RelayQuiet => got[c][m] = 1
                          /\ ~Profiles[c].durable => got[c][m] <= 1
        BY DEF LiveReachesEveryNode
      <3>1. m \in Messages
        BY RelayAssumption DEF RelayInv, RelayTypes, Messages
      <3>2. Reached(c, m) /\ c \in Subscribers
        BY <3>1 DEF RelayInv, StayingAreReached, RelayTypes
      <3>3. place[c] \in RelayBrokers /\ got[c][m] \in Nat
        BY <3>1, <3>2 DEF RelayInv, RelayTypes, Reached
      <3>4. RelayQuiet => ~On(wires[place[c]], m)
        BY <3>3 DEF RelayQuiet, On
      <3>5. got[c][m] <= 1
        BY <3>2, <3>3 DEF Reached
      <3>6. RelayQuiet /\ Due(c, m) => got[c][m] = 1
        BY <3>2, <3>4 DEF Reached
      <3> QED BY <3>3, <3>5, <3>6 DEF Due
    <2> QED BY <2>1, <2>2
  <1> QED BY <1>1, RelayInvariance, PTL

(* A copy is got on joining, from the queue, or live, at most once while a *)
(* subscriber stays on a broker, so that no more copies are got than moves *)
(* were made and one; the moves allow for one more unless the message is   *)
(* past the broker that the subscriber is on.  A counter of a broker does  *)
(* not go up for a relayed message.                                        *)
CopiesInv ==
  \A c \in Subscribers, m \in Messages :
    /\ got[c][m] <= moves + 1
    /\ place[c] = Nowhere \/ On(wires[place[c]], m) => got[c][m] <= moves
CountersInv ==
  /\ counters \in [RelayBrokers -> Nat]
  /\ \A b \in RelayBrokers : counters[b] <= sent
RelayRanges ==
  /\ moves \in 0..MaxMoves /\ stored \subseteq Subscribers \X Messages
  /\ \A b \in RelayBrokers : IsFiniteSet(known[b])
  /\ CountersInv /\ CopiesInv

(* The subscription whose turn it is in a group is one of its members.     *)
LEMMA TurnIsMember ==
  ASSUME NEW b, NEW members, IsFiniteSet(members), members # {}, counters[b] \in Nat
  PROVE  Turn(b, members) \in members
  <1> DEFINE S == IF Live(b, members) # {} THEN Live(b, members) ELSE members
             q == SetToSeq(S)
             n == Cardinality(S)
             k == (counters[b] % Len(q)) + 1
  <1>1. Live(b, members) \subseteq members
    BY DEF Live
  <1>2. S \subseteq members /\ S # {}
    BY <1>1
  <1>3. Turn(b, members) = q[k]
    BY DEF Turn
  <1> HIDE DEF S
  <1>4. IsFiniteSet(S)
    BY <1>2, FS_Subset
  <1>5. n \in Nat /\ n # 0 /\ ExistsBijection(1..n, S)
    BY <1>2, <1>4, FS_CardinalityType, FS_EmptySet
  <1>6. \E f \in [1..n -> S] : IsInjective(f)
    BY <1>5 DEF ExistsBijection, Bijection, Injection
  <1>7. q \in [1..n -> S]
    BY <1>6 DEF SetToSeq
  <1> HIDE DEF n, q
  <1>8. Len(q) = n
    BY <1>5, <1>7
  <1>9. k \in 1..n
    BY <1>5, <1>8
  <1> QED BY <1>2, <1>3, <1>7, <1>9

(* Connecting and disconnecting are moves: each allows for a copy more.    *)
LEMMA MoveRange ==
  ASSUME RelayInv, RelayRanges, NEW c \in Subscribers,
         Leave(c) \/ \E b \in RelayBrokers : Join(c, b)
  PROVE  RelayRanges'
  <1>0. /\ Nowhere \notin RelayBrokers /\ MaxMoves \in Nat /\ moves \in Nat
        /\ moves' = moves + 1 /\ moves < MaxMoves
    BY RelayAssumption DEF RelayRanges, Leave, Join
  <1>1. moves' \in 0..MaxMoves /\ moves' \in Nat
    BY <1>0
  <1>2. \A d \in Subscribers, m \in Messages : got[d][m] \in Nat /\ got[d][m] <= moves + 1
    BY DEF RelayInv, RelayTypes, RelayRanges, CopiesInv
  <1>3. CountersInv' /\ stored' \subseteq Subscribers \X Messages
    BY DEF RelayRanges, CountersInv, Leave, Join
  <1>k. \A p \in RelayBrokers : IsFiniteSet(known'[p])
    <2>1. \A p \in RelayBrokers : IsFiniteSet(known[p]) /\ IsFiniteSet(known[p] \cup {c})
      BY FS_AddElement DEF RelayRanges
    <2>2. \A p \in RelayBrokers : known'[p] = known[p] \/ known'[p] = known[p] \cup {c}
      BY DEF RelayInv, RelayTypes, Leave, Join
    <2> QED BY <2>1, <2>2
  <1>4. CASE Leave(c)
    <2>1. \A d \in Subscribers, m \in Messages : got'[d][m] <= moves'
      BY <1>0, <1>2, <1>4 DEF Leave
    <2>2. \A d \in Subscribers, m \in Messages : got'[d][m] \in Nat
      BY <1>2, <1>4 DEF Leave
    <2>3. CopiesInv'
      BY <1>1, <2>1, <2>2 DEF CopiesInv
    <2> QED BY <1>1, <1>3, <1>k, <2>3 DEF RelayRanges
  <1>5. ASSUME NEW b \in RelayBrokers, Join(c, b) PROVE RelayRanges'
    <2> DEFINE mine == [m \in Messages |->
                 IF Profiles[c].durable /\ <<c, m>> \in stored THEN got[c][m] + 1 ELSE got[c][m]]
    <2>1. /\ place[c] = Nowhere /\ got' = [got EXCEPT ![c] = mine]
          /\ place' = [place EXCEPT ![c] = b] /\ wires' = wires
      BY <1>5 DEF Join
    <2>2. \A m \in Messages : got[c][m] <= moves
      BY <2>1 DEF RelayRanges, CopiesInv
    <2>3. \A m \in Messages : mine[m] \in Nat /\ mine[m] <= moves'
      BY <1>0, <1>2, <2>2
    <2> HIDE DEF mine
    <2>4. /\ got'[c] = mine
          /\ \A d \in Subscribers : d # c => got'[d] = got[d] /\ place'[d] = place[d]
      BY <2>1 DEF RelayInv, RelayTypes
    <2>5. \A d \in Subscribers, m \in Messages : got'[d][m] \in Nat /\ got'[d][m] <= moves'
      BY <1>0, <1>2, <2>3, <2>4
    <2>6. CopiesInv'
      BY <1>1, <2>5 DEF CopiesInv
    <2> QED BY <1>1, <1>3, <1>k, <2>6 DEF RelayRanges
  <1> QED BY <1>4, <1>5

(* Routing takes messages into the queue that are for subscribers, and the *)
(* counter goes up on the origin only.                                     *)
LEMMA RouteRange ==
  ASSUME RelayInv, RelayRanges, NEW b \in RelayBrokers, NEW m \in Messages, NEW how,
         NEW relay \in BOOLEAN, Route(b, m, how, relay)
  PROVE  /\ stored' \subseteq Subscribers \X Messages
         /\ counters' \in [RelayBrokers -> Nat]
         /\ \A p \in RelayBrokers :
              counters'[p] = counters[p] \/ (~relay /\ counters'[p] = counters[p] + 1)
  <1>0. /\ counters \in [RelayBrokers -> Nat] /\ stored \subseteq Subscribers \X Messages
        /\ known[b] \subseteq Subscribers /\ IsFiniteSet(known[b])
    BY DEF RelayRanges, CountersInv, RelayInv, RelayTypes
  <1>1. CASE GenerateMessage(b, m, relay)
    <2> DEFINE T == Direct(b, relay) \cup Selected(b, relay)
    <2>1. /\ stored' = stored \cup
               {<<c, m>> : c \in {d \in T \ Live(b, T) : Profiles[d].durable}}
          /\ counters' = IF Bucket(b, relay) = {} THEN counters
                         ELSE [counters EXCEPT ![b] = counters[b] + 1]
      BY <1>1, Zenon DEF GenerateMessage, Delivered
    <2>2. Direct(b, relay) \subseteq Subscribers
      BY <1>0 DEF Direct, Ungrouped, Live
    <2>3. Selected(b, relay) \subseteq Subscribers
      <3>1. CASE Bucket(b, relay) = {}
        BY <3>1 DEF Selected
      <3>2. CASE Bucket(b, relay) # {}
        <4> DEFINE M == Bucket(b, relay)
        <4>1. M \subseteq known[b]
          BY DEF Bucket, Grouped
        <4>2. Selected(b, relay) = {Turn(b, M)}
          BY <3>2 DEF Selected
        <4> HIDE DEF M
        <4>3. IsFiniteSet(M)
          BY <1>0, <4>1, FS_Subset
        <4>4. counters[b] \in Nat
          BY <1>0
        <4>5. M # {}
          BY <3>2 DEF M
        <4>6. Turn(b, M) \in M
          BY <4>3, <4>4, <4>5, TurnIsMember
        <4> QED BY <1>0, <4>1, <4>2, <4>6
      <3> QED BY <3>1, <3>2
    <2> QED BY <1>0, <2>1, <2>2, <2>3 DEF Bucket
  <1>2. ASSUME NEW cs, Broadcast(b, m, cs) PROVE UNCHANGED <<stored, counters>>
    BY <1>2 DEF Broadcast
  <1>3. CASE UNCHANGED <<stored, counters>>
    BY <1>0, <1>3
  <1> QED BY <1>1, <1>2, <1>3 DEF Route

(* A broker handles a relayed message: it takes the message off its wire,  *)
(* so that this is the only copy a subscriber gets there.                  *)
LEMMA RelayedRange ==
  ASSUME RelayInv, RelayRanges, NEW b \in RelayBrokers, HandleRelayedMessage(b)
  PROVE  RelayRanges'
  <1> DEFINE m == Head(wires[b])
  <1>1. /\ wires[b] # <<>> /\ wires' = [wires EXCEPT ![b] = Tail(wires[b])]
        /\ Route(b, m, method[m], TRUE)
        /\ UNCHANGED <<known, place, sent, moves>>
    BY DEF HandleRelayedMessage
  <1>2. wires[b] \in Seq(Messages) /\ sent \in Nat /\ Ascends(wires[b], sent)
    BY RelayAssumption DEF RelayInv, RelayTypes, WiresInOrder
  <1>3. m \in Messages /\ On(wires[b], m) /\ \A x : On(Tail(wires[b]), x) <=> On(wires[b], x) /\ x # m
    BY <1>1, <1>2, WireShrinks
  <1>4. \A p \in RelayBrokers : \A x : On(wires'[p], x) => On(wires[p], x) /\ (p = b => x # m)
    <2>1. \A p \in RelayBrokers : wires'[p] = IF p = b THEN Tail(wires[b]) ELSE wires[p]
      BY <1>1 DEF RelayInv, RelayTypes
    <2> QED BY <1>3, <2>1
  <1> HIDE DEF m
  <1>5. RouteEffect(b, m, method[m], TRUE)
    BY <1>1, <1>3, Routed DEF RelayInv
  <1>6. /\ stored' \subseteq Subscribers \X Messages
        /\ counters' \in [RelayBrokers -> Nat]
        /\ \A p \in RelayBrokers : counters'[p] = counters[p]
    BY <1>1, <1>3, <1>5, RouteRange
  <1>7. CountersInv'
    BY <1>1, <1>6 DEF RelayRanges, CountersInv
  <1>8. /\ Nowhere \notin RelayBrokers /\ moves \in Nat
        /\ \A c \in Subscribers : place[c] \in RelayBrokers \cup {Nowhere}
        /\ \A c \in Subscribers, x \in Messages : got[c][x] \in Nat
    BY RelayAssumption DEF RelayInv, RelayTypes, RelayRanges
  <1>9. ASSUME NEW c \in Subscribers, NEW x \in Messages
        PROVE  /\ got'[c][x] <= moves + 1
               /\ place[c] = Nowhere \/ On(wires'[place[c]], x) => got'[c][x] <= moves
    <2>1. /\ got[c][x] <= moves + 1
          /\ place[c] = Nowhere \/ On(wires[place[c]], x) => got[c][x] <= moves
      BY DEF RelayRanges, CopiesInv
    <2>2. CASE got'[c][x] = got[c][x]
      BY <1>4, <1>8, <2>1, <2>2
    <2>3. CASE got'[c][x] # got[c][x]
      <3>1. x = m /\ place[c] = b /\ got'[c][x] = got[c][x] + 1
        BY <1>5, <2>3 DEF RouteEffect, Same
      <3>2. got[c][x] <= moves /\ got[c][x] \in Nat
        BY <1>3, <1>8, <2>1, <3>1
      <3>3. ~(place[c] = Nowhere \/ On(wires'[place[c]], x))
        BY <1>4, <1>8, <3>1
      <3>4. got'[c][x] <= moves + 1
        BY <1>8, <3>1, <3>2
      <3> QED BY <3>3, <3>4
    <2> QED BY <2>2, <2>3
  <1>10. CopiesInv'
    BY <1>1, <1>9 DEF CopiesInv
  <1> QED BY <1>1, <1>6, <1>7, <1>10 DEF RelayRanges

(* A message is produced: nobody had a copy of it before.                  *)
LEMMA ProduceRange ==
  ASSUME RelayInv, RelayRanges, NEW b \in RelayBrokers, NEW how \in Methods, Produce(b, how)
  PROVE  RelayRanges'
  <1> DEFINE m == sent + 1
  <1>1. /\ sent < MaxSent /\ sent' = m /\ Route(b, m, how, FALSE)
        /\ wires' = [p \in RelayBrokers |->
             IF p # b THEN Append(wires[p], m) ELSE wires[p]]
        /\ UNCHANGED <<known, place, moves>>
    BY DEF Produce, RelayedTo
  <1>2. sent \in Nat /\ m \in Nat /\ m \in Messages /\ m > sent
    BY <1>1, RelayAssumption DEF RelayInv, RelayTypes, Messages
  <1>3. \A p \in RelayBrokers, x \in Messages :
          /\ x # m => (On(wires'[p], x) <=> On(wires[p], x))
          /\ p = b => ~On(wires'[p], m)
    <2> SUFFICES ASSUME NEW p \in RelayBrokers
                 PROVE  /\ \A x \in Messages : x # m => (On(wires'[p], x) <=> On(wires[p], x))
                        /\ p = b => ~On(wires'[p], m)
      OBVIOUS
    <2>1. wires[p] \in Seq(Messages) /\ Ascends(wires[p], sent)
      BY DEF RelayInv, RelayTypes, WiresInOrder
    <2>2. /\ \A x : On(Append(wires[p], m), x) <=> On(wires[p], x) \/ x = m
          /\ ~On(wires[p], m)
      BY <1>2, <2>1, WireGrows
    <2>3. wires'[p] = IF p # b THEN Append(wires[p], m) ELSE wires[p]
      BY <1>1
    <2> QED BY <2>2, <2>3
  <1>4. \A c \in Subscribers : got[c][m] = 0
    BY <1>2 DEF RelayInv, Unsent
  <1>5. RouteEffect(b, m, how, FALSE)
    BY <1>1, <1>2, Routed DEF RelayInv
  <1>6. /\ stored' \subseteq Subscribers \X Messages
        /\ counters' \in [RelayBrokers -> Nat]
        /\ \A p \in RelayBrokers : counters'[p] = counters[p] \/ counters'[p] = counters[p] + 1
    BY <1>1, <1>2, RouteRange
  <1>7. CountersInv'
    <2>1. \A p \in RelayBrokers : counters[p] \in Nat /\ counters[p] <= sent
      BY DEF RelayRanges, CountersInv
    <2>2. \A p \in RelayBrokers : counters'[p] <= sent + 1
      BY <1>2, <1>6, <2>1
    <2> QED BY <1>1, <1>6, <2>2 DEF CountersInv
  <1> HIDE DEF m
  <1>8. /\ Nowhere \notin RelayBrokers /\ moves \in Nat
        /\ \A c \in Subscribers : place[c] \in RelayBrokers \cup {Nowhere}
    BY RelayAssumption DEF RelayInv, RelayTypes, RelayRanges
  <1>9. ASSUME NEW c \in Subscribers, NEW x \in Messages
        PROVE  /\ got'[c][x] <= moves + 1
               /\ place[c] = Nowhere \/ On(wires'[place[c]], x) => got'[c][x] <= moves
    <2>1. CASE x # m
      <3>1. got'[c][x] = got[c][x]
        BY <1>5, <2>1 DEF RouteEffect, Same
      <3>2. /\ got[c][x] <= moves + 1
            /\ place[c] = Nowhere \/ On(wires[place[c]], x) => got[c][x] <= moves
        BY DEF RelayRanges, CopiesInv
      <3> QED BY <1>3, <1>8, <2>1, <3>1, <3>2
    <2>2. CASE x = m /\ place[c] = b
      <3>1. got'[c][x] = 0 \/ got'[c][x] = 1
        BY <1>4, <1>5, <2>2 DEF RouteEffect
      <3>2. ~(place[c] = Nowhere \/ On(wires'[place[c]], x))
        BY <1>3, <1>8, <2>2
      <3> QED BY <1>8, <3>1, <3>2
    <2>3. CASE x = m /\ place[c] # b
      <3>1. got'[c][x] = 0
        BY <1>4, <1>5, <2>3 DEF RouteEffect
      <3> QED BY <1>8, <3>1
    <2> QED BY <2>1, <2>2, <2>3
  <1>10. CopiesInv'
    BY <1>1, <1>9 DEF CopiesInv
  <1> QED BY <1>1, <1>6, <1>7, <1>10 DEF RelayRanges

(* Subscriptions, queues, wires and counters of every broker are of their  *)
(* type, and no subscriber gets more copies of a message than it makes     *)
(* moves between brokers and one (generateMessage, handleRelayedMessage,   *)
(* deliverToSubscription).                                                 *)
THEOREM RelayTypeCorrect == RelaySpec => []RelayTypeOK
  <1>1. RelayInit => RelayRanges
    <2> SUFFICES ASSUME RelayInit PROVE RelayRanges
      OBVIOUS
    <2>1. /\ moves \in 0..MaxMoves /\ stored \subseteq Subscribers \X Messages
          /\ \A b \in RelayBrokers : IsFiniteSet(known[b])
      BY RelayAssumption, FS_EmptySet DEF RelayInit
    <2>2. CountersInv /\ CopiesInv
      BY DEF RelayInit, CountersInv, CopiesInv
    <2> QED BY <2>1, <2>2 DEF RelayRanges
  <1>2. RelayInv /\ RelayRanges /\ [RelayNext]_relayVars => RelayRanges'
    <2> SUFFICES ASSUME RelayInv, RelayRanges, [RelayNext]_relayVars PROVE RelayRanges'
      OBVIOUS
    <2>1. CASE UNCHANGED relayVars
      BY <2>1 DEF relayVars, RelayRanges, CountersInv, CopiesInv
    <2> QED BY <2>1, MoveRange, RelayedRange, ProduceRange DEF RelayNext
  <1>3. RelayInv /\ RelayRanges => RelayTypeOK
    <2> SUFFICES ASSUME RelayInv, RelayRanges PROVE RelayTypeOK
      OBVIOUS
    <2>1. /\ MaxMoves \in Nat /\ MaxSent \in Nat /\ moves \in 0..MaxMoves /\ sent \in 0..MaxSent
          /\ counters \in [RelayBrokers -> Nat] /\ \A b \in RelayBrokers : counters[b] <= sent
      BY RelayAssumption DEF RelayInv, RelayTypes, RelayRanges, CountersInv
    <2>2. counters \in [RelayBrokers -> 0..MaxSent]
      <3>1. \A b \in RelayBrokers : counters[b] \in 0..MaxSent
        BY <2>1
      <3> QED BY <2>1, <3>1
    <2>3. got \in [Subscribers -> [Messages -> 0..(MaxMoves + 1)]]
      <3>1. got \in [Subscribers -> [Messages -> Nat]]
        BY DEF RelayInv, RelayTypes
      <3>2. \A c \in Subscribers, m \in Messages : got[c][m] \in Nat /\ got[c][m] <= moves + 1
        BY <3>1 DEF RelayRanges, CopiesInv
      <3>3. \A c \in Subscribers, m \in Messages : got[c][m] \in 0..(MaxMoves + 1)
        BY <2>1, <3>2
      <3>4. \A c \in Subscribers : got[c] \in [Messages -> 0..(MaxMoves + 1)]
        BY <3>1, <3>3
      <3> QED BY <3>1, <3>4
    <2> QED BY <2>2, <2>3 DEF RelayInv, RelayTypes, RelayRanges, RelayTypeOK
  <1> QED BY <1>1, <1>2, <1>3, RelayInvariance, PTL DEF RelaySpec

-----------------------------------------------------------------------------
(* Authorization requests.                                                 *)

Documents == [Requests -> Statuses]
MirrorKinds == {"mirror", "mirrored"}
DecisionKinds == {"lookup", "claim", "persist", "persisted", "publish"}
MirrorSteps ==
  [kind : MirrorKinds, id : Requests, verdict : {"none"}, n : Nat,
   replied : BOOLEAN, doc : Documents]
DecisionSteps ==
  [kind : DecisionKinds, id : Requests, verdict : Verdicts, n : Nat,
   replied : BOOLEAN, doc : Documents]
Steps == MirrorSteps \cup DecisionSteps
Tallies == [Requests -> [Verdicts -> Nat]]

AuthTypes ==
  /\ AuthTypeOK /\ IsFiniteSet(asked)
  /\ pipes \in [AuthBrokers -> Seq(Steps)]
  /\ inbox \subseteq AuthBrokers \X Requests \X Verdicts \X Nat
  /\ tasks \subseteq AuthBrokers \X DecisionSteps
  /\ outcomes \in Tallies /\ answers \in Tallies

(* A new step is of its type, and no document is mentioned in it. *)
LEMMA NewStep ==
  ASSUME NEW q \in Requests, NEW n \in Nat
  PROVE  /\ Step("mirror", q, "none", n) \in MirrorSteps
         /\ \A doc \in Documents :
              [Step("mirrored", q, "none", n) EXCEPT !.doc = doc] \in MirrorSteps
         /\ \A kind \in DecisionKinds, v \in Verdicts :
              /\ Step(kind, q, v, n) \in DecisionSteps
              /\ Step(kind, q, v, n).kind = kind /\ Step(kind, q, v, n).id = q
              /\ Step(kind, q, v, n).verdict = v /\ Step(kind, q, v, n).n = n
              /\ ~Step(kind, q, v, n).replied
              /\ Step(kind, q, v, n).doc[q] = "absent"
  <1>1. [r \in Requests |-> "absent"] \in Documents
    BY DEF Documents, Statuses
  <1>2. /\ Step("mirror", q, "none", n) \in MirrorSteps
        /\ Step("mirrored", q, "none", n) \in MirrorSteps
    BY <1>1 DEF Step, MirrorSteps, MirrorKinds
  <1>3. \A s \in MirrorSteps, doc \in Documents : [s EXCEPT !.doc = doc] \in MirrorSteps
    BY DEF MirrorSteps
  <1>4. \A kind \in DecisionKinds, v \in Verdicts : Step(kind, q, v, n) \in DecisionSteps
    BY <1>1 DEF Step, DecisionSteps
  <1> QED BY <1>2, <1>3, <1>4 DEF Step

(* A step of a decision that is looked up, or whose document is written,   *)
(* is still about the same decision.                                       *)
LEMMA StepGoesOn ==
  ASSUME NEW s \in DecisionSteps
  PROVE  LET claim == [s EXCEPT !.kind = "claim", !.replied = FALSE]
             write == [s EXCEPT !.kind = "persisted", !.replied = FALSE,
                                !.doc[s.id] = s.verdict]
         IN /\ claim \in DecisionSteps /\ write \in DecisionSteps
            /\ claim.kind = "claim" /\ claim.id = s.id
            /\ claim.verdict = s.verdict /\ claim.n = s.n /\ ~claim.replied
            /\ write.kind = "persisted" /\ write.id = s.id
            /\ write.verdict = s.verdict /\ write.n = s.n /\ ~write.replied
  <1>1. /\ s.id \in Requests /\ s.verdict \in Verdicts /\ s.n \in Nat /\ s.doc \in Documents
    BY DEF DecisionSteps
  <1>2. [s.doc EXCEPT ![s.id] = s.verdict] \in Documents
    BY <1>1 DEF Documents, Statuses
  <1> QED BY <1>1, <1>2 DEF DecisionSteps, DecisionKinds

(* Redis answers a step: nothing but the document changes. *)
LEMMA StepReplied ==
  ASSUME NEW s \in Steps, NEW doc \in Documents
  PROVE  LET t == [s EXCEPT !.replied = TRUE, !.doc = doc]
         IN /\ t \in Steps /\ (s \in DecisionSteps => t \in DecisionSteps)
            /\ t.kind = s.kind /\ t.id = s.id /\ t.verdict = s.verdict /\ t.n = s.n
            /\ t.replied
  BY DEF Steps, DecisionSteps, MirrorSteps

(* A broker's pipe after one command: the step at place `old' is gone, the *)
(* one at `new' is new, the others have moved up by `shift'.               *)
Rearranged(s, t, old, new, shift) ==
  /\ \A j \in DOMAIN t : j # new => j + shift \in DOMAIN s /\ j + shift # old /\ t[j] = s[j + shift]
  /\ \A i \in DOMAIN s : i # old => i - shift \in DOMAIN t /\ i - shift # new /\ t[i - shift] = s[i]

(* A step is appended. *)
LEMMA PipeSent ==
  ASSUME NEW s \in Seq(Steps), NEW e \in Steps
  PROVE  /\ Append(s, e) \in Seq(Steps) /\ 0 \notin DOMAIN s
         /\ Append(s, e)[Len(s) + 1] = e /\ Len(s) + 1 \in DOMAIN Append(s, e)
         /\ Rearranged(s, Append(s, e), 0, Len(s) + 1, 0)
  <1> DEFINE t == Append(s, e)
  <1>1. /\ t \in Seq(Steps) /\ DOMAIN s = 1..Len(s) /\ DOMAIN t = 1..(Len(s) + 1)
        /\ Len(s) \in Nat /\ t[Len(s) + 1] = e /\ \A i \in 1..Len(s) : t[i] = s[i]
    OBVIOUS
  <1> HIDE DEF t
  <1>2. \A j \in DOMAIN t : j # Len(s) + 1 => j + 0 \in DOMAIN s /\ j + 0 # 0 /\ t[j] = s[j + 0]
    BY <1>1
  <1>3. \A i \in DOMAIN s : i - 0 \in DOMAIN t /\ i - 0 # Len(s) + 1 /\ t[i - 0] = s[i]
    BY <1>1
  <1>4. Rearranged(s, t, 0, Len(s) + 1, 0)
    BY <1>2, <1>3 DEF Rearranged
  <1>5. 0 \notin DOMAIN s /\ Len(s) + 1 \in DOMAIN t
    BY <1>1
  <1> QED BY <1>1, <1>4, <1>5 DEF t

(* The first step is done. *)
LEMMA PipeDone ==
  ASSUME NEW s \in Seq(Steps), s # <<>>
  PROVE  /\ Tail(s) \in Seq(Steps) /\ 0 \notin DOMAIN Tail(s)
         /\ 1 \in DOMAIN s /\ Head(s) = s[1] /\ Head(s) \in Steps
         /\ Rearranged(s, Tail(s), 1, 0, 1)
  <1> DEFINE t == Tail(s)
  <1>1. /\ Head(s) \in Steps /\ Head(s) = s[1] /\ 1 \in DOMAIN s
        /\ t \in Seq(Steps) /\ Len(t) = Len(s) - 1
        /\ \A i \in DOMAIN t : i + 1 \in DOMAIN s /\ t[i] = s[i + 1]
    BY Shortened
  <1>2. Len(s) \in Nat /\ DOMAIN s = 1..Len(s) /\ DOMAIN t = 1..(Len(s) - 1)
    BY <1>1
  <1> HIDE DEF t
  <1>3. \A j \in DOMAIN t : j + 1 \in DOMAIN s /\ j + 1 # 1 /\ t[j] = s[j + 1]
    BY <1>1, <1>2
  <1>4. \A i \in DOMAIN s : i # 1 => i - 1 \in DOMAIN t /\ i - 1 # 0 /\ (i - 1) + 1 = i
    BY <1>2
  <1>5. \A i \in DOMAIN s : i # 1 => t[i - 1] = s[i]
    BY <1>3, <1>4
  <1>6. Rearranged(s, t, 1, 0, 1)
    BY <1>3, <1>4, <1>5 DEF Rearranged
  <1>7. 0 \notin DOMAIN t
    BY <1>2
  <1> QED BY <1>1, <1>6, <1>7 DEF t

(* The first step gives way to its next one. *)
LEMMA PipeContinued ==
  ASSUME NEW s \in Seq(Steps), s # <<>>, NEW e \in Steps
  PROVE  /\ Append(Tail(s), e) \in Seq(Steps)
         /\ Append(Tail(s), e)[Len(s)] = e /\ Len(s) \in DOMAIN Append(Tail(s), e)
         /\ Rearranged(s, Append(Tail(s), e), 1, Len(s), 1)
  <1> DEFINE r == Tail(s)
             t == Append(r, e)
  <1>1. /\ 1 \in DOMAIN s /\ r \in Seq(Steps) /\ Len(r) = Len(s) - 1
        /\ \A i \in DOMAIN r : i + 1 \in DOMAIN s /\ r[i] = s[i + 1]
    BY Shortened
  <1>2. Len(s) \in Nat /\ DOMAIN s = 1..Len(s) /\ DOMAIN r = 1..(Len(s) - 1)
    BY <1>1
  <1> HIDE DEF r
  <1>3. /\ t \in Seq(Steps) /\ DOMAIN t = 1..(Len(r) + 1) /\ t[Len(r) + 1] = e
        /\ \A i \in DOMAIN r : t[i] = r[i]
    BY <1>1
  <1> HIDE DEF t
  <1>4. Len(r) + 1 = Len(s)
    BY <1>1, <1>2
  <1>5. DOMAIN t = 1..Len(s) /\ t[Len(s)] = e
    BY <1>3, <1>4
  <1>6. \A j \in DOMAIN t : j # Len(s) => j \in DOMAIN r /\ j + 1 # 1
    BY <1>2, <1>5
  <1>7. \A j \in DOMAIN t : j # Len(s) => j + 1 \in DOMAIN s /\ j + 1 # 1 /\ t[j] = s[j + 1]
    BY <1>1, <1>3, <1>6
  <1>8. \A i \in DOMAIN s : i # 1 =>
          i - 1 \in DOMAIN t /\ i - 1 # Len(s) /\ (i - 1) + 1 = i
    BY <1>2, <1>5
  <1>9. \A i \in DOMAIN s : i # 1 => t[i - 1] = s[i]
    BY <1>7, <1>8
  <1>10. Rearranged(s, t, 1, Len(s), 1)
    BY <1>7, <1>8, <1>9 DEF Rearranged
  <1>11. Len(s) \in DOMAIN t
    BY <1>1, <1>2, <1>5
  <1> QED BY <1>3, <1>5, <1>10, <1>11 DEF t, r

(* Redis has answered a step. *)
LEMMA PipeAnswered ==
  ASSUME NEW s \in Seq(Steps), NEW i \in DOMAIN s, NEW e \in Steps
  PROVE  /\ [s EXCEPT ![i] = e] \in Seq(Steps)
         /\ [s EXCEPT ![i] = e][i] = e /\ i \in DOMAIN [s EXCEPT ![i] = e]
         /\ Rearranged(s, [s EXCEPT ![i] = e], i, i, 0)
  <1> DEFINE t == [s EXCEPT ![i] = e]
  <1>1. t \in Seq(Steps) /\ DOMAIN t = DOMAIN s /\ t[i] = e /\ \A j \in DOMAIN s : j # i => t[j] = s[j]
    BY ExceptSeq
  <1>2. DOMAIN s = 1..Len(s) /\ Len(s) \in Nat
    OBVIOUS
  <1> HIDE DEF t
  <1>3. \A j \in DOMAIN s : j + 0 = j /\ j - 0 = j
    BY <1>2
  <1>4. Rearranged(s, t, i, i, 0)
    BY <1>1, <1>3 DEF Rearranged
  <1> QED BY <1>1, <1>4 DEF t

(* The steps of decision n; those that still have to reach the client's    *)
(* broker, for request q and verdict v.                                    *)
Carries(step, n) == step.kind \in DecisionKinds /\ step.n = n
Announced(step) == step.kind = "publish" /\ step.replied
Owes(step, q, v, n) ==
  /\ step.kind \in {"persist", "persisted", "publish"} /\ ~Announced(step)
  /\ step.id = q /\ step.verdict = v /\ step.n = n
CarriesAt(s, i, n) == i \in DOMAIN s /\ Carries(s[i], n)
OwesAt(s, i, q, v, n) == i \in DOMAIN s /\ Owes(s[i], q, v, n)

(* A decision has one step at a time, and its announcements come after its *)
(* last one.                                                               *)
OneStepEach ==
  \A n \in Nat, b, p \in AuthBrokers : \A i, j :
    CarriesAt(pipes[b], i, n) /\ CarriesAt(pipes[p], j, n) => b = p /\ i = j
StepsAreNumbered ==
  \A n \in Nat, b \in AuthBrokers : \A i :
    CarriesAt(pipes[b], i, n) => n \in 1..decides /\ Asked(pipes[b][i].id)
AnnouncedAfterwards ==
  \A e \in inbox :
    /\ e[4] \in 1..decides /\ Asked(e[2])
    /\ \A b \in AuthBrokers : \A i : CarriesAt(pipes[b], i, e[4]) => Announced(pipes[b][i])

(* How the step at `old' is followed by the one at `new'. *)
StillAsked(q) == \E a \in asked' : a.id = q
Follows(s, t, old, new) ==
  \A n \in Nat : CarriesAt(t, new, n) =>
    /\ n \in 1..decides' /\ StillAsked(t[new].id)
    /\ n > decides \/ (CarriesAt(s, old, n) /\ (Announced(s[old]) => Announced(t[new])))

(* After a step, an announcement is still the last of its decision. *)
StillSettled(e) ==
  /\ e[4] \in 1..decides' /\ StillAsked(e[2])
  /\ \A p \in AuthBrokers : \A i :
       CarriesAt(pipes'[p], i, e[4]) => Announced(pipes'[p][i])

(* A decision keeps one step at a time when one step follows another. *)
LEMMA PipeStep ==
  ASSUME AuthTypes, OneStepEach, StepsAreNumbered, AnnouncedAfterwards,
         NEW b \in AuthBrokers, NEW t \in Seq(Steps),
         NEW old, NEW new, NEW shift \in {0, 1},
         Rearranged(pipes[b], t, old, new, shift),
         pipes' = [pipes EXCEPT ![b] = t],
         decides \in Nat, decides' \in Nat, decides <= decides', asked \subseteq asked',
         Follows(pipes[b], t, old, new)
  PROVE  /\ OneStepEach' /\ StepsAreNumbered' /\ \A e \in inbox : StillSettled(e)
         /\ \A p \in AuthBrokers : p # b => pipes'[p] = pipes[p]
         /\ pipes' \in [AuthBrokers -> Seq(Steps)] /\ pipes'[b] = t
  <1> DEFINE s == pipes[b]
  <1>1. s \in Seq(Steps) /\ DOMAIN s \subseteq Nat /\ DOMAIN t \subseteq Nat
    BY DEF AuthTypes
  <1>2. /\ pipes' \in [AuthBrokers -> Seq(Steps)] /\ pipes'[b] = t
        /\ \A p \in AuthBrokers : p # b => pipes'[p] = pipes[p]
    BY DEF AuthTypes
  <1>3. \A q : Asked(q) => StillAsked(q)
    BY DEF Asked, StillAsked
  <1>4. ASSUME NEW n \in Nat, NEW j, CarriesAt(t, j, n), j # new
        PROVE  /\ CarriesAt(s, j + shift, n) /\ j + shift # old /\ t[j] = s[j + shift]
               /\ j \in Nat
    BY <1>1, <1>4 DEF CarriesAt, Rearranged
  <1>5. ASSUME NEW n \in Nat, NEW j, CarriesAt(t, j, n)
        PROVE  /\ n \in 1..decides' /\ StillAsked(t[j].id)
               /\ \/ n > decides /\ j = new
                  \/ CarriesAt(s, old, n) /\ j = new /\ (Announced(s[old]) => Announced(t[j]))
                  \/ CarriesAt(s, j + shift, n) /\ j # new /\ t[j] = s[j + shift]
    <2>1. CASE j = new
      BY <1>5, <2>1 DEF Follows
    <2>2. CASE j # new
      <3>1. CarriesAt(s, j + shift, n) /\ t[j] = s[j + shift]
        BY <1>4, <1>5, <2>2
      <3>2. n \in 1..decides /\ Asked(t[j].id)
        BY <3>1 DEF StepsAreNumbered
      <3> QED BY <1>3, <2>2, <3>1, <3>2
    <2> QED BY <2>1, <2>2
  <1>6. ASSUME NEW n \in Nat, NEW i, NEW j, CarriesAt(t, i, n), CarriesAt(t, j, n) PROVE i = j
    <2>1. CASE i = new /\ j = new
      BY <2>1
    <2>2. ASSUME NEW k, CarriesAt(t, k, n), CarriesAt(t, new, n), k # new PROVE FALSE
      <3>1. CarriesAt(s, k + shift, n) /\ k + shift # old
        BY <1>4, <2>2
      <3>2. n \in 1..decides
        BY <3>1 DEF StepsAreNumbered
      <3>3. CarriesAt(s, old, n)
        BY <2>2, <3>2 DEF Follows
      <3> QED BY <3>1, <3>3 DEF OneStepEach
    <2>3. CASE i # new /\ j # new
      <3>1. CarriesAt(s, i + shift, n) /\ CarriesAt(s, j + shift, n) /\ i \in Nat /\ j \in Nat
        BY <1>4, <1>6, <2>3
      <3>2. i + shift = j + shift
        BY <3>1 DEF OneStepEach
      <3> QED BY <3>1, <3>2
    <2> QED BY <1>6, <2>1, <2>2, <2>3
  <1>7. ASSUME NEW n \in Nat, NEW p \in AuthBrokers, NEW i, NEW j, p # b,
               CarriesAt(t, i, n), CarriesAt(pipes[p], j, n)
        PROVE  FALSE
    <2>1. n \in 1..decides
      BY <1>7 DEF StepsAreNumbered
    <2>2. CarriesAt(s, old, n) \/ CarriesAt(s, i + shift, n)
      BY <1>5, <1>7, <2>1
    <2> QED BY <1>7, <2>2 DEF OneStepEach
  <1>8. OneStepEach'
    <2> SUFFICES ASSUME NEW n \in Nat, NEW c \in AuthBrokers, NEW p \in AuthBrokers, NEW i, NEW j,
                        CarriesAt(pipes'[c], i, n), CarriesAt(pipes'[p], j, n)
                 PROVE  c = p /\ i = j
      BY DEF OneStepEach, CarriesAt
    <2>1. CASE c = b /\ p = b
      BY <1>2, <1>6, <2>1
    <2>2. CASE c # b /\ p # b
      BY <1>2, <2>2 DEF OneStepEach
    <2>3. CASE c = b /\ p # b
      BY <1>2, <1>7, <2>3
    <2>4. CASE c # b /\ p = b
      BY <1>2, <1>7, <2>4
    <2> QED BY <2>1, <2>2, <2>3, <2>4
  <1>9. StepsAreNumbered'
    <2> SUFFICES ASSUME NEW n \in Nat, NEW p \in AuthBrokers, NEW i, CarriesAt(pipes'[p], i, n)
                 PROVE  n \in 1..decides' /\ StillAsked(pipes'[p][i].id)
      BY DEF StepsAreNumbered, CarriesAt, Asked, StillAsked
    <2>1. CASE p = b
      BY <1>2, <1>5, <2>1
    <2>2. CASE p # b
      <3>1. n \in 1..decides /\ Asked(pipes[p][i].id)
        BY <1>2, <2>2 DEF StepsAreNumbered
      <3> QED BY <1>2, <1>3, <2>2, <3>1
    <2> QED BY <2>1, <2>2
  <1>10. ASSUME NEW e \in inbox PROVE StillSettled(e)
    <2>1. e[4] \in 1..decides /\ Asked(e[2])
      BY DEF AnnouncedAfterwards
    <2>2. e[4] \in 1..decides' /\ StillAsked(e[2]) /\ e[4] \in Nat
      BY <1>3, <2>1
    <2>3. ASSUME NEW p \in AuthBrokers, NEW i, CarriesAt(pipes'[p], i, e[4])
          PROVE  Announced(pipes'[p][i])
      <3>1. CASE p # b
        BY <1>2, <2>3, <3>1 DEF AnnouncedAfterwards
      <3>2. CASE p = b
        <4>1. \/ CarriesAt(s, old, e[4]) /\ (Announced(s[old]) => Announced(t[i]))
              \/ CarriesAt(s, i + shift, e[4]) /\ t[i] = s[i + shift]
          BY <1>2, <1>5, <2>1, <2>2, <2>3, <3>2
        <4> QED BY <1>2, <3>2, <4>1 DEF AnnouncedAfterwards
      <3> QED BY <3>1, <3>2
    <2> QED BY <2>2, <2>3 DEF StillSettled
  <1> QED BY <1>2, <1>8, <1>9, <1>10

(* When all announcements are, so they were meant. *)
LEMMA Settled ==
  ASSUME \A e \in inbox' : StillSettled(e)
  PROVE  AnnouncedAfterwards'
  BY DEF AnnouncedAfterwards, StillSettled, StillAsked, Asked, CarriesAt, Announced

(* What the pipes owe after one step has followed another. *)
LEMMA OwingStep ==
  ASSUME NEW s \in Seq(Steps), NEW t \in Seq(Steps),
         NEW old, NEW new, NEW shift \in {0, 1}, Rearranged(s, t, old, new, shift)
  PROVE  \A q, v, n :
           /\ (\E i : OwesAt(t, i, q, v, n)) <=>
                (\E i : i # old /\ OwesAt(s, i, q, v, n)) \/ OwesAt(t, new, q, v, n)
           /\ (\E i : OwesAt(s, i, q, v, n)) <=>
                (\E i : i # old /\ OwesAt(s, i, q, v, n)) \/ OwesAt(s, old, q, v, n)
  <1> SUFFICES ASSUME NEW q, NEW v, NEW n
               PROVE  (\E i : OwesAt(t, i, q, v, n)) <=>
                        (\E i : i # old /\ OwesAt(s, i, q, v, n)) \/ OwesAt(t, new, q, v, n)
    OBVIOUS
  <1>1. ASSUME NEW i, OwesAt(t, i, q, v, n), i # new
        PROVE  i + shift # old /\ OwesAt(s, i + shift, q, v, n)
    BY <1>1 DEF OwesAt, Rearranged
  <1>2. ASSUME NEW i, OwesAt(s, i, q, v, n), i # old
        PROVE  OwesAt(t, i - shift, q, v, n)
    BY <1>2 DEF OwesAt, Rearranged
  <1> QED BY <1>1, <1>2

PipeChange(b, t, old, new, shift) ==
  /\ t \in Seq(Steps) /\ shift \in {0, 1}
  /\ Rearranged(pipes[b], t, old, new, shift)
  /\ Follows(pipes[b], t, old, new)
  /\ pipes' = [pipes EXCEPT ![b] = t]
SameDebt(s, t, old, new) ==
  \A q, v, n : OwesAt(t, new, q, v, n) <=> OwesAt(s, old, q, v, n)

(* What is known of the step a broker acts on. *)
LEMMA ActedOn ==
  ASSUME AuthTypes, StepsAreNumbered, NEW b \in AuthBrokers, NEW kind, Replied(b, kind)
  PROVE  LET s == pipes[b]
             step == Head(pipes[b])
         IN /\ s \in Seq(Steps) /\ s # <<>> /\ 1 \in DOMAIN s /\ s[1] = step
            /\ step \in Steps /\ step.kind = kind /\ step.replied
            /\ kind \in DecisionKinds =>
                 /\ step \in DecisionSteps /\ CarriesAt(s, 1, step.n)
                 /\ step.n \in 1..decides /\ Asked(step.id)
                 /\ step.id \in Requests /\ step.verdict \in Verdicts /\ step.n \in Nat
            /\ kind \in MirrorKinds =>
                 /\ step \in MirrorSteps /\ step.id \in Requests /\ step.n \in Nat
                 /\ step.doc \in Documents
  <1> DEFINE s == pipes[b]
             step == Head(pipes[b])
  <1>1. s \in Seq(Steps) /\ s # <<>> /\ step.kind = kind /\ step.replied
    BY DEF AuthTypes, Replied
  <1>2. 1 \in DOMAIN s /\ s[1] = step /\ step \in Steps
    BY <1>1, PipeDone
  <1>3. ASSUME kind \in DecisionKinds
        PROVE  /\ step \in DecisionSteps /\ CarriesAt(s, 1, step.n)
               /\ step.n \in 1..decides /\ Asked(step.id)
               /\ step.id \in Requests /\ step.verdict \in Verdicts /\ step.n \in Nat
    <2>1. step \in DecisionSteps
      BY <1>1, <1>2, <1>3 DEF Steps, MirrorSteps, MirrorKinds, DecisionKinds
    <2>2. step.id \in Requests /\ step.verdict \in Verdicts /\ step.n \in Nat
      BY <2>1 DEF DecisionSteps
    <2>3. CarriesAt(s, 1, step.n)
      BY <1>1, <1>2, <1>3 DEF CarriesAt, Carries
    <2>4. step.n \in 1..decides /\ Asked(s[1].id)
      BY <2>2, <2>3 DEF StepsAreNumbered
    <2> QED BY <1>2, <2>1, <2>2, <2>3, <2>4
  <1>4. ASSUME kind \in MirrorKinds
        PROVE  step \in MirrorSteps /\ step.id \in Requests /\ step.n \in Nat /\ step.doc \in Documents
    <2>1. step \in MirrorSteps
      BY <1>1, <1>2, <1>4 DEF Steps, DecisionSteps, MirrorKinds, DecisionKinds
    <2> QED BY <2>1 DEF MirrorSteps
  <1> QED BY <1>1, <1>2, <1>3, <1>4

(* The first step of a pipe is done. *)
LEMMA StepDone ==
  ASSUME AuthTypes, StepsAreNumbered, NEW b \in AuthBrokers, NEW kind, Replied(b, kind),
         Done(b)
  PROVE  /\ PipeChange(b, Tail(pipes[b]), 1, 0, 1)
         /\ kind \notin {"persist", "persisted"} => SameDebt(pipes[b], Tail(pipes[b]), 1, 0)
  <1>1. /\ pipes[b] \in Seq(Steps) /\ pipes[b] # <<>> /\ pipes[b][1].kind = kind
        /\ pipes[b][1].replied
    BY ActedOn
  <1>2. /\ Tail(pipes[b]) \in Seq(Steps) /\ 0 \notin DOMAIN Tail(pipes[b])
        /\ Rearranged(pipes[b], Tail(pipes[b]), 1, 0, 1)
    BY <1>1, PipeDone
  <1>3. PipeChange(b, Tail(pipes[b]), 1, 0, 1)
    BY <1>2 DEF PipeChange, Done, Follows, CarriesAt
  <1>4. ASSUME kind \notin {"persist", "persisted"} PROVE SameDebt(pipes[b], Tail(pipes[b]), 1, 0)
    BY <1>1, <1>2, <1>4 DEF SameDebt, OwesAt, Owes, Announced
  <1> QED BY <1>3, <1>4

(* The first step of a pipe is followed by another of the same decision. *)
LEMMA StepContinued ==
  ASSUME AuthTypes, StepsAreNumbered, NEW b \in AuthBrokers, NEW kind, Replied(b, kind),
         NEW e \in Steps, Continue(b, e), UNCHANGED <<asked, decides>>,
         kind # "publish",
         e.kind \in DecisionKinds =>
           kind \in DecisionKinds /\ e.n = Head(pipes[b]).n /\ e.id = Head(pipes[b]).id
  PROVE  LET t == Append(Tail(pipes[b]), e)
             new == Len(pipes[b])
         IN /\ PipeChange(b, t, 1, new, 1)
            /\ \A q, v, n : OwesAt(t, new, q, v, n) <=> Owes(e, q, v, n)
            /\ \A q, v, n : OwesAt(pipes[b], 1, q, v, n) <=> Owes(Head(pipes[b]), q, v, n)
  <1> DEFINE s == pipes[b]
             t == Append(Tail(pipes[b]), e)
             new == Len(pipes[b])
  <1>1. /\ s \in Seq(Steps) /\ s # <<>> /\ 1 \in DOMAIN s /\ s[1] = Head(s) /\ Head(s).kind = kind
        /\ kind \in DecisionKinds =>
             CarriesAt(s, 1, Head(s).n) /\ Head(s).n \in 1..decides /\ Asked(Head(s).id)
    BY ActedOn
  <1>2. t \in Seq(Steps) /\ t[new] = e /\ new \in DOMAIN t /\ Rearranged(s, t, 1, new, 1)
    BY <1>1, PipeContinued
  <1> HIDE DEF t, new
  <1>3. Follows(s, t, 1, new)
    <2> SUFFICES ASSUME NEW n \in Nat, CarriesAt(t, new, n)
                 PROVE  /\ n \in 1..decides' /\ StillAsked(t[new].id)
                        /\ CarriesAt(s, 1, n) /\ ~Announced(s[1])
      BY DEF Follows
    <2>1. e.kind \in DecisionKinds /\ e.n = n
      BY <1>2 DEF CarriesAt, Carries
    <2>2. CarriesAt(s, 1, n) /\ n \in 1..decides /\ Asked(e.id)
      BY <1>1, <2>1
    <2>3. ~Announced(s[1])
      BY <1>1 DEF Announced
    <2> QED BY <1>2, <2>2, <2>3 DEF Asked, StillAsked
  <1>4. pipes' = [pipes EXCEPT ![b] = t]
    BY DEF Continue, t
  <1>5. PipeChange(b, t, 1, new, 1)
    BY <1>2, <1>3, <1>4 DEF PipeChange
  <1>6. \A q, v, n : OwesAt(t, new, q, v, n) <=> Owes(e, q, v, n)
    BY <1>2 DEF OwesAt
  <1>7. \A q, v, n : OwesAt(s, 1, q, v, n) <=> Owes(Head(s), q, v, n)
    BY <1>1 DEF OwesAt
  <1> QED BY <1>5, <1>6, <1>7 DEF t, new

(* Steps after which the pipes owe what they owed before. *)
QuietMove(b) ==
  \E t, old, new, shift :
    PipeChange(b, t, old, new, shift) /\ SameDebt(pipes[b], t, old, new)

(* A first step is sent. *)
LEMMA StepSent ==
  ASSUME AuthTypes, NEW b \in AuthBrokers, NEW e \in Steps, Send(b, e),
         e.kind \in {"mirror", "lookup"},
         e.kind = "lookup" => e.n \in 1..decides' /\ e.n > decides /\ StillAsked(e.id)
  PROVE  QuietMove(b)
  <1> DEFINE s == pipes[b]
             t == Append(s, e)
             new == Len(s) + 1
  <1>1. s \in Seq(Steps)
    BY DEF AuthTypes
  <1>2. /\ t \in Seq(Steps) /\ 0 \notin DOMAIN s /\ t[new] = e /\ new \in DOMAIN t
        /\ Rearranged(s, t, 0, new, 0)
    BY <1>1, PipeSent
  <1>3. pipes' = [pipes EXCEPT ![b] = t]
    BY DEF Send
  <1> HIDE DEF t, new
  <1>4. Follows(s, t, 0, new)
    BY <1>2 DEF Follows, CarriesAt, Carries, DecisionKinds
  <1>5. SameDebt(s, t, 0, new)
    BY <1>2 DEF SameDebt, OwesAt, Owes
  <1>6. PipeChange(b, t, 0, new, 0)
    BY <1>2, <1>3, <1>4 DEF PipeChange
  <1> QED BY <1>5, <1>6 DEF QuietMove

(* A request is mirrored, a decision looked up. *)
LEMMA RequestMoves ==
  ASSUME AuthTypes, NEW b \in AuthBrokers, shared,
         \/ \E c \in AskingClients : AuthorizationRequest(b, c)
         \/ \E q \in Requests, v \in Verdicts : AuthorizationDecide(b, q, v)
  PROVE  QuietMove(b)
  <1>1. ASSUME NEW c \in AskingClients, AuthorizationRequest(b, c) PROVE QuietMove(b)
    <2> DEFINE q == asks + 1
    <2>1. asks \in Nat
      BY FS_CardinalityType DEF AuthTypes, asks
    <2>2. q \in Requests /\ q \in Nat
      BY <1>1, <2>1, AuthAssumption DEF AuthorizationRequest, Requests
    <2>3. Send(b, Step("mirror", q, "none", q))
      BY <1>1 DEF AuthorizationRequest
    <2> HIDE DEF q
    <2>4. Step("mirror", q, "none", q) \in Steps
      BY <2>2, NewStep DEF Steps
    <2>5. Step("mirror", q, "none", q).kind = "mirror"
      BY DEF Step
    <2> QED BY <2>3, <2>4, <2>5, StepSent
  <1>2. ASSUME NEW q \in Requests, NEW v \in Verdicts, AuthorizationDecide(b, q, v)
        PROVE  QuietMove(b)
    <2> DEFINE n == decides + 1
    <2>1. decides \in Nat /\ n \in Nat /\ n > decides /\ n \in 1..n
      BY AuthAssumption DEF AuthTypes, AuthTypeOK
    <2>2. /\ Send(b, Step("lookup", q, v, n)) /\ decides' = n /\ Asked(q) /\ asked' = asked
      BY <1>2 DEF AuthorizationDecide
    <2> HIDE DEF n
    <2>3. /\ Step("lookup", q, v, n) \in Steps /\ Step("lookup", q, v, n).kind = "lookup"
          /\ Step("lookup", q, v, n).n = n /\ Step("lookup", q, v, n).id = q
      BY <2>1, NewStep DEF Steps, DecisionKinds
    <2>4. StillAsked(q)
      BY <2>2 DEF Asked, StillAsked
    <2> QED BY <2>1, <2>2, <2>3, <2>4, StepSent
  <1> QED BY <1>1, <1>2

(* A reply is acted on, up to the announcement of a decision. *)
LEMMA ReplyMoves ==
  ASSUME AuthTypes, StepsAreNumbered, NEW b \in AuthBrokers,
         \/ MirrorAuthRequest(b) \/ LookedUp(b) \/ RefuseDecision(b) \/ PersistDecision(b)
  PROVE  QuietMove(b)
  <1> DEFINE step == Head(pipes[b])
  <1>0. ASSUME NEW kind, Replied(b, kind), Done(b), kind \notin {"persist", "persisted"}
        PROVE  QuietMove(b)
    BY <1>0, StepDone DEF QuietMove
  <1>1. ASSUME NEW kind, Replied(b, kind), NEW e \in Steps, Continue(b, e),
               kind \in {"mirror", "lookup", "persist", "persisted"},
               UNCHANGED <<asked, decides>>,
               e.kind \in DecisionKinds =>
                 kind \in DecisionKinds /\ e.n = step.n /\ e.id = step.id,
               \A q, v, n : Owes(e, q, v, n) <=> Owes(step, q, v, n)
        PROVE  QuietMove(b)
    <2> DEFINE t == Append(Tail(pipes[b]), e)
               new == Len(pipes[b])
    <2>1. /\ PipeChange(b, t, 1, new, 1)
          /\ \A q, v, n : OwesAt(t, new, q, v, n) <=> Owes(e, q, v, n)
          /\ \A q, v, n : OwesAt(pipes[b], 1, q, v, n) <=> Owes(step, q, v, n)
      BY <1>1, StepContinued
    <2> HIDE DEF t, new
    <2>2. SameDebt(pipes[b], t, 1, new)
      BY <1>1, <2>1, Zenon DEF SameDebt
    <2> QED BY <2>1, <2>2 DEF QuietMove
  <1>2. CASE MirrorAuthRequest(b)
    <2>1. PICK doc : /\ Replied(b, "mirror") /\ UNCHANGED <<asked, decides>>
                     /\ doc = [r \in Requests |->
                          IF r = step.id THEN status[b][r]
                          ELSE IF step.doc[r] = "pending" /\ Client(r) = Client(step.id)
                          THEN "superseded" ELSE step.doc[r]]
                     /\ Continue(b, [Step("mirrored", step.id, "none", step.n) EXCEPT !.doc = doc])
      BY <1>2 DEF MirrorAuthRequest, unchangedByReply, unchangedByCluster
    <2>2. step.id \in Requests /\ step.n \in Nat /\ step.doc \in Documents /\ step.kind = "mirror"
      BY <2>1, ActedOn DEF MirrorKinds
    <2>3. doc \in Documents
      BY <2>1, <2>2 DEF Documents, Statuses, AuthTypes, AuthTypeOK
    <2> DEFINE e == [Step("mirrored", step.id, "none", step.n) EXCEPT !.doc = doc]
    <2>4. e \in MirrorSteps
      BY <2>2, <2>3, NewStep
    <2>5. e \in Steps /\ e.kind \in MirrorKinds
      BY <2>4 DEF Steps, MirrorSteps
    <2> HIDE DEF e
    <2>6. \A q, v, n : ~Owes(e, q, v, n) /\ ~Owes(step, q, v, n)
      BY <2>2, <2>5 DEF Owes, MirrorKinds
    <2>7. e.kind \notin DecisionKinds
      BY <2>5 DEF MirrorKinds, DecisionKinds
    <2>8. Continue(b, e)
      BY <2>1 DEF e
    <2> QED BY <1>1, <2>1, <2>5, <2>6, <2>7, <2>8
  <1>3. CASE LookedUp(b)
    <2>1. Replied(b, "lookup") /\ UNCHANGED <<asked, decides>>
      BY <1>3 DEF LookedUp, unchangedByReply, unchangedByCluster
    <2>2. CASE Done(b)
      BY <1>0, <2>1, <2>2
    <2>3. CASE Continue(b, [step EXCEPT !.kind = "claim", !.replied = FALSE])
      <3> DEFINE e == [step EXCEPT !.kind = "claim", !.replied = FALSE]
      <3>1. step \in DecisionSteps /\ step.kind = "lookup"
        BY <2>1, ActedOn DEF DecisionKinds
      <3>2. e \in DecisionSteps /\ e.kind = "claim" /\ e.id = step.id /\ e.n = step.n
        BY <3>1, StepGoesOn
      <3>3. Continue(b, e)
        BY <2>3
      <3> HIDE DEF e
      <3>4. \A q, v, n : ~Owes(e, q, v, n) /\ ~Owes(step, q, v, n)
        BY <3>1, <3>2 DEF Owes
      <3>5. e \in Steps /\ "lookup" \in DecisionKinds
        BY <3>2 DEF Steps, DecisionKinds
      <3> QED BY <1>1, <2>1, <3>2, <3>3, <3>4, <3>5
    <2> QED BY <1>3, <2>2, <2>3 DEF LookedUp
  <1>4. CASE RefuseDecision(b)
    <2>1. Replied(b, "claim") /\ Done(b)
      BY <1>4 DEF RefuseDecision
    <2> QED BY <1>0, <2>1
  <1>5. CASE PersistDecision(b)
    <2>0. UNCHANGED <<asked, decides>>
      BY <1>5 DEF PersistDecision, unchangedByReply, unchangedByCluster
    <2>1. CASE /\ Replied(b, "persist")
               /\ Continue(b, [step EXCEPT !.kind = "persisted", !.replied = FALSE,
                                           !.doc[step.id] = step.verdict])
      <3> DEFINE e == [step EXCEPT !.kind = "persisted", !.replied = FALSE,
                                   !.doc[step.id] = step.verdict]
      <3>1. step \in DecisionSteps /\ step.kind = "persist"
        BY <2>1, ActedOn DEF DecisionKinds
      <3>2. /\ e \in DecisionSteps /\ e.kind = "persisted" /\ e.id = step.id /\ e.n = step.n
            /\ e.verdict = step.verdict
        BY <3>1, StepGoesOn
      <3>3. Continue(b, e)
        BY <2>1
      <3> HIDE DEF e
      <3>4. \A q, v, n : Owes(e, q, v, n) <=> Owes(step, q, v, n)
        BY <3>1, <3>2 DEF Owes, Announced
      <3>5. e \in Steps /\ "persist" \in DecisionKinds
        BY <3>2 DEF Steps, DecisionKinds
      <3> QED BY <1>1, <2>0, <2>1, <3>2, <3>3, <3>4, <3>5
    <2>2. CASE /\ Replied(b, "persisted")
               /\ Continue(b, Step("publish", step.id, step.verdict, step.n))
      <3> DEFINE e == Step("publish", step.id, step.verdict, step.n)
      <3>1. /\ step.id \in Requests /\ step.verdict \in Verdicts /\ step.n \in Nat
            /\ step.kind = "persisted"
        BY <2>2, ActedOn DEF DecisionKinds
      <3>2. /\ e \in DecisionSteps /\ e.kind = "publish" /\ e.id = step.id /\ e.n = step.n
            /\ e.verdict = step.verdict /\ ~e.replied
        BY <3>1, NewStep DEF DecisionKinds
      <3>3. Continue(b, e)
        BY <2>2
      <3> HIDE DEF e
      <3>4. \A q, v, n : Owes(e, q, v, n) <=> Owes(step, q, v, n)
        BY <3>1, <3>2 DEF Owes, Announced
      <3>5. e \in Steps /\ "persisted" \in DecisionKinds
        BY <3>2 DEF Steps, DecisionKinds
      <3> QED BY <1>1, <2>0, <2>2, <3>2, <3>3, <3>4, <3>5
    <2>3. CASE (Replied(b, "mirrored") \/ Replied(b, "publish")) /\ Done(b)
      BY <1>0, <2>3
    <2> QED BY <1>5, <2>1, <2>2, <2>3 DEF PersistDecision
  <1> QED BY <1>2, <1>3, <1>4, <1>5

(* What the announcement of a decision adds to the brokers' inboxes. *)
Announces(b, q, v, n) ==
  inbox' = inbox \cup {<<p, q, v, n>> : p \in Listeners(b)}

(* Redis answers a step.  The answer to an announcement is the one that    *)
(* moves a debt from the pipes to the inboxes.                             *)
LEMMA RedisMoves ==
  ASSUME AuthTypes, StepsAreNumbered, NEW b \in AuthBrokers, Redis(b)
  PROVE  /\ authDoc' \in Documents
         /\ \/ inbox' = inbox /\ QuietMove(b)
            \/ \E t, i : \E q \in Requests, v \in Verdicts, n \in Nat :
                 /\ PipeChange(b, t, i, i, 0) /\ Announces(b, q, v, n)
                 /\ n \in 1..decides /\ Asked(q)
                 /\ CarriesAt(pipes[b], i, n) /\ CarriesAt(t, i, n) /\ Announced(t[i])
                 /\ \A q1, v1, n1 :
                      /\ OwesAt(pipes[b], i, q1, v1, n1) <=> q1 = q /\ v1 = v /\ n1 = n
                      /\ ~OwesAt(t, i, q1, v1, n1)
  <1> DEFINE s == pipes[b]
  <1>1. PICK i \in DOMAIN s :
          /\ ~s[i].replied
          /\ pipes' = [pipes EXCEPT ![b][i] =
                [s[i] EXCEPT !.replied = TRUE,
                   !.doc = IF s[i].kind \in {"mirror", "lookup", "persist"} THEN authDoc ELSE s[i].doc]]
          /\ authDoc' = IF s[i].kind \in {"mirrored", "persisted"} THEN s[i].doc ELSE authDoc
          /\ inbox' = IF s[i].kind = "publish"
                      THEN inbox \cup {<<p, s[i].id, s[i].verdict, s[i].n>> : p \in Listeners(b)}
                      ELSE inbox
          /\ asked' = asked /\ decides' = decides
    BY DEF Redis
  <1> DEFINE step == s[i]
             doc == IF step.kind \in {"mirror", "lookup", "persist"} THEN authDoc ELSE step.doc
             e == [step EXCEPT !.replied = TRUE, !.doc = doc]
             t == [s EXCEPT ![i] = e]
  <1>2. s \in Seq(Steps) /\ step \in Steps
    BY DEF AuthTypes
  <1>3. step.doc \in Documents /\ authDoc \in Documents
    BY <1>2 DEF Steps, MirrorSteps, DecisionSteps, AuthTypes, AuthTypeOK, Documents
  <1>4. doc \in Documents /\ authDoc' \in Documents
    BY <1>1, <1>3
  <1>5. pipes' = [pipes EXCEPT ![b] = t]
    BY <1>1
  <1> HIDE DEF doc
  <1>6. /\ e \in Steps /\ e.kind = step.kind /\ e.id = step.id /\ e.verdict = step.verdict
        /\ e.n = step.n /\ e.replied
    BY <1>2, <1>4, StepReplied
  <1> HIDE DEF e
  <1>7. t \in Seq(Steps) /\ t[i] = e /\ i \in DOMAIN t /\ Rearranged(s, t, i, i, 0)
    BY <1>2, <1>6, PipeAnswered
  <1> HIDE DEF t
  <1>8. ASSUME step.kind \in DecisionKinds
        PROVE  /\ step.id \in Requests /\ step.verdict \in Verdicts /\ step.n \in Nat
               /\ CarriesAt(s, i, step.n) /\ CarriesAt(t, i, step.n)
               /\ step.n \in 1..decides /\ Asked(step.id)
    <2>1. step \in DecisionSteps
      BY <1>2, <1>8 DEF Steps, MirrorSteps, MirrorKinds, DecisionKinds
    <2>2. step.id \in Requests /\ step.verdict \in Verdicts /\ step.n \in Nat
      BY <2>1 DEF DecisionSteps
    <2>3. CarriesAt(s, i, step.n) /\ CarriesAt(t, i, step.n)
      BY <1>6, <1>7, <1>8 DEF CarriesAt, Carries
    <2>4. step.n \in 1..decides /\ Asked(s[i].id)
      BY <2>2, <2>3 DEF StepsAreNumbered
    <2> QED BY <2>2, <2>3, <2>4
  <1>9. Follows(s, t, i, i)
    <2> SUFFICES ASSUME NEW n \in Nat, CarriesAt(t, i, n)
                 PROVE  /\ n \in 1..decides' /\ StillAsked(t[i].id)
                        /\ CarriesAt(s, i, n) /\ ~Announced(s[i])
      BY DEF Follows
    <2>1. step.kind \in DecisionKinds /\ step.n = n
      BY <1>6, <1>7 DEF CarriesAt, Carries
    <2>2. CarriesAt(s, i, n) /\ n \in 1..decides /\ Asked(step.id)
      BY <1>8, <2>1
    <2> QED BY <1>1, <1>6, <1>7, <2>2 DEF Asked, StillAsked, Announced
  <1>10. PipeChange(b, t, i, i, 0)
    BY <1>5, <1>7, <1>9 DEF PipeChange
  <1>11. CASE step.kind # "publish"
    <2>1. SameDebt(s, t, i, i)
      BY <1>6, <1>7, <1>11 DEF SameDebt, OwesAt, Owes, Announced
    <2> QED BY <1>1, <1>4, <1>10, <1>11, <2>1 DEF QuietMove
  <1>12. CASE step.kind = "publish"
    <2>1. step.kind \in DecisionKinds
      BY <1>12 DEF DecisionKinds
    <2>2. Announces(b, step.id, step.verdict, step.n)
      BY <1>1, <1>12 DEF Announces
    <2>3. Announced(t[i]) /\ \A q1, v1, n1 : ~OwesAt(t, i, q1, v1, n1)
      BY <1>6, <1>7, <1>12 DEF Announced, OwesAt, Owes
    <2>4. \A q1, v1, n1 : OwesAt(s, i, q1, v1, n1)
                            <=> q1 = step.id /\ v1 = step.verdict /\ n1 = step.n
      BY <1>1, <1>12 DEF Announced, OwesAt, Owes
    <2> HIDE DEF step
    <2> QED BY <1>4, <1>8, <1>10, <2>1, <2>2, <2>3, <2>4
  <1> QED BY <1>11, <1>12

(* A decision is carried out: from now on it is owed to the client. *)
LEMMA DecisionMoves ==
  ASSUME AuthTypes, StepsAreNumbered, NEW b \in AuthBrokers, CarryOutDecision(b)
  PROVE  LET step == Head(pipes[b])
             t == Append(Tail(pipes[b]), Step("persist", step.id, step.verdict, step.n))
             new == Len(pipes[b])
         IN /\ PipeChange(b, t, 1, new, 1) /\ CarriesAt(pipes[b], 1, step.n)
            /\ ~Announced(pipes[b][1]) /\ step.n \in 1..decides
            /\ step \in DecisionSteps /\ Asked(step.id)
            /\ step.id \in Requests /\ step.verdict \in Verdicts
            /\ \A q, v, n :
                 /\ OwesAt(t, new, q, v, n) <=> q = step.id /\ v = step.verdict /\ n = step.n
                 /\ ~OwesAt(pipes[b], 1, q, v, n)
  <1> DEFINE step == Head(pipes[b])
             e == Step("persist", step.id, step.verdict, step.n)
             t == Append(Tail(pipes[b]), e)
             new == Len(pipes[b])
  <1>1. Replied(b, "claim") /\ Continue(b, e) /\ UNCHANGED <<asked, decides>>
    BY DEF CarryOutDecision, unchangedByCluster
  <1>2. /\ step.id \in Requests /\ step.verdict \in Verdicts /\ step.n \in Nat
        /\ step.kind = "claim" /\ step \in DecisionSteps /\ pipes[b][1] = step
        /\ CarriesAt(pipes[b], 1, step.n) /\ step.n \in 1..decides /\ Asked(step.id)
    BY <1>1, ActedOn DEF DecisionKinds
  <1>3. /\ e \in DecisionSteps /\ e.kind = "persist" /\ e.id = step.id /\ e.n = step.n
        /\ e.verdict = step.verdict /\ ~e.replied
    BY <1>2, NewStep DEF DecisionKinds
  <1> HIDE DEF e
  <1>4. e \in Steps /\ "claim" \in DecisionKinds
    BY <1>3 DEF Steps, DecisionKinds
  <1>5. /\ PipeChange(b, t, 1, new, 1)
        /\ \A q, v, n : OwesAt(t, new, q, v, n) <=> Owes(e, q, v, n)
        /\ \A q, v, n : OwesAt(pipes[b], 1, q, v, n) <=> Owes(step, q, v, n)
    BY <1>1, <1>3, <1>4, StepContinued
  <1> HIDE DEF t, new
  <1>6. \A q, v, n : Owes(e, q, v, n) <=> q = step.id /\ v = step.verdict /\ n = step.n
    BY <1>3 DEF Owes, Announced
  <1>7. (\A q, v, n : ~Owes(step, q, v, n)) /\ ~Announced(pipes[b][1])
    BY <1>2 DEF Owes, Announced
  <1> QED BY <1>2, <1>5, <1>6, <1>7 DEF t, new, e

(* One more decision, or one more answer, of a request and a verdict. *)
LEMMA TallyUp ==
  ASSUME NEW f \in Tallies, NEW q \in Requests, NEW v \in Verdicts
  PROVE  LET g == [f EXCEPT ![q][v] = @ + 1]
         IN /\ g \in Tallies
            /\ \A q1 \in Requests, v1 \in Verdicts :
                 g[q1][v1] = IF q1 = q /\ v1 = v THEN f[q1][v1] + 1 ELSE f[q1][v1]
  <1>1. \A q1 \in Requests : f[q1] \in [Verdicts -> Nat] /\ \A v1 \in Verdicts : f[q1][v1] + 1 \in Nat
    BY DEF Tallies
  <1> QED BY <1>1 DEF Tallies

(* What carrying out a decision does to the tallies and the statuses. *)
LEMMA CarriedOut ==
  ASSUME AuthTypes, NEW b \in AuthBrokers, NEW step \in DecisionSteps, CarryOut(b, step)
  PROVE  LET q == step.id
             v == step.verdict
         IN /\ outcomes' \in Tallies /\ answers' \in Tallies
            /\ \A q1 \in Requests, v1 \in Verdicts :
                 /\ outcomes'[q1][v1] = IF q1 = q /\ v1 = v THEN outcomes[q1][v1] + 1
                                        ELSE outcomes[q1][v1]
                 /\ answers'[q1][v1] = IF q1 = q /\ v1 = v /\ LocalRequester(b, q)
                                       THEN answers[q1][v1] + 1 ELSE answers[q1][v1]
            /\ status' \in [AuthBrokers -> Documents]
            /\ step.doc[q] = "absent" => status' = [status EXCEPT ![b][q] = v]
            /\ Found(b, step) = "pending"
  <1> DEFINE q == step.id
             v == step.verdict
  <1>1. q \in Requests /\ v \in Verdicts /\ v \in Statuses
    BY DEF DecisionSteps, Statuses
  <1>2. outcomes \in Tallies /\ answers \in Tallies /\ status \in [AuthBrokers -> Documents]
    BY DEF AuthTypes, AuthTypeOK, Documents
  <1>3. /\ outcomes' = [outcomes EXCEPT ![q][v] = @ + 1]
        /\ answers' = IF LocalRequester(b, q) THEN [answers EXCEPT ![q][v] = @ + 1] ELSE answers
        /\ status' = IF step.doc[q] = "absent" \/ q \in mapped[b]
                     THEN [status EXCEPT ![b][q] = v] ELSE status
        /\ Found(b, step) = "pending"
    BY DEF CarryOut
  <1> HIDE DEF q, v
  <1>4. [status EXCEPT ![b][q] = v] \in [AuthBrokers -> Documents]
    BY <1>1, <1>2 DEF Documents
  <1>5. /\ [outcomes EXCEPT ![q][v] = @ + 1] \in Tallies
        /\ \A q1 \in Requests, v1 \in Verdicts :
             [outcomes EXCEPT ![q][v] = @ + 1][q1][v1] =
               IF q1 = q /\ v1 = v THEN outcomes[q1][v1] + 1 ELSE outcomes[q1][v1]
    BY <1>1, <1>2, TallyUp
  <1>6. /\ [answers EXCEPT ![q][v] = @ + 1] \in Tallies
        /\ \A q1 \in Requests, v1 \in Verdicts :
             [answers EXCEPT ![q][v] = @ + 1][q1][v1] =
               IF q1 = q /\ v1 = v THEN answers[q1][v1] + 1 ELSE answers[q1][v1]
    BY <1>1, <1>2, TallyUp
  <1>7. \A q1 \in Requests, v1 \in Verdicts :
          outcomes'[q1][v1] = IF q1 = q /\ v1 = v THEN outcomes[q1][v1] + 1 ELSE outcomes[q1][v1]
    BY <1>3, <1>5
  <1>8. \A q1 \in Requests, v1 \in Verdicts :
          answers'[q1][v1] = IF q1 = q /\ v1 = v /\ LocalRequester(b, q)
                             THEN answers[q1][v1] + 1 ELSE answers[q1][v1]
    BY <1>3, <1>6
  <1>9. outcomes' \in Tallies /\ answers' \in Tallies /\ status' \in [AuthBrokers -> Documents]
    BY <1>2, <1>3, <1>4, <1>5, <1>6
  <1> QED BY <1>3, <1>7, <1>8, <1>9 DEF q, v

(* The pipes keep their type. *)
LEMMA QuietMoveTypes ==
  ASSUME AuthTypes, NEW b \in AuthBrokers, QuietMove(b)
  PROVE  pipes' \in [AuthBrokers -> Seq(Steps)]
  BY DEF QuietMove, PipeChange, AuthTypes

(* A new request has a number of its own; those made before keep theirs. *)
AskedInv ==
  \A a \in asked : a.id \in 1..asks /\ \A d \in asked : a.id = d.id => a = d

(* A request is asked. *)
LEMMA RequestStep ==
  ASSUME AuthTypes, AskedInv, NEW b \in AuthBrokers, NEW c \in AskingClients,
         AuthorizationRequest(b, c)
  PROVE  /\ asked' \subseteq [id : Requests, client : AskingClients, node : AuthBrokers]
         /\ IsFiniteSet(asked') /\ AskedInv' /\ asked \subseteq asked'
         /\ asks + 1 \in Requests /\ ~Asked(asks + 1)
         /\ \E a \in asked' : a.id = asks + 1 /\ a.node = b
  <1> DEFINE q == asks + 1
             new == [id |-> q, client |-> c, node |-> b]
  <1>1. asks \in Nat /\ IsFiniteSet(asked)
    BY FS_CardinalityType DEF AuthTypes, asks
  <1>2. q \in Requests /\ asked' = asked \cup {new}
    BY <1>1, AuthAssumption DEF AuthorizationRequest, Requests
  <1>3. new \in [id : Requests, client : AskingClients, node : AuthBrokers] /\ new.id = q /\ new.node = b
    BY <1>2
  <1> HIDE DEF new
  <1>4. \A a \in asked : a.id \in 1..asks /\ a.id # q
    BY <1>1 DEF AskedInv
  <1>5. new \notin asked
    BY <1>3, <1>4
  <1>6. IsFiniteSet(asked') /\ Cardinality(asked') = Cardinality(asked) + 1
    BY <1>1, <1>2, <1>5, FS_AddElement
  <1>7. asks' = q
    BY <1>6 DEF asks
  <1>8. \A a \in asked' : a.id \in 1..q
    BY <1>1, <1>2, <1>3, <1>4
  <1>9. \A a, d \in asked' : a.id = d.id => a = d
    BY <1>2, <1>3, <1>4 DEF AskedInv
  <1>10. AskedInv'
    <2>1. \A a \in asked' : a.id \in 1..asks' /\ \A d \in asked' : a.id = d.id => a = d
      BY <1>7, <1>8, <1>9
    <2> QED BY <2>1 DEF AskedInv
  <1>11. ~Asked(q)
    BY <1>4 DEF Asked
  <1>12. asked \subseteq [id : Requests, client : AskingClients, node : AuthBrokers]
    BY DEF AuthTypes, AuthTypeOK
  <1>13. asked' \subseteq [id : Requests, client : AskingClients, node : AuthBrokers]
    BY <1>2, <1>3, <1>12
  <1> HIDE DEF q
  <1>14. \E a \in asked' : a.id = q /\ a.node = b
    BY <1>2, <1>3
  <1> QED BY <1>2, <1>6, <1>10, <1>11, <1>13, <1>14 DEF q

(* Every step keeps the types. *)
LEMMA AuthTypeStep ==
  ASSUME AuthTypes, AskedInv, StepsAreNumbered, [AuthNext]_authVars
  PROVE  AuthTypes'
  <1>0. MaxAsks \in Nat /\ MaxDecides \in Nat
    BY AuthAssumption
  <1>1. CASE UNCHANGED authVars
    BY <1>1 DEF authVars, AuthTypes, AuthTypeOK
  <1>2. ASSUME NEW b \in AuthBrokers, NEW c \in AskingClients, AuthorizationRequest(b, c)
        PROVE  AuthTypes'
    <2> DEFINE q == asks + 1
               row == [r \in Requests |->
                        IF r = q THEN "pending"
                        ELSE IF r \in GivesWay(b, c) THEN "superseded" ELSE status[b][r]]
    <2>1. /\ status' = [status EXCEPT ![b] = row]
          /\ mapped' = [mapped EXCEPT ![b] = (mapped[b] \ GivesWay(b, c)) \cup {q}]
          /\ latest' = [latest EXCEPT ![b] = [latest[b] EXCEPT ![c] = q]]
          /\ UNCHANGED <<shared, authDoc, inbox, tasks, outcomes, answers, decides>>
          /\ shared \/ UNCHANGED pipes
      BY <1>2 DEF AuthorizationRequest
    <2>2. q \in Requests /\ asked' \subseteq [id : Requests, client : AskingClients, node : AuthBrokers]
          /\ IsFiniteSet(asked')
      BY <1>2, RequestStep
    <2>3. q \in 0..MaxAsks
      BY <1>0, <2>2 DEF Requests
    <2> HIDE DEF q
    <2>4. row \in [Requests -> Statuses]
      BY DEF AuthTypes, AuthTypeOK, Statuses
    <2> HIDE DEF row
    <2>5. /\ status' \in [AuthBrokers -> [Requests -> Statuses]]
          /\ mapped' \in [AuthBrokers -> SUBSET Requests]
      BY <2>1, <2>2, <2>4 DEF AuthTypes, AuthTypeOK
    <2>6. latest' \in [AuthBrokers -> [AskingClients -> 0..MaxAsks]]
      BY <2>1, <2>3 DEF AuthTypes, AuthTypeOK
    <2>7. pipes' \in [AuthBrokers -> Seq(Steps)]
      <3>1. CASE shared
        BY <1>2, <3>1, RequestMoves, QuietMoveTypes
      <3> QED BY <2>1, <3>1 DEF AuthTypes
    <2>8. shared' \in BOOLEAN /\ authDoc' \in [Requests -> Statuses] /\ decides' \in 0..MaxDecides
      BY <2>1, Zenon DEF AuthTypes, AuthTypeOK
    <2>9. AuthTypeOK'
      BY <2>2, <2>5, <2>6, <2>8, Zenon DEF AuthTypeOK
    <2> QED BY <2>1, <2>2, <2>7, <2>9 DEF AuthTypes
  <1>3. ASSUME NEW b \in AuthBrokers, NEW q \in Requests, NEW v \in Verdicts,
               AuthorizationDecide(b, q, v)
        PROVE  AuthTypes'
    <2>1. /\ decides < MaxDecides /\ decides' = decides + 1
          /\ UNCHANGED <<shared, asked, status, mapped, latest, authDoc, inbox, outcomes, answers>>
          /\ \/ shared /\ UNCHANGED tasks
             \/ UNCHANGED pipes /\ tasks' = tasks \cup {<<b, Step("claim", q, v, decides + 1)>>}
      BY <1>3 DEF AuthorizationDecide
    <2>2. decides \in 0..MaxDecides
      BY DEF AuthTypes, AuthTypeOK
    <2>3. decides' \in 0..MaxDecides /\ decides + 1 \in Nat
      BY <1>0, <2>1, <2>2
    <2>4. Step("claim", q, v, decides + 1) \in DecisionSteps
      BY <2>3, NewStep DEF DecisionKinds
    <2>5. tasks' \subseteq AuthBrokers \X DecisionSteps
      BY <2>1, <2>4 DEF AuthTypes
    <2>6. pipes' \in [AuthBrokers -> Seq(Steps)]
      <3>1. CASE shared
        BY <1>3, <3>1, RequestMoves, QuietMoveTypes
      <3> QED BY <2>1, <3>1 DEF AuthTypes
    <2>7. AuthTypeOK'
      BY <2>1, <2>3 DEF AuthTypes, AuthTypeOK
    <2> QED BY <2>1, <2>5, <2>6, <2>7 DEF AuthTypes
  <1>4. ASSUME NEW b \in AuthBrokers, Redis(b) PROVE AuthTypes'
    <2>1. UNCHANGED <<shared, asked, status, mapped, latest, tasks, outcomes, answers, decides>>
      BY <1>4 DEF Redis
    <2>2. authDoc' \in Documents
      BY <1>4, RedisMoves
    <2>3. AuthTypeOK'
      BY <2>1, <2>2 DEF AuthTypes, AuthTypeOK, Documents
    <2>4. /\ pipes' \in [AuthBrokers -> Seq(Steps)]
          /\ inbox' \subseteq AuthBrokers \X Requests \X Verdicts \X Nat
      <3>1. CASE inbox' = inbox /\ QuietMove(b)
        BY <3>1, QuietMoveTypes DEF AuthTypes
      <3>2. ASSUME NEW t, NEW i, NEW q \in Requests, NEW v \in Verdicts, NEW n \in Nat,
                   PipeChange(b, t, i, i, 0), Announces(b, q, v, n)
            PROVE  /\ pipes' \in [AuthBrokers -> Seq(Steps)]
                   /\ inbox' \subseteq AuthBrokers \X Requests \X Verdicts \X Nat
        <4>1. pipes' \in [AuthBrokers -> Seq(Steps)]
          BY <3>2 DEF PipeChange, AuthTypes
        <4>2. {<<p, q, v, n>> : p \in Listeners(b)} \subseteq AuthBrokers \X Requests \X Verdicts \X Nat
          BY DEF Listeners
        <4>3. inbox \subseteq AuthBrokers \X Requests \X Verdicts \X Nat
          BY DEF AuthTypes
        <4> QED BY <3>2, <4>1, <4>2, <4>3, Zenon DEF Announces
      <3> QED BY <1>4, <3>1, <3>2, RedisMoves
    <2> QED BY <2>1, <2>3, <2>4 DEF AuthTypes
  <1>5. ASSUME NEW b \in AuthBrokers,
               \/ MirrorAuthRequest(b) \/ LookedUp(b) \/ RefuseDecision(b) \/ PersistDecision(b)
        PROVE  AuthTypes'
    <2>1. UNCHANGED unchangedByReply
      BY <1>5 DEF MirrorAuthRequest, LookedUp, RefuseDecision, PersistDecision
    <2>2. pipes' \in [AuthBrokers -> Seq(Steps)]
      BY <1>5, ReplyMoves, QuietMoveTypes
    <2> QED BY <2>1, <2>2 DEF unchangedByReply, unchangedByCluster, AuthTypes, AuthTypeOK
  <1>6. ASSUME NEW b \in AuthBrokers, CarryOutDecision(b) PROVE AuthTypes'
    <2> DEFINE step == Head(pipes[b])
    <2>1. CarryOut(b, step) /\ UNCHANGED <<shared, asked, mapped, latest, authDoc, inbox, decides, tasks>>
      BY <1>6 DEF CarryOutDecision, unchangedByCluster
    <2>2. step \in DecisionSteps /\ \E t, new : PipeChange(b, t, 1, new, 1)
      BY <1>6, DecisionMoves
    <2>3. pipes' \in [AuthBrokers -> Seq(Steps)]
      BY <2>2 DEF PipeChange, AuthTypes
    <2>4. outcomes' \in Tallies /\ answers' \in Tallies /\ status' \in [AuthBrokers -> Documents]
      BY <2>1, <2>2, CarriedOut
    <2> QED BY <2>1, <2>3, <2>4 DEF AuthTypes, AuthTypeOK, Documents
  <1>7. ASSUME NEW task \in tasks, DecideAlone(task) PROVE AuthTypes'
    <2>1. /\ tasks' \subseteq tasks /\ UNCHANGED <<shared, asked, mapped, latest, authDoc, inbox, decides, pipes>>
          /\ CarryOut(task[1], task[2]) \/ UNCHANGED <<status, outcomes, answers>>
      BY <1>7 DEF DecideAlone, unchangedByCluster
    <2>2. task[1] \in AuthBrokers /\ task[2] \in DecisionSteps
      BY DEF AuthTypes
    <2>3. outcomes' \in Tallies /\ answers' \in Tallies /\ status' \in [AuthBrokers -> Documents]
      <3>1. CASE CarryOut(task[1], task[2])
        BY <2>2, <3>1, CarriedOut
      <3> QED BY <2>1, <3>1 DEF AuthTypes, AuthTypeOK, Documents
    <2> QED BY <2>1, <2>3 DEF AuthTypes, AuthTypeOK, Documents
  <1>8. ASSUME NEW peer \in inbox, PeerDecision(peer) PROVE AuthTypes'
    <2> DEFINE b == peer[1]
               q == peer[2]
               v == peer[3]
    <2>1. b \in AuthBrokers /\ q \in Requests /\ v \in Verdicts
      BY DEF AuthTypes
    <2>2. /\ inbox' \subseteq inbox
          /\ answers' = answers \/ answers' = [answers EXCEPT ![q][v] = @ + 1]
          /\ status' = status \/ status' = [status EXCEPT ![b][q] = v]
          /\ UNCHANGED <<shared, asked, mapped, latest, authDoc, pipes, tasks, outcomes, decides>>
      BY <1>8 DEF PeerDecision
    <2> HIDE DEF b, q, v
    <2>3. answers' \in Tallies
      <3>1. answers \in Tallies
        BY DEF AuthTypes
      <3>2. [answers EXCEPT ![q][v] = @ + 1] \in Tallies
        BY <2>1, <3>1, TallyUp
      <3> QED BY <2>2, <3>1, <3>2
    <2>4. status' \in [AuthBrokers -> [Requests -> Statuses]]
      <3>1. status \in [AuthBrokers -> [Requests -> Statuses]] /\ v \in Statuses
        BY <2>1 DEF AuthTypes, AuthTypeOK, Statuses
      <3>2. [status EXCEPT ![b][q] = v] \in [AuthBrokers -> [Requests -> Statuses]]
        BY <2>1, <3>1
      <3> QED BY <2>2, <3>1, <3>2
    <2> QED BY <2>2, <2>3, <2>4 DEF AuthTypes, AuthTypeOK
  <1> QED BY <1>1, <1>2, <1>3, <1>4, <1>5, <1>6, <1>7, <1>8 DEF AuthNext

(* The decisions that the client of request q has yet to be told of: they  *)
(* are in an inbox of its broker, or another broker has still to announce  *)
(* them.                                                                   *)
PipeOwes(b, q, v, n) == \E i : OwesAt(pipes[b], i, q, v, n)
IsOwed(q, v, n) ==
  \/ <<Home(q), q, v, n>> \in inbox
  \/ \E b \in AuthBrokers : b # Home(q) /\ PipeOwes(b, q, v, n)
Owed(q, v) == {n \in 1..MaxDecides : IsOwed(q, v, n)}
Counted ==
  \A q \in Requests, v \in Verdicts :
    outcomes[q][v] = answers[q][v] + Cardinality(Owed(q, v))

ToldInv ==
  /\ AuthTypes /\ AskedInv /\ OneStepEach /\ StepsAreNumbered /\ AnnouncedAfterwards
  /\ Counted

(* A request keeps its broker, which is one of the cluster. *)
LEMMA HomeKept ==
  ASSUME AuthTypes, AskedInv, AskedInv', asked \subseteq asked', NEW q, Asked(q)
  PROVE  (CHOOSE a \in asked' : a.id = q).node = Home(q) /\ Home(q) \in AuthBrokers
  <1>1. PICK a \in asked : a.id = q
    BY DEF Asked
  <1>2. \A d \in asked : d.id = q => d = a
    BY <1>1 DEF AskedInv
  <1>3. \A d \in asked' : d.id = q => d = a
    <2>1. \A d, e \in asked' : d.id = e.id => d = e
      BY DEF AskedInv
    <2> QED BY <1>1, <2>1
  <1>4. (CHOOSE d \in asked : d.id = q) = a /\ (CHOOSE d \in asked' : d.id = q) = a
    BY <1>1, <1>2, <1>3
  <1>5. a.node \in AuthBrokers
    BY DEF AuthTypes, AuthTypeOK
  <1> QED BY <1>4, <1>5 DEF Home

(* Only requests that were asked are owed anything. *)
LEMMA OwedIsAsked ==
  ASSUME AuthTypes, StepsAreNumbered, AnnouncedAfterwards, NEW q, NEW v, NEW n
  PROVE  /\ \A b \in AuthBrokers : PipeOwes(b, q, v, n) => Asked(q) /\ n \in 1..decides
         /\ \A p : <<p, q, v, n>> \in inbox => Asked(q) /\ n \in 1..decides
  <1>1. ASSUME NEW b \in AuthBrokers, NEW i, OwesAt(pipes[b], i, q, v, n)
        PROVE  Asked(q) /\ n \in 1..decides
    <2>1. i \in DOMAIN pipes[b] /\ pipes[b][i] \in Steps
      BY <1>1 DEF OwesAt, AuthTypes
    <2>2. n \in Nat /\ pipes[b][i].id = q /\ CarriesAt(pipes[b], i, n)
      BY <1>1, <2>1 DEF OwesAt, Owes, CarriesAt, Carries, DecisionKinds, Steps, MirrorSteps, DecisionSteps
    <2> QED BY <2>2 DEF StepsAreNumbered
  <1>2. ASSUME NEW p, <<p, q, v, n>> \in inbox PROVE Asked(q) /\ n \in 1..decides
    BY <1>2 DEF AnnouncedAfterwards
  <1> QED BY <1>1, <1>2 DEF PipeOwes

(* What a change of a pipe leaves owed. *)
LEMMA PipeOwing ==
  ASSUME AuthTypes, NEW b \in AuthBrokers, NEW t, NEW old, NEW new, NEW shift,
         PipeChange(b, t, old, new, shift)
  PROVE  /\ \A p \in AuthBrokers : \A q, v, n :
              p # b => (PipeOwes(p, q, v, n)' <=> PipeOwes(p, q, v, n))
         /\ \A q, v, n :
              /\ PipeOwes(b, q, v, n)' <=>
                   (\E i : i # old /\ OwesAt(pipes[b], i, q, v, n)) \/ OwesAt(t, new, q, v, n)
              /\ PipeOwes(b, q, v, n) <=>
                   (\E i : i # old /\ OwesAt(pipes[b], i, q, v, n)) \/ OwesAt(pipes[b], old, q, v, n)
  <1>1. /\ pipes'[b] = t /\ \A p \in AuthBrokers : p # b => pipes'[p] = pipes[p]
        /\ pipes[b] \in Seq(Steps) /\ t \in Seq(Steps) /\ shift \in {0, 1}
        /\ Rearranged(pipes[b], t, old, new, shift)
    BY DEF PipeChange, AuthTypes
  <1>2. \A p \in AuthBrokers : \A q, v, n : PipeOwes(p, q, v, n)' <=> \E i : OwesAt(pipes'[p], i, q, v, n)
    BY DEF PipeOwes, OwesAt, Owes, Announced
  <1>3. \A q, v, n :
           /\ (\E i : OwesAt(t, i, q, v, n)) <=>
                (\E i : i # old /\ OwesAt(pipes[b], i, q, v, n)) \/ OwesAt(t, new, q, v, n)
           /\ (\E i : OwesAt(pipes[b], i, q, v, n)) <=>
                (\E i : i # old /\ OwesAt(pipes[b], i, q, v, n)) \/ OwesAt(pipes[b], old, q, v, n)
    BY <1>1, OwingStep
  <1>4. \A p \in AuthBrokers : \A q, v, n : p # b => (PipeOwes(p, q, v, n)' <=> PipeOwes(p, q, v, n))
    BY <1>1, <1>2, Zenon DEF PipeOwes
  <1>5. \A q, v, n : PipeOwes(b, q, v, n)' <=>
          (\E i : i # old /\ OwesAt(pipes[b], i, q, v, n)) \/ OwesAt(t, new, q, v, n)
    BY <1>1, <1>2, <1>3, Zenon
  <1>6. \A q, v, n : PipeOwes(b, q, v, n) <=>
          (\E i : i # old /\ OwesAt(pipes[b], i, q, v, n)) \/ OwesAt(pipes[b], old, q, v, n)
    BY <1>3, Zenon DEF PipeOwes
  <1> QED BY <1>4, <1>5, <1>6

(* The broker of a request that was asked, after a step. *)
LEMMA HomeStays ==
  ASSUME AuthTypes, AskedInv, AskedInv', asked \subseteq asked'
  PROVE  \A q : Asked(q) => Home(q)' = Home(q) /\ Home(q) \in AuthBrokers
  BY HomeKept DEF Home

(* Nothing more is owed, and nothing less. *)
LEMMA OwedKept ==
  ASSUME AuthTypes, AskedInv, AskedInv', StepsAreNumbered, AnnouncedAfterwards,
         asked \subseteq asked', inbox' = inbox,
         \A p \in AuthBrokers : \A q, v, n : PipeOwes(p, q, v, n)' <=> PipeOwes(p, q, v, n)
  PROVE  \A q, v : Owed(q, v)' = Owed(q, v)
  <1> SUFFICES ASSUME NEW q, NEW v PROVE Owed(q, v)' = Owed(q, v)
    OBVIOUS
  <1>1. ASSUME NEW n PROVE IsOwed(q, v, n)' <=> IsOwed(q, v, n)
    <2>1. IsOwed(q, v, n)' <=> \/ <<Home(q)', q, v, n>> \in inbox
                               \/ \E p \in AuthBrokers : p # Home(q)' /\ PipeOwes(p, q, v, n)
      BY DEF IsOwed
    <2>2. CASE Asked(q)
      <3>1. Home(q)' = Home(q)
        BY <2>2, HomeStays
      <3> QED BY <2>1, <3>1, Zenon DEF IsOwed
    <2>3. CASE ~Asked(q)
      <3>1. /\ \A p \in AuthBrokers : ~PipeOwes(p, q, v, n)
            /\ \A p : <<p, q, v, n>> \notin inbox
        BY <2>3, OwedIsAsked
      <3> QED BY <2>1, <3>1, Zenon DEF IsOwed
    <2> QED BY <2>2, <2>3
  <1> QED BY <1>1 DEF Owed

(* Steps that neither decide nor tell. *)
LEMMA QuietStep ==
  ASSUME ToldInv, AuthTypes', AskedInv', NEW b \in AuthBrokers, QuietMove(b),
         asked \subseteq asked', decides <= decides',
         UNCHANGED <<inbox, outcomes, answers>>
  PROVE  ToldInv'
  <1> USE DEF ToldInv
  <1>0. decides \in Nat /\ decides' \in Nat
    BY AuthAssumption DEF AuthTypes, AuthTypeOK
  <1>1. PICK t, old, new, shift :
          PipeChange(b, t, old, new, shift) /\ SameDebt(pipes[b], t, old, new)
    BY DEF QuietMove
  <1>2. OneStepEach' /\ StepsAreNumbered' /\ AnnouncedAfterwards'
    <2>1. /\ t \in Seq(Steps) /\ shift \in {0, 1} /\ Rearranged(pipes[b], t, old, new, shift)
          /\ Follows(pipes[b], t, old, new) /\ pipes' = [pipes EXCEPT ![b] = t]
      BY <1>1 DEF PipeChange
    <2>2. OneStepEach' /\ StepsAreNumbered' /\ \A e \in inbox : StillSettled(e)
      BY <1>0, <2>1, PipeStep
    <2> QED BY <2>2, Settled
  <1>3. /\ \A p \in AuthBrokers : \A q, v, n :
             p # b => (PipeOwes(p, q, v, n)' <=> PipeOwes(p, q, v, n))
        /\ \A q, v, n :
             /\ PipeOwes(b, q, v, n)' <=>
                  (\E i : i # old /\ OwesAt(pipes[b], i, q, v, n)) \/ OwesAt(t, new, q, v, n)
             /\ PipeOwes(b, q, v, n) <=>
                  (\E i : i # old /\ OwesAt(pipes[b], i, q, v, n)) \/ OwesAt(pipes[b], old, q, v, n)
    BY <1>1, PipeOwing
  <1>4. \A q, v, n : OwesAt(t, new, q, v, n) <=> OwesAt(pipes[b], old, q, v, n)
    BY <1>1 DEF SameDebt
  <1>5. \A p \in AuthBrokers : \A q, v, n : PipeOwes(p, q, v, n)' <=> PipeOwes(p, q, v, n)
    BY <1>3, <1>4, Zenon
  <1>6. \A q, v : Owed(q, v)' = Owed(q, v)
    BY <1>5, OwedKept
  <1>7. Counted'
    BY <1>6 DEF Counted
  <1> QED BY <1>2, <1>7

(* The decisions owed are finitely many: one more and one less.  *)
LEMMA OwedCount ==
  /\ \A q, v : IsFiniteSet(Owed(q, v)) /\ Cardinality(Owed(q, v)) \in Nat
  /\ \A q, v : IsFiniteSet(Owed(q, v)') /\ Cardinality(Owed(q, v)') \in Nat
  /\ \A q, v, n : Owed(q, v)' = Owed(q, v) \cup {n} /\ n \notin Owed(q, v)
       => Cardinality(Owed(q, v)') = Cardinality(Owed(q, v)) + 1
  /\ \A q, v, n : Owed(q, v)' = Owed(q, v) \ {n} /\ n \in Owed(q, v)
       => Cardinality(Owed(q, v)') = Cardinality(Owed(q, v)) - 1
  <1>1. IsFiniteSet(1..MaxDecides)
    BY FS_Interval, AuthAssumption
  <1>2. \A q, v : Owed(q, v) \subseteq 1..MaxDecides /\ Owed(q, v)' \subseteq 1..MaxDecides
    BY DEF Owed
  <1>3. \A q, v : IsFiniteSet(Owed(q, v)) /\ IsFiniteSet(Owed(q, v)')
    BY <1>1, <1>2, FS_Subset
  <1>4. \A q, v : Cardinality(Owed(q, v)) \in Nat /\ Cardinality(Owed(q, v)') \in Nat
    BY <1>3, FS_CardinalityType
  <1>5. \A S : IsFiniteSet(S) =>
          /\ \A n : n \notin S => Cardinality(S \cup {n}) = Cardinality(S) + 1
          /\ \A n : n \in S => Cardinality(S \ {n}) = Cardinality(S) - 1
    BY FS_AddElement, FS_RemoveElement
  <1> QED BY <1>3, <1>4, <1>5

(* A step that owes something is a step of a decision. *)
LEMMA OwesCarries ==
  ASSUME AuthTypes
  PROVE  \A b \in AuthBrokers : \A i, q, v, n :
           OwesAt(pipes[b], i, q, v, n) =>
             n \in Nat /\ CarriesAt(pipes[b], i, n) /\ ~Announced(pipes[b][i])
  <1> SUFFICES ASSUME NEW b \in AuthBrokers, NEW i, NEW q, NEW v, NEW n,
                      OwesAt(pipes[b], i, q, v, n)
               PROVE  n \in Nat /\ CarriesAt(pipes[b], i, n) /\ ~Announced(pipes[b][i])
    OBVIOUS
  <1>1. i \in DOMAIN pipes[b] /\ pipes[b][i] \in Steps
    BY DEF OwesAt, AuthTypes
  <1> QED BY <1>1 DEF OwesAt, Owes, CarriesAt, Carries, DecisionKinds, Steps, MirrorSteps, DecisionSteps

(* Redis carries the announcement of a decision to the other brokers: what *)
(* the pipe owed, the inbox of the request's broker owes.                  *)
LEMMA RedisStep ==
  ASSUME ToldInv, AuthTypes', AskedInv', NEW b \in AuthBrokers, Redis(b)
  PROVE  ToldInv'
  <1> USE DEF ToldInv
  <1>0. decides \in Nat
    BY AuthAssumption DEF AuthTypes, AuthTypeOK
  <1>1. UNCHANGED <<asked, decides, outcomes, answers>>
    BY DEF Redis
  <1>2. CASE inbox' = inbox /\ QuietMove(b)
    BY <1>0, <1>1, <1>2, QuietStep
  <1>3. ASSUME NEW t, NEW i, NEW q0 \in Requests, NEW v0 \in Verdicts, NEW n0 \in Nat,
               PipeChange(b, t, i, i, 0), Announces(b, q0, v0, n0),
               n0 \in 1..decides, Asked(q0),
               CarriesAt(pipes[b], i, n0), CarriesAt(t, i, n0), Announced(t[i]),
               \A q, v, n :
                 /\ OwesAt(pipes[b], i, q, v, n) <=> q = q0 /\ v = v0 /\ n = n0
                 /\ ~OwesAt(t, i, q, v, n)
        PROVE  ToldInv'
    <2>1. /\ t \in Seq(Steps) /\ 0 \in {0, 1} /\ Rearranged(pipes[b], t, i, i, 0)
          /\ Follows(pipes[b], t, i, i) /\ pipes' = [pipes EXCEPT ![b] = t]
      BY <1>3 DEF PipeChange
    <2>2. /\ OneStepEach' /\ StepsAreNumbered' /\ pipes'[b] = t
          /\ \A e \in inbox : StillSettled(e)
      <3>1. decides' \in Nat /\ decides <= decides' /\ asked \subseteq asked'
        BY <1>0, <1>1
      <3> QED BY <1>0, <2>1, <3>1, PipeStep
    <2>3. ASSUME NEW p \in Listeners(b) PROVE StillSettled(<<p, q0, v0, n0>>)
      <3>1. ASSUME NEW c \in AuthBrokers, NEW j, CarriesAt(pipes'[c], j, n0)
            PROVE  Announced(pipes'[c][j])
        <4>1. \A d \in AuthBrokers : \A k : CarriesAt(pipes'[d], k, n0) => d = b /\ k = i
          BY <1>3, <2>2 DEF OneStepEach, CarriesAt, Carries
        <4> QED BY <1>3, <2>2, <3>1, <4>1
      <3>2. StillAsked(q0)
        BY <1>1, <1>3 DEF Asked, StillAsked
      <3> QED BY <1>1, <1>3, <3>1, <3>2 DEF StillSettled
    <2>4. AnnouncedAfterwards'
      <3>1. \A e \in inbox' : StillSettled(e)
        BY <1>3, <2>2, <2>3 DEF Announces
      <3> QED BY <3>1, Settled
    <2>5. /\ \A p \in AuthBrokers : \A q, v, n :
               p # b => (PipeOwes(p, q, v, n)' <=> PipeOwes(p, q, v, n))
          /\ \A q, v, n :
               /\ PipeOwes(b, q, v, n)' <=>
                    (\E j : j # i /\ OwesAt(pipes[b], j, q, v, n)) \/ OwesAt(t, i, q, v, n)
               /\ PipeOwes(b, q, v, n) <=>
                    (\E j : j # i /\ OwesAt(pipes[b], j, q, v, n)) \/ OwesAt(pipes[b], i, q, v, n)
      BY <1>3, PipeOwing
    <2>6. /\ \A q, v, n : ~(q = q0 /\ v = v0 /\ n = n0) =>
               (PipeOwes(b, q, v, n)' <=> PipeOwes(b, q, v, n))
          /\ PipeOwes(b, q0, v0, n0)
      BY <1>3, <2>5, Zenon
    <2>7. \A p, q, v, n : <<p, q, v, n>> \in inbox' <=>
            \/ <<p, q, v, n>> \in inbox
            \/ p \in AuthBrokers /\ p # b /\ q = q0 /\ v = v0 /\ n = n0
      BY <1>3 DEF Announces, Listeners
    <2>8. Home(q0) \in AuthBrokers
      BY <1>1, <1>3, HomeStays
    <2>9. ASSUME NEW q, NEW v, NEW n PROVE IsOwed(q, v, n)' <=> IsOwed(q, v, n)
      <3>0. Home(q)' = Home(q)
        BY <1>1 DEF Home
      <3>1. IsOwed(q, v, n)' <=> \/ <<Home(q), q, v, n>> \in inbox'
                                 \/ \E p \in AuthBrokers : p # Home(q) /\ PipeOwes(p, q, v, n)'
        BY <3>0 DEF IsOwed
      <3>2. CASE q = q0 /\ v = v0 /\ n = n0 /\ Home(q0) # b
        <4>1. IsOwed(q, v, n)
          BY <2>6, <3>2 DEF IsOwed
        <4>2. <<Home(q), q, v, n>> \in inbox'
          BY <2>7, <2>8, <3>2
        <4> QED BY <3>1, <4>1, <4>2
      <3>3. CASE q = q0 /\ v = v0 /\ n = n0 /\ Home(q0) = b
        <4>1. <<Home(q), q, v, n>> \in inbox' <=> <<Home(q), q, v, n>> \in inbox
          BY <2>7, <3>3
        <4>2. \A p \in AuthBrokers : p # Home(q) => (PipeOwes(p, q, v, n)' <=> PipeOwes(p, q, v, n))
          BY <2>5, <3>3
        <4> QED BY <3>1, <4>1, <4>2, Zenon DEF IsOwed
      <3>4. CASE ~(q = q0 /\ v = v0 /\ n = n0)
        <4>1. <<Home(q), q, v, n>> \in inbox' <=> <<Home(q), q, v, n>> \in inbox
          BY <2>7, <3>4
        <4>2. \A p \in AuthBrokers : PipeOwes(p, q, v, n)' <=> PipeOwes(p, q, v, n)
          BY <2>5, <2>6, <3>4
        <4> QED BY <3>1, <4>1, <4>2, Zenon DEF IsOwed
      <3> QED BY <3>2, <3>3, <3>4
    <2>10. \A q, v : Owed(q, v)' = Owed(q, v)
      BY <2>9 DEF Owed
    <2>11. Counted'
      BY <1>1, <2>10 DEF Counted
    <2> QED BY <2>2, <2>4, <2>11
  <1> QED BY <1>2, <1>3, RedisMoves

(* A broker alone keeps its decisions in memory; a cluster keeps them in   *)
(* the pipes and the inboxes.                                              *)
ApartInv ==
  /\ shared => tasks = {}
  /\ ~shared => inbox = {} /\ \A b \in AuthBrokers : pipes[b] = <<>>

(* A broker of a cluster carries out a decision: it tells the client when  *)
(* it is the request's own broker, and owes it the answer when it is not.  *)
LEMMA CarryOutStep ==
  ASSUME ToldInv, ApartInv, AuthTypes', AskedInv', NEW b \in AuthBrokers, CarryOutDecision(b)
  PROVE  ToldInv'
  <1> USE DEF ToldInv
  <1> DEFINE q0 == Head(pipes[b]).id
             v0 == Head(pipes[b]).verdict
             n0 == Head(pipes[b]).n
             t == Append(Tail(pipes[b]), Step("persist", q0, v0, n0))
             new == Len(pipes[b])
  <1>0. decides \in Nat /\ decides <= MaxDecides
    BY AuthAssumption DEF AuthTypes, AuthTypeOK
  <1>1. /\ UNCHANGED <<asked, decides, inbox>> /\ CarryOut(b, Head(pipes[b])) /\ pipes[b] # <<>>
    BY DEF CarryOutDecision, unchangedByCluster, Replied
  <1>2. /\ PipeChange(b, t, 1, new, 1) /\ CarriesAt(pipes[b], 1, n0)
        /\ ~Announced(pipes[b][1]) /\ n0 \in 1..decides
        /\ Head(pipes[b]) \in DecisionSteps /\ Asked(q0) /\ q0 \in Requests /\ v0 \in Verdicts
        /\ \A q, v, n :
             /\ OwesAt(t, new, q, v, n) <=> q = q0 /\ v = v0 /\ n = n0
             /\ ~OwesAt(pipes[b], 1, q, v, n)
    BY DecisionMoves
  <1>3. \A q \in Requests, v \in Verdicts :
          /\ outcomes'[q][v] = IF q = q0 /\ v = v0 THEN outcomes[q][v] + 1 ELSE outcomes[q][v]
          /\ answers'[q][v] = IF q = q0 /\ v = v0 /\ LocalRequester(b, q0)
                              THEN answers[q][v] + 1 ELSE answers[q][v]
    BY <1>1, <1>2, CarriedOut
  <1> HIDE DEF q0, v0, n0, t, new
  <1>4. LocalRequester(b, q0) <=> Home(q0) = b
    BY <1>1 DEF LocalRequester, ApartInv
  <1>5. OneStepEach' /\ StepsAreNumbered' /\ AnnouncedAfterwards'
    <2>1. /\ t \in Seq(Steps) /\ 1 \in {0, 1} /\ Rearranged(pipes[b], t, 1, new, 1)
          /\ Follows(pipes[b], t, 1, new) /\ pipes' = [pipes EXCEPT ![b] = t]
      BY <1>2 DEF PipeChange
    <2>2. decides' \in Nat /\ decides <= decides' /\ asked \subseteq asked'
      BY <1>0, <1>1
    <2>3. OneStepEach' /\ StepsAreNumbered' /\ \A e \in inbox : StillSettled(e)
      BY <1>0, <2>1, <2>2, PipeStep
    <2> QED BY <1>1, <2>3, Settled
  <1>6. /\ \A p \in AuthBrokers : \A q, v, n :
             p # b => (PipeOwes(p, q, v, n)' <=> PipeOwes(p, q, v, n))
        /\ \A q, v, n :
             /\ PipeOwes(b, q, v, n)' <=>
                  (\E j : j # 1 /\ OwesAt(pipes[b], j, q, v, n)) \/ OwesAt(t, new, q, v, n)
             /\ PipeOwes(b, q, v, n) <=>
                  (\E j : j # 1 /\ OwesAt(pipes[b], j, q, v, n)) \/ OwesAt(pipes[b], 1, q, v, n)
    BY <1>2, PipeOwing
  <1>7. \A q, v, n : PipeOwes(b, q, v, n)' <=>
          PipeOwes(b, q, v, n) \/ (q = q0 /\ v = v0 /\ n = n0)
    BY <1>2, <1>6, Zenon
  <1>8. ~IsOwed(q0, v0, n0)
    <2>1. <<Home(q0), q0, v0, n0>> \notin inbox
      BY <1>2 DEF AnnouncedAfterwards
    <2>2. ASSUME NEW p \in AuthBrokers, NEW i, OwesAt(pipes[p], i, q0, v0, n0) PROVE FALSE
      <3>1. CarriesAt(pipes[p], i, n0) /\ n0 \in Nat
        BY <2>2, OwesCarries
      <3>2. p = b /\ i = 1
        BY <1>2, <3>1 DEF OneStepEach
      <3> QED BY <1>2, <2>2, <3>2
    <2> QED BY <2>1, <2>2 DEF IsOwed, PipeOwes
  <1>9. ASSUME NEW q, NEW v, NEW n
        PROVE  IsOwed(q, v, n)' <=>
                 IsOwed(q, v, n) \/ (q = q0 /\ v = v0 /\ n = n0 /\ Home(q0) # b)
    <2>0. Home(q)' = Home(q)
      BY <1>1 DEF Home
    <2>1. IsOwed(q, v, n)' <=> \/ <<Home(q), q, v, n>> \in inbox
                               \/ \E p \in AuthBrokers : p # Home(q) /\ PipeOwes(p, q, v, n)'
      BY <1>1, <2>0 DEF IsOwed
    <2>2. (\E p \in AuthBrokers : p # Home(q) /\ PipeOwes(p, q, v, n)') <=>
             \/ \E p \in AuthBrokers : p # Home(q) /\ PipeOwes(p, q, v, n)
             \/ q = q0 /\ v = v0 /\ n = n0 /\ Home(q0) # b
      BY <1>6, <1>7
    <2> QED BY <2>1, <2>2 DEF IsOwed
  <1>10. n0 \in 1..MaxDecides
    BY <1>0, <1>2, AuthAssumption
  <1>11. \A q, v : Owed(q, v)' = IF q = q0 /\ v = v0 /\ Home(q0) # b THEN Owed(q, v) \cup {n0}
                                 ELSE Owed(q, v)
    BY <1>9, <1>10 DEF Owed
  <1>12. n0 \notin Owed(q0, v0)
    BY <1>8 DEF Owed
  <1>13. Counted'
    <2> SUFFICES ASSUME NEW q \in Requests, NEW v \in Verdicts
                 PROVE  outcomes'[q][v] = answers'[q][v] + Cardinality(Owed(q, v)')
      BY DEF Counted
    <2>1. /\ outcomes[q][v] = answers[q][v] + Cardinality(Owed(q, v))
          /\ answers[q][v] \in Nat /\ Cardinality(Owed(q, v)) \in Nat
      BY OwedCount DEF Counted, AuthTypes, Tallies
    <2>2. CASE q = q0 /\ v = v0 /\ Home(q0) # b
      <3>1. Cardinality(Owed(q, v)') = Cardinality(Owed(q, v)) + 1
        BY <1>11, <1>12, <2>2, OwedCount
      <3>2. outcomes'[q][v] = outcomes[q][v] + 1 /\ answers'[q][v] = answers[q][v]
        BY <1>3, <1>4, <2>2
      <3> QED BY <2>1, <3>1, <3>2
    <2>3. CASE q = q0 /\ v = v0 /\ Home(q0) = b
      <3>1. Owed(q, v)' = Owed(q, v)
        BY <1>11, <2>3
      <3>2. outcomes'[q][v] = outcomes[q][v] + 1 /\ answers'[q][v] = answers[q][v] + 1
        BY <1>3, <1>4, <2>3
      <3> QED BY <2>1, <3>1, <3>2
    <2>4. CASE ~(q = q0 /\ v = v0)
      <3>1. Owed(q, v)' = Owed(q, v)
        BY <1>11, <2>4
      <3>2. outcomes'[q][v] = outcomes[q][v] /\ answers'[q][v] = answers[q][v]
        BY <1>3, <2>4
      <3> QED BY <2>1, <3>1, <3>2
    <2> QED BY <2>2, <2>3, <2>4
  <1> QED BY <1>5, <1>13

(* The broker of the request hears of a decision and tells the client. *)
LEMMA PeerStep ==
  ASSUME ToldInv, AuthTypes', AskedInv', NEW peer \in inbox, PeerDecision(peer)
  PROVE  ToldInv'
  <1> USE DEF ToldInv
  <1> DEFINE b == peer[1]
             q0 == peer[2]
             v0 == peer[3]
             n0 == peer[4]
  <1>1. /\ peer = <<b, q0, v0, n0>> /\ b \in AuthBrokers /\ q0 \in Requests /\ v0 \in Verdicts
        /\ n0 \in Nat
    BY DEF AuthTypes
  <1>2. /\ inbox' = inbox \ {peer} /\ UNCHANGED <<asked, pipes, outcomes, decides>>
        /\ answers' = IF Home(q0) = b THEN [answers EXCEPT ![q0][v0] = @ + 1] ELSE answers
    BY DEF PeerDecision
  <1>3. decides \in Nat /\ decides <= MaxDecides
    BY AuthAssumption DEF AuthTypes, AuthTypeOK
  <1>4. n0 \in 1..decides /\ \A p \in AuthBrokers : \A i :
          CarriesAt(pipes[p], i, n0) => Announced(pipes[p][i])
    BY DEF AnnouncedAfterwards
  <1>5. n0 \in 1..MaxDecides
    BY <1>3, <1>4, AuthAssumption
  <1> HIDE DEF b, q0, v0, n0
  <1>6. OneStepEach' /\ StepsAreNumbered' /\ AnnouncedAfterwards'
    <2>1. OneStepEach'
      BY <1>2 DEF OneStepEach
    <2>2. StepsAreNumbered'
      BY <1>2 DEF StepsAreNumbered, Asked
    <2>3. AnnouncedAfterwards'
      BY <1>2 DEF AnnouncedAfterwards, Asked
    <2> QED BY <2>1, <2>2, <2>3
  <1>7. \A q \in Requests, v \in Verdicts :
          answers'[q][v] = IF q = q0 /\ v = v0 /\ Home(q0) = b
                           THEN answers[q][v] + 1 ELSE answers[q][v]
    <2>0. answers \in Tallies
      BY DEF AuthTypes
    <2>1. \A q \in Requests, v \in Verdicts :
            [answers EXCEPT ![q0][v0] = @ + 1][q][v] =
              IF q = q0 /\ v = v0 THEN answers[q][v] + 1 ELSE answers[q][v]
      BY <1>1, <2>0, TallyUp
    <2> QED BY <1>2, <2>1
  <1>8. \A p \in AuthBrokers : ~PipeOwes(p, q0, v0, n0)
    BY <1>4, OwesCarries DEF PipeOwes
  <1>9. ASSUME NEW q, NEW v, NEW n
        PROVE  IsOwed(q, v, n)' <=>
                 IsOwed(q, v, n) /\ ~(q = q0 /\ v = v0 /\ n = n0 /\ Home(q0) = b)
    <2>0. Home(q)' = Home(q) /\ \A p \in AuthBrokers : PipeOwes(p, q, v, n)' <=> PipeOwes(p, q, v, n)
      BY <1>2 DEF Home, PipeOwes
    <2>1. IsOwed(q, v, n)' <=> \/ <<Home(q), q, v, n>> \in inbox'
                               \/ \E p \in AuthBrokers : p # Home(q) /\ PipeOwes(p, q, v, n)
      BY <2>0 DEF IsOwed
    <2>2. <<Home(q), q, v, n>> \in inbox' <=>
            /\ <<Home(q), q, v, n>> \in inbox
            /\ ~(q = q0 /\ v = v0 /\ n = n0 /\ Home(q0) = b)
      BY <1>1, <1>2
    <2>3. q = q0 /\ v = v0 /\ n = n0 => \A p \in AuthBrokers : ~PipeOwes(p, q, v, n)
      BY <1>8
    <2> QED BY <2>1, <2>2, <2>3 DEF IsOwed
  <1>10. \A q, v : Owed(q, v)' = IF q = q0 /\ v = v0 /\ Home(q0) = b THEN Owed(q, v) \ {n0}
                                 ELSE Owed(q, v)
    BY <1>9 DEF Owed
  <1>11. Home(q0) = b => n0 \in Owed(q0, v0)
    BY <1>1, <1>5 DEF Owed, IsOwed
  <1>12. Counted'
    <2> SUFFICES ASSUME NEW q \in Requests, NEW v \in Verdicts
                 PROVE  outcomes'[q][v] = answers'[q][v] + Cardinality(Owed(q, v)')
      BY DEF Counted
    <2>1. /\ outcomes[q][v] = answers[q][v] + Cardinality(Owed(q, v))
          /\ answers[q][v] \in Nat /\ Cardinality(Owed(q, v)) \in Nat
      BY OwedCount DEF Counted, AuthTypes, Tallies
    <2>2. CASE q = q0 /\ v = v0 /\ Home(q0) = b
      <3>1. Cardinality(Owed(q, v)') = Cardinality(Owed(q, v)) - 1
        BY <1>10, <1>11, <2>2, OwedCount
      <3>2. outcomes'[q][v] = outcomes[q][v] /\ answers'[q][v] = answers[q][v] + 1
        BY <1>2, <1>7, <2>2
      <3> QED BY <2>1, <3>1, <3>2
    <2>3. CASE ~(q = q0 /\ v = v0 /\ Home(q0) = b)
      <3>1. Owed(q, v)' = Owed(q, v)
        BY <1>10, <2>3
      <3>2. outcomes'[q][v] = outcomes[q][v] /\ answers'[q][v] = answers[q][v]
        BY <1>2, <1>7, <2>3
      <3> QED BY <2>1, <3>1, <3>2
    <2> QED BY <2>2, <2>3
  <1> QED BY <1>6, <1>12

(* Alone, a broker keeps the object of each request itself; one that is    *)
(* decided is neither pending nor superseded.                              *)
AloneInv ==
  ~shared =>
    /\ \A task \in tasks : task[2].doc[task[2].id] = "absent"
    /\ \A b \in AuthBrokers, q \in Requests :
         status[b][q] # "absent" => \E a \in asked : a.id = q /\ a.node = b
    /\ \A q \in Requests :
         /\ Decisions(q) <= 1
         /\ Decisions(q) > 0 =>
              Asked(q) /\ \A b \in AuthBrokers : status[b][q] \notin {"pending", "superseded"}

AuthInv == ToldInv /\ ApartInv /\ AloneInv

(* A broker alone carries out a decision, and tells the client at once. *)
LEMMA AloneStep ==
  ASSUME AuthInv, AuthTypes', AskedInv', NEW task \in tasks, DecideAlone(task)
  PROVE  AuthInv'
  <1> USE DEF AuthInv, ToldInv
  <1> DEFINE b == task[1]
             step == task[2]
             q0 == step.id
             v0 == step.verdict
  <1>1. /\ tasks' = tasks \ {task}
        /\ UNCHANGED <<shared, asked, mapped, latest, authDoc, inbox, decides, pipes>>
        /\ CarryOut(b, step) \/ UNCHANGED <<status, outcomes, answers>>
    BY DEF DecideAlone, unchangedByCluster
  <1>2. /\ b \in AuthBrokers /\ step \in DecisionSteps /\ ~shared
        /\ step.doc[q0] = "absent" /\ q0 \in Requests /\ v0 \in Verdicts
    <2>1. b \in AuthBrokers /\ step \in DecisionSteps
      BY DEF AuthTypes
    <2>2. ~shared
      BY DEF ApartInv
    <2> QED BY <2>1, <2>2 DEF AloneInv, DecisionSteps
  <1>3. OneStepEach' /\ StepsAreNumbered' /\ AnnouncedAfterwards' /\ ApartInv'
    <2>1. OneStepEach'
      BY <1>1, Zenon DEF OneStepEach
    <2>2. StepsAreNumbered'
      BY <1>1, Zenon DEF StepsAreNumbered, Asked
    <2>3. AnnouncedAfterwards'
      BY <1>1, Zenon DEF AnnouncedAfterwards, Asked
    <2>4. ApartInv'
      BY <1>1, <1>2 DEF ApartInv
    <2> QED BY <2>1, <2>2, <2>3, <2>4
  <1>4. \A q, v : Owed(q, v)' = Owed(q, v)
    BY <1>1 DEF Owed, IsOwed, Home, PipeOwes
  <1>5. CASE UNCHANGED <<status, outcomes, answers>>
    <2>1. Counted'
      BY <1>4, <1>5 DEF Counted
    <2>2. AloneInv'
      BY <1>1, <1>5 DEF AloneInv, Decisions, Asked
    <2> QED BY <1>3, <2>1, <2>2
  <1>6. CASE CarryOut(b, step)
    <2> HIDE DEF b, step
    <2>1. /\ \A q \in Requests, v \in Verdicts :
               /\ outcomes'[q][v] = IF q = q0 /\ v = v0 THEN outcomes[q][v] + 1 ELSE outcomes[q][v]
               /\ answers'[q][v] = IF q = q0 /\ v = v0 /\ LocalRequester(b, q0)
                                   THEN answers[q][v] + 1 ELSE answers[q][v]
          /\ status' = [status EXCEPT ![b][q0] = v0]
          /\ Found(b, step) = "pending"
      BY <1>2, <1>6, CarriedOut
    <2>2. LocalRequester(b, q0)
      BY <1>2 DEF LocalRequester
    <2>3. \A q \in Requests, v \in Verdicts :
            /\ answers[q][v] \in Nat /\ outcomes[q][v] \in Nat
            /\ Cardinality(Owed(q, v)) \in Nat
      BY OwedCount DEF AuthTypes, Tallies
    <2>4. Counted'
      <3> SUFFICES ASSUME NEW q \in Requests, NEW v \in Verdicts
                   PROVE  outcomes'[q][v] = answers'[q][v] + Cardinality(Owed(q, v)')
        BY DEF Counted
      <3>1. outcomes[q][v] = answers[q][v] + Cardinality(Owed(q, v))
        BY DEF Counted
      <3> QED BY <1>4, <2>1, <2>2, <2>3, <3>1
    <2>5. status[b][q0] = "pending"
      BY <1>2, <2>1 DEF Found
    <2> HIDE DEF q0, v0
    <2>6. /\ status'[b][q0] = v0
          /\ \A p \in AuthBrokers, q \in Requests : p # b \/ q # q0 => status'[p][q] = status[p][q]
      BY <1>2, <2>1 DEF AuthTypes, AuthTypeOK
    <2>7. Decisions(q0) = 0
      BY <1>2, <2>3, <2>5 DEF AloneInv, Decisions, Verdicts
    <2>8. Decisions(q0)' = 1 /\ \A q \in Requests : q # q0 => Decisions(q)' = Decisions(q)
      <3>1. \A q \in Requests : Decisions(q)' = outcomes'[q]["approved"] + outcomes'[q]["rejected"]
        BY DEF Decisions
      <3>2. Decisions(q0)' = outcomes'[q0]["approved"] + outcomes'[q0]["rejected"]
        BY <1>2, <3>1
      <3> QED BY <1>2, <2>1, <2>3, <2>7, <3>1, <3>2 DEF Decisions, Verdicts
    <2>9. PICK a \in asked : a.id = q0 /\ a.node = b
      BY <1>2, <2>5 DEF AloneInv
    <2>10. \A p \in AuthBrokers : p # b => status[p][q0] = "absent"
      BY <1>2, <2>9 DEF AloneInv, AskedInv
    <2>11. \A p \in AuthBrokers : status'[p][q0] \notin {"pending", "superseded"}
      BY <1>2, <2>6, <2>10 DEF Verdicts
    <2>12. \A p \in AuthBrokers, q \in Requests :
             status'[p][q] # "absent" => \E d \in asked : d.id = q /\ d.node = p
      BY <1>2, <2>6, <2>9 DEF AloneInv
    <2>13. ASSUME NEW q \in Requests
           PROVE  /\ Decisions(q)' <= 1
                  /\ Decisions(q)' > 0 =>
                       Asked(q)' /\ \A p \in AuthBrokers : status'[p][q] \notin {"pending", "superseded"}
      <3>1. CASE q = q0
        BY <1>1, <2>8, <2>9, <2>11, <3>1 DEF Asked
      <3>2. CASE q # q0
        BY <1>1, <1>2, <2>6, <2>8, <3>2 DEF AloneInv, Asked
      <3> QED BY <3>1, <3>2
    <2>14. AloneInv'
      BY <1>1, <1>2, <2>12, <2>13 DEF AloneInv
    <2> QED BY <1>3, <2>4, <2>14
  <1> QED BY <1>1, <1>5, <1>6

(* A request is asked: alone, the broker supersedes no decided one. *)
LEMMA AskingStep ==
  ASSUME AuthInv, AuthTypes', NEW b \in AuthBrokers, NEW c \in AskingClients,
         AuthorizationRequest(b, c)
  PROVE  AuthInv'
  <1> USE DEF AuthInv, ToldInv
  <1> DEFINE q0 == asks + 1
  <1>1. /\ AskedInv' /\ asked \subseteq asked' /\ q0 \in Requests /\ ~Asked(q0)
        /\ \E a \in asked' : a.id = q0 /\ a.node = b
    BY RequestStep
  <1>2. /\ UNCHANGED <<shared, authDoc, inbox, tasks, outcomes, answers, decides>>
        /\ ~shared => UNCHANGED pipes
        /\ status' = [status EXCEPT ![b] = [r \in Requests |->
                         IF r = q0 THEN "pending"
                         ELSE IF r \in GivesWay(b, c) THEN "superseded" ELSE status[b][r]]]
    BY DEF AuthorizationRequest
  <1> HIDE DEF q0
  <1>3. ApartInv'
    BY <1>2 DEF ApartInv
  <1>4. ToldInv'
    <2>1. CASE shared
      <3>1. QuietMove(b)
        BY <2>1, RequestMoves
      <3>2. decides <= decides'
        BY <1>2, AuthAssumption DEF AuthTypes, AuthTypeOK
      <3> QED BY <1>1, <1>2, <3>1, <3>2, QuietStep
    <2>2. CASE ~shared
      <3>1. \A p \in AuthBrokers : pipes[p] = <<>> /\ pipes'[p] = <<>>
        BY <1>2, <2>2 DEF ApartInv
      <3>2. inbox = {} /\ inbox' = {}
        BY <1>2, <2>2 DEF ApartInv
      <3>3. OneStepEach' /\ StepsAreNumbered' /\ AnnouncedAfterwards'
        BY <3>1, <3>2 DEF OneStepEach, StepsAreNumbered, AnnouncedAfterwards, CarriesAt
      <3>4. \A q, v : Owed(q, v) = {} /\ Owed(q, v)' = {}
        BY <3>1, <3>2 DEF Owed, IsOwed, PipeOwes, OwesAt
      <3>5. Counted'
        BY <1>2, <3>4 DEF Counted
      <3> QED BY <1>1, <3>3, <3>5
    <2> QED BY <2>1, <2>2
  <1>5. AloneInv'
    <2> SUFFICES ASSUME ~shared PROVE AloneInv'
      BY <1>2 DEF AloneInv
    <2>1. \A p \in AuthBrokers, q \in Requests :
            status'[p][q] = IF p # b THEN status[p][q] ELSE IF q = q0 THEN "pending"
                            ELSE IF q \in GivesWay(b, c) THEN "superseded" ELSE status[p][q]
      BY <1>2 DEF AuthTypes, AuthTypeOK
    <2>2. \A q \in Requests : q \in GivesWay(b, c) => status[b][q] = "pending"
      BY DEF GivesWay
    <2>3. \A p \in AuthBrokers, q \in Requests :
            status'[p][q] # "absent" => \E a \in asked' : a.id = q /\ a.node = p
      BY <1>1, <2>1, <2>2 DEF AloneInv
    <2>4. \A q \in Requests : Decisions(q)' = Decisions(q)
      BY <1>2 DEF Decisions
    <2>5. \A q \in Requests : Decisions(q) > 0 =>
            /\ q # q0 /\ \E a \in asked' : a.id = q
            /\ \A p \in AuthBrokers : status'[p][q] \notin {"pending", "superseded"}
      BY <1>1, <2>1, <2>2 DEF AloneInv, Asked
    <2>6. \A q \in Requests : Decisions(q) <= 1
      BY DEF AloneInv
    <2> QED BY <1>2, <2>3, <2>4, <2>5, <2>6 DEF AloneInv, Asked
  <1> QED BY <1>3, <1>4, <1>5

(* Every step keeps the invariant. *)
LEMMA AuthStep ==
  ASSUME AuthInv, [AuthNext]_authVars
  PROVE  AuthInv'
  <1>0. AuthTypes' /\ ToldInv /\ ApartInv /\ AloneInv /\ AskedInv
    BY AuthTypeStep DEF AuthInv, ToldInv
  <1>a. asked' = asked => AskedInv'
    BY <1>0 DEF AskedInv, asks
  <1>d. decides \in Nat
    BY <1>0, AuthAssumption DEF ToldInv, AuthTypes, AuthTypeOK
  <1>c. ASSUME shared, tasks' = tasks, UNCHANGED shared PROVE ApartInv' /\ AloneInv'
    BY <1>0, <1>c DEF ApartInv, AloneInv
  <1>p. ASSUME NEW b \in AuthBrokers, pipes[b] # <<>> PROVE shared
    BY <1>0, <1>p DEF ApartInv
  <1>1. CASE UNCHANGED authVars
    <2>1. /\ UNCHANGED <<shared, asked, status, pipes, inbox, tasks, outcomes, answers, decides>>
      BY <1>1 DEF authVars
    <2>2. OneStepEach' /\ StepsAreNumbered' /\ AnnouncedAfterwards' /\ ApartInv'
      <3>1. OneStepEach'
        BY <1>0, <2>1, Zenon DEF ToldInv, OneStepEach
      <3>2. StepsAreNumbered'
        BY <1>0, <2>1, Zenon DEF ToldInv, StepsAreNumbered, Asked
      <3>3. AnnouncedAfterwards'
        BY <1>0, <2>1, Zenon DEF ToldInv, AnnouncedAfterwards, Asked
      <3>4. ApartInv'
        BY <1>0, <2>1 DEF ApartInv
      <3> QED BY <3>1, <3>2, <3>3, <3>4
    <2>3. \A q, v : Owed(q, v)' = Owed(q, v)
      BY <2>1 DEF Owed, IsOwed, Home, PipeOwes
    <2>4. Counted'
      BY <1>0, <2>1, <2>3 DEF Counted, ToldInv
    <2>5. AloneInv'
      BY <1>0, <2>1 DEF AloneInv, Decisions, Asked
    <2> QED BY <1>0, <1>a, <2>1, <2>2, <2>4, <2>5 DEF AuthInv, ToldInv
  <1>2. ASSUME NEW b \in AuthBrokers, NEW q \in Requests, NEW v \in Verdicts,
               AuthorizationDecide(b, q, v)
        PROVE  AuthInv'
    <2> DEFINE n == decides + 1
    <2>1. /\ decides' = decides + 1
          /\ UNCHANGED <<shared, asked, status, inbox, outcomes, answers>>
          /\ \/ shared /\ UNCHANGED tasks
             \/ /\ ~shared /\ UNCHANGED pipes
                /\ tasks' = tasks \cup {<<b, Step("claim", q, v, n)>>}
      BY <1>2 DEF AuthorizationDecide
    <2>2. CASE shared
      <3>1. ApartInv' /\ AloneInv'
        BY <1>c, <2>1, <2>2
      <3>2. decides <= decides'
        BY <1>d, <2>1
      <3>3. QuietMove(b)
        BY <1>0, <1>2, <2>2, RequestMoves DEF ToldInv
      <3>4. ToldInv'
        BY <1>0, <1>a, <2>1, <3>2, <3>3, QuietStep
      <3> QED BY <3>1, <3>4 DEF AuthInv
    <2>3. CASE ~shared
      <3>1. \A p \in AuthBrokers : pipes'[p] = <<>>
        BY <1>0, <2>1, <2>3 DEF ApartInv
      <3>2. inbox = {} /\ inbox' = {}
        BY <1>0, <2>1, <2>3 DEF ApartInv
      <3>3. OneStepEach' /\ StepsAreNumbered' /\ AnnouncedAfterwards'
        BY <3>1, <3>2 DEF OneStepEach, StepsAreNumbered, AnnouncedAfterwards, CarriesAt
      <3>4. \A r, w : Owed(r, w)' = Owed(r, w)
        BY <2>1, <2>3 DEF Owed, IsOwed, Home, PipeOwes
      <3>5. Counted'
        BY <1>0, <2>1, <3>4 DEF Counted, ToldInv
      <3>6. ApartInv'
        BY <1>0, <2>1, <2>3, <3>1, <3>2 DEF ApartInv
      <3>7. Step("claim", q, v, n).doc[Step("claim", q, v, n).id] = "absent"
        BY DEF Step
      <3>8. \A task \in tasks' : task[2].doc[task[2].id] = "absent"
        BY <1>0, <2>1, <2>3, <3>7 DEF AloneInv
      <3>9. AloneInv'
        BY <1>0, <2>1, <3>8 DEF AloneInv, Decisions, Asked
      <3> QED BY <1>0, <1>a, <2>1, <3>3, <3>5, <3>6, <3>9 DEF AuthInv, ToldInv
    <2> QED BY <2>2, <2>3
  <1>3. ASSUME NEW b \in AuthBrokers, Redis(b) PROVE AuthInv'
    <2>1. UNCHANGED <<shared, asked, tasks>> /\ \E i \in DOMAIN pipes[b] : TRUE
      BY <1>3 DEF Redis
    <2>2. pipes[b] # <<>>
      BY <2>1
    <2>3. ToldInv'
      BY <1>0, <1>3, <1>a, <2>1, RedisStep
    <2> QED BY <1>c, <1>p, <2>1, <2>2, <2>3 DEF AuthInv
  <1>4. ASSUME NEW b \in AuthBrokers,
               \/ MirrorAuthRequest(b) \/ LookedUp(b) \/ RefuseDecision(b) \/ PersistDecision(b)
        PROVE  AuthInv'
    <2>1. UNCHANGED <<shared, asked, decides, tasks, inbox, outcomes, answers>> /\ pipes[b] # <<>>
      BY <1>4 DEF MirrorAuthRequest, LookedUp, RefuseDecision, PersistDecision, Replied,
                  unchangedByReply, unchangedByCluster
    <2>2. QuietMove(b)
      BY <1>0, <1>4, ReplyMoves DEF ToldInv
    <2>3. decides <= decides' /\ asked \subseteq asked'
      BY <1>d, <2>1
    <2>4. ToldInv'
      BY <1>0, <1>a, <2>1, <2>2, <2>3, QuietStep
    <2> QED BY <1>c, <1>p, <2>1, <2>4 DEF AuthInv
  <1>5. ASSUME NEW b \in AuthBrokers, CarryOutDecision(b) PROVE AuthInv'
    <2>1. UNCHANGED <<shared, asked, tasks>> /\ pipes[b] # <<>>
      BY <1>5 DEF CarryOutDecision, unchangedByCluster, Replied
    <2>2. ToldInv'
      BY <1>0, <1>5, <1>a, <2>1, CarryOutStep
    <2> QED BY <1>c, <1>p, <2>1, <2>2 DEF AuthInv
  <1>6. ASSUME NEW task \in tasks, DecideAlone(task) PROVE AuthInv'
    <2>1. asked' = asked
      BY <1>6 DEF DecideAlone, unchangedByCluster
    <2> QED BY <1>0, <1>6, <1>a, <2>1, AloneStep DEF AuthInv
  <1>7. ASSUME NEW peer \in inbox, PeerDecision(peer) PROVE AuthInv'
    <2>1. UNCHANGED <<shared, asked, tasks>> /\ shared
      BY <1>0, <1>7 DEF PeerDecision, ApartInv
    <2>2. ToldInv'
      BY <1>0, <1>7, <1>a, <2>1, PeerStep
    <2> QED BY <1>c, <2>1, <2>2 DEF AuthInv
  <1>8. ASSUME NEW b \in AuthBrokers, NEW c \in AskingClients, AuthorizationRequest(b, c)
        PROVE  AuthInv'
    BY <1>0, <1>8, AskingStep
  <1> QED BY <1>1, <1>2, <1>3, <1>4, <1>5, <1>6, <1>7, <1>8 DEF AuthNext

(* The invariant holds in every reachable state. *)
THEOREM AuthInvariance == AuthSpec => []AuthInv
  <1>1. AuthInit => AuthInv
    <2> SUFFICES ASSUME AuthInit PROVE AuthInv
      OBVIOUS
    <2>1. IsFiniteSet(asked) /\ asked = {}
      BY FS_EmptySet DEF AuthInit
    <2>2. AuthTypeOK
      BY AuthAssumption DEF AuthInit, AuthTypeOK, Statuses, Requests
    <2>3. AuthTypes
      BY <2>1, <2>2 DEF AuthInit, AuthTypes, Tallies
    <2>4. AskedInv
      BY <2>1 DEF AskedInv
    <2>5. inbox = {} /\ tasks = {} /\ \A b \in AuthBrokers : pipes[b] = <<>>
      BY DEF AuthInit
    <2>6. OneStepEach /\ StepsAreNumbered /\ AnnouncedAfterwards /\ ApartInv
      BY <2>5 DEF OneStepEach, StepsAreNumbered, AnnouncedAfterwards, ApartInv, CarriesAt
    <2>7. \A q, v : Owed(q, v) = {}
      BY <2>5 DEF Owed, IsOwed, PipeOwes, OwesAt
    <2>8. \A q \in Requests, v \in Verdicts : outcomes[q][v] = 0 /\ answers[q][v] = 0
      BY DEF AuthInit
    <2>9. Counted
      <3>1. Cardinality({}) = 0
        BY FS_EmptySet
      <3>2. \A q, v : Cardinality(Owed(q, v)) = 0
        BY <2>7, <3>1
      <3> QED BY <2>8, <3>2 DEF Counted
    <2>10. \A b \in AuthBrokers, q \in Requests : status[b][q] = "absent"
      BY DEF AuthInit
    <2>11. \A q \in Requests : Decisions(q) = 0
      BY <2>8 DEF Decisions, Verdicts
    <2>12. AloneInv
      BY <2>5, <2>10, <2>11 DEF AloneInv
    <2> QED BY <2>3, <2>4, <2>6, <2>9, <2>12 DEF AuthInv, ToldInv
  <1>2. AuthInv /\ [AuthNext]_authVars => AuthInv'
    BY AuthStep
  <1> QED BY <1>1, <1>2, PTL DEF AuthSpec

(* The requests, decisions and commands of every broker are of their type. *)
THEOREM AuthTypeCorrect == AuthSpec => []AuthTypeOK
  <1>1. AuthInv => AuthTypeOK
    BY DEF AuthInv, ToldInv, AuthTypes
  <1> QED BY <1>1, AuthInvariance, PTL

(* However many managers decide on however many brokers, the client is     *)
(* told exactly once of every decision carried out, by whichever broker    *)
(* has its socket (isLocalRequester, handlePeerAuthDecision); and a broker *)
(* alone decides a request once, and none that was superseded.             *)
THEOREM EveryDecisionIsTold == AuthSpec => []DecisionsAreTold
  <1>1. AuthInv => DecisionsAreTold
    <2> SUFFICES ASSUME AuthInv PROVE DecidedOnceAlone /\ ToldOfEveryDecision
      BY DEF DecisionsAreTold
    <2>1. DecidedOnceAlone
      <3> SUFFICES ASSUME ~shared, NEW q \in Requests
                   PROVE  /\ Decisions(q) <= 1
                          /\ \A b \in AuthBrokers : status[b][q] = "superseded" => Decisions(q) = 0
        BY DEF DecidedOnceAlone
      <3>1. Decisions(q) \in Nat
        BY DEF AuthInv, ToldInv, AuthTypes, Tallies, Decisions, Verdicts
      <3> QED BY <3>1 DEF AuthInv, AloneInv
    <2>2. \A q \in Requests, v \in Verdicts :
            /\ outcomes[q][v] = answers[q][v] + Cardinality(Owed(q, v))
            /\ answers[q][v] \in Nat /\ Cardinality(Owed(q, v)) \in Nat
      BY OwedCount DEF AuthInv, ToldInv, Counted, AuthTypes, Tallies
    <2>3. \A q \in Requests, v \in Verdicts : answers[q][v] <= outcomes[q][v]
      BY <2>2
    <2>4. ASSUME AuthQuiet PROVE answers = outcomes
      <3>1. \A q, v : Owed(q, v) = {}
        BY <2>4 DEF AuthQuiet, Owed, IsOwed, PipeOwes, OwesAt
      <3>2. \A q \in Requests, v \in Verdicts : answers[q][v] = outcomes[q][v]
        <4>1. Cardinality({}) = 0
          BY FS_EmptySet
        <4>2. \A q, v : Cardinality(Owed(q, v)) = 0
          BY <3>1, <4>1
        <4> QED BY <2>2, <4>2
      <3>3. answers \in Tallies /\ outcomes \in Tallies
        BY DEF AuthInv, ToldInv, AuthTypes
      <3>4. \A q \in Requests : answers[q] = outcomes[q]
        BY <3>2, <3>3 DEF Tallies
      <3> QED BY <3>3, <3>4 DEF Tallies
    <2> QED BY <2>1, <2>3, <2>4 DEF ToldOfEveryDecision
  <1> QED BY <1>1, AuthInvariance, PTL

-----------------------------------------------------------------------------
(* The proofs of managers and their nonces.                                *)

USE MaxAgeAssumption, PruneEveryAssumption, ProofBoundsAssumption

(* What a broker accepted within the retention is still in its cache. *)
CacheInv ==
    \A n \in Nodes, p \in Proofs :
        accepted[n][p] # Never /\ accepted[n][p] > now - 2 * MaxAge
            => entries[n][p] = accepted[n][p]

(* Nothing was accepted or executed in the future. *)
PastInv ==
    /\ \A n \in Nodes, p \in Proofs : accepted[n][p] <= now
    /\ \A p \in Proofs : executed[p] <= now

ManagerInv == TypeOK /\ CacheInv /\ PastInv

(* The initial states satisfy the invariant. *)
LEMMA CacheInit == ASSUME Init PROVE ManagerInv
  <1>1. TypeOK
    <2>1. stamp \in [Proofs -> Int]
      BY DEF Init
    <2> QED BY <2>1 DEF Init, TypeOK, Never
  <1>2. CacheInv /\ PastInv
    BY DEF Init, CacheInv, PastInv, Never
  <1> QED BY <1>1, <1>2 DEF ManagerInv

(* Pruning keeps every entry that `has' reports. *)
LEMMA PruneKeeps ==
  ASSUME TypeOK, NEW n \in Nodes
  PROVE  /\ Pruned(n) \in [Proofs -> Nat \cup {Never}]
         /\ PruneTime(n) \in Nat
         /\ \A p \in Proofs : Remembers(entries[n][p]) =>
                                  Pruned(n)[p] = entries[n][p]
  BY DEF TypeOK, Pruned, PruneTime

(* Executing a command records a time and a count of the right types. *)
LEMMA ExecuteType ==
  ASSUME TypeOK, NEW p \in Proofs, Execute(p)
  PROVE  /\ executed' \in [Proofs -> Nat \cup {Never}]
         /\ uses' \in [Proofs -> 0..2]
  BY DEF TypeOK, Execute

(* The invariant is inductive: what pruning drops is past its retention,   *)
(* and a restart forgets acceptances together with the cache.              *)
LEMMA CacheStep == ASSUME ManagerInv, [Next]_vars PROVE ManagerInv'
  <1> USE DEF ManagerInv
  <1>1. ASSUME NEW n \in Nodes, NEW p \in Proofs, Accept(n, p)
        PROVE  ManagerInv'
    <2>1. TypeOK'
      <3>1. entries' \in [Nodes -> [Proofs -> Nat \cup {Never}]]
        BY <1>1, PruneKeeps DEF Accept, TypeOK
      <3>2. lastPrune' \in [Nodes -> Nat]
        BY <1>1, PruneKeeps DEF Accept, TypeOK
      <3>3. accepted' \in [Nodes -> [Proofs -> Nat \cup {Never}]]
        BY <1>1 DEF Accept, TypeOK
      <3>4. /\ executed' \in [Proofs -> Nat \cup {Never}]
            /\ uses' \in [Proofs -> 0..2]
        BY <1>1, ExecuteType DEF Accept, TypeOK
      <3>5. claims' \subseteq Nodes \X Proofs
        BY <1>1 DEF Accept, TypeOK
      <3> QED
        BY <1>1, <3>1, <3>2, <3>3, <3>4, <3>5 DEF Accept, TypeOK
    <2>2. CacheInv'
      <3> SUFFICES ASSUME NEW m \in Nodes, NEW q \in Proofs,
                          accepted'[m][q] # Never,
                          accepted'[m][q] > now - 2 * MaxAge
                   PROVE  entries'[m][q] = accepted'[m][q]
        BY <1>1 DEF Accept, CacheInv
      <3>1. CASE m = n /\ q = p
        BY <1>1, <3>1 DEF Accept, TypeOK, Pruned
      <3>2. CASE m = n /\ q # p
        <4>1. /\ accepted'[n][q] = accepted[n][q]
              /\ entries'[n][q] = Pruned(n)[q]
          BY <1>1, <3>2 DEF Accept, TypeOK, Pruned
        <4>2. entries[n][q] = accepted[n][q]
          BY <3>2, <4>1 DEF CacheInv
        <4> QED
          BY <3>2, <4>1, <4>2, PruneKeeps DEF Remembers, retainMs
      <3>3. CASE m # n
        BY <1>1, <3>3 DEF Accept, TypeOK, CacheInv
      <3> QED BY <3>1, <3>2, <3>3
    <2>3. PastInv'
      BY <1>1 DEF Accept, Execute, TypeOK, PastInv
    <2> QED BY <2>1, <2>2, <2>3
  <1>2. ASSUME NEW n \in Nodes, NEW p \in Proofs, Refuse(n, p)
        PROVE  ManagerInv'
    <2>1. TypeOK'
      BY <1>2, PruneKeeps DEF Refuse, TypeOK
    <2>2. CacheInv'
      <3> SUFFICES ASSUME NEW m \in Nodes, NEW q \in Proofs,
                          accepted[m][q] # Never,
                          accepted[m][q] > now - 2 * MaxAge
                   PROVE  entries'[m][q] = accepted[m][q]
        BY <1>2 DEF Refuse, CacheInv
      <3>1. entries[m][q] = accepted[m][q]
        BY DEF CacheInv
      <3>2. CASE m = n
        <4>1. entries'[n][q] = Pruned(n)[q]
          BY <1>2 DEF Refuse, TypeOK
        <4> QED BY <3>1, <3>2, <4>1, PruneKeeps DEF Remembers, retainMs
      <3>3. CASE m # n
        BY <1>2, <3>1, <3>3 DEF Refuse, TypeOK
      <3> QED BY <3>2, <3>3
    <2>3. PastInv'
      BY <1>2 DEF Refuse, PastInv
    <2> QED BY <2>1, <2>2, <2>3
  <1>3. ASSUME NEW n \in Nodes, NEW p \in Proofs, Claim(n, p)
        PROVE  ManagerInv'
    <2>1. TypeOK'
      <3>1. /\ executed' \in [Proofs -> Nat \cup {Never}]
            /\ uses' \in [Proofs -> 0..2]
        BY <1>3, ExecuteType DEF Claim, TypeOK
      <3>2. claimedUntil' \in [Proofs -> Nat]
        BY <1>3 DEF Claim, TypeOK, ClaimTtl
      <3>3. claims' \subseteq Nodes \X Proofs
        BY <1>3 DEF Claim, TypeOK
      <3> QED BY <1>3, <3>1, <3>2, <3>3 DEF Claim, TypeOK
    <2>2. CacheInv' /\ PastInv'
      BY <1>3 DEF Claim, Execute, TypeOK, CacheInv, PastInv
    <2> QED BY <2>1, <2>2
  <1>4. ASSUME NEW n \in Nodes, NEW p \in Proofs, ClaimFails(n, p)
        PROVE  ManagerInv'
    BY <1>4 DEF ClaimFails, Execute, TypeOK, CacheInv, PastInv
  <1>5. ASSUME NEW n \in Nodes, Restart(n)
        PROVE  ManagerInv'
    <2>1. TypeOK'
      BY <1>5 DEF Restart, TypeOK
    <2>2. \A m \in Nodes, q \in Proofs :
            IF m = n THEN accepted'[m][q] = Never
            ELSE /\ accepted'[m][q] = accepted[m][q]
                 /\ entries'[m][q] = entries[m][q]
      BY <1>5 DEF Restart, TypeOK
    <2>3. CacheInv' /\ PastInv'
      BY <1>5, <2>2 DEF Restart, TypeOK, CacheInv, PastInv, Never
    <2> QED BY <2>1, <2>3
  <1>6. CASE Tick
    <2>1. TypeOK'
      BY <1>6 DEF Tick, TypeOK
    <2>2. CacheInv'
      <3> SUFFICES ASSUME NEW m \in Nodes, NEW q \in Proofs,
                          accepted[m][q] # Never,
                          accepted[m][q] > (now + 1) - 2 * MaxAge
                   PROVE  entries[m][q] = accepted[m][q]
        BY <1>6 DEF Tick, CacheInv
      <3>1. accepted[m][q] > now - 2 * MaxAge
        BY DEF TypeOK, Never
      <3> QED BY <3>1 DEF CacheInv
    <2>3. PastInv'
      <3>1. \A n \in Nodes, p \in Proofs : accepted[n][p] \in Int
        BY DEF TypeOK, Never
      <3>2. \A p \in Proofs : executed[p] \in Int
        BY DEF TypeOK, Never
      <3>3. now' = now + 1 /\ now \in Int /\ UNCHANGED <<accepted, executed>>
        BY <1>6 DEF Tick, TypeOK
      <3> QED BY <3>1, <3>2, <3>3 DEF PastInv
    <2> QED BY <2>1, <2>2, <2>3
  <1>7. CASE UNCHANGED vars
    BY <1>7 DEF vars, TypeOK, CacheInv, PastInv
  <1> QED BY <1>1, <1>2, <1>3, <1>4, <1>5, <1>6, <1>7 DEF Next

(* The cache of a broker holds every acceptance of the retention. *)
THEOREM CacheInvariance == Spec => []ManagerInv
  <1>1. Init => ManagerInv
    BY CacheInit
  <1>2. ManagerInv /\ [Next]_vars => ManagerInv'
    BY CacheStep
  <1> QED BY <1>1, <1>2, PTL DEF Spec

(* Two acceptances of a proof by a broker that did not restart are at      *)
(* least 2 * MaxAge apart, however its cache was pruned.                   *)
THEOREM BrokerNonceRetention == Spec => AcceptedApart
  <1> DEFINE Apart ==
        \A n \in Nodes, p \in Proofs :
          (/\ accepted[n][p] # Never
           /\ accepted'[n][p] \notin {accepted[n][p], Never})
              => accepted'[n][p] - accepted[n][p] >= 2 * MaxAge
  <1>1. ManagerInv /\ [Next]_vars => Apart
    <2> SUFFICES ASSUME ManagerInv, [Next]_vars PROVE Apart
      OBVIOUS
    <2> USE DEF ManagerInv
    <2>1. ASSUME NEW n \in Nodes, NEW p \in Proofs, Accept(n, p)
          PROVE  Apart
      <3>1. /\ \A m \in Nodes, q \in Proofs :
                  <<m, q>> # <<n, p>> => accepted'[m][q] = accepted[m][q]
            /\ accepted'[n][p] = now
        BY <2>1 DEF Accept, TypeOK
      <3>2. accepted[n][p] # Never => now - accepted[n][p] >= 2 * MaxAge
        BY <2>1 DEF Accept, Has, Remembers, retainMs, CacheInv, TypeOK, Never
      <3> QED BY <3>1, <3>2
    <2>2. ASSUME NEW n \in Nodes, Restart(n)
          PROVE  Apart
      BY <2>2 DEF Restart, TypeOK
    <2>3. CASE UNCHANGED accepted
      BY <2>3
    <2> QED
      BY <2>1, <2>2, <2>3 DEF Next, Refuse, Claim, ClaimFails, Tick, vars
  <1> QED BY <1>1, CacheInvariance, PTL DEF Spec, AcceptedApart

-----------------------------------------------------------------------------
(* While no claim failed, an executed proof is claimed for the time its    *)
(* nonce has to be remembered.                                             *)
ClaimInv ==
    outages = 0 =>
        \A p \in Proofs :
            executed[p] # Never => claimedUntil[p] >= executed[p] + 2 * MaxAge

(* Two executions of a proof anywhere in a cluster are at least 2 * MaxAge *)
(* apart until Redis first fails to answer a claim (claimNonce), over      *)
(* restarts of brokers and slow claims.                                    *)
THEOREM ClusterSingleUse == ASSUME Clustered PROVE Spec => ExecutedApart
  <1> DEFINE Apart ==
        \A p \in Proofs :
          (outages' = 0 /\ executed'[p] # executed[p] /\ executed[p] # Never)
              => executed'[p] - executed[p] >= 2 * MaxAge
  <1>1. Init => ClaimInv
    BY DEF Init, ClaimInv, Never
  <1>2. ManagerInv /\ ClaimInv /\ [Next]_vars => ClaimInv' /\ Apart
    <2> SUFFICES ASSUME ManagerInv, ClaimInv, [Next]_vars
                 PROVE  ClaimInv' /\ Apart
      OBVIOUS
    <2> USE DEF ManagerInv
    <2>1. ASSUME NEW n \in Nodes, NEW p \in Proofs, Claim(n, p)
          PROVE  ClaimInv' /\ Apart
      <3>1. CASE claimedUntil[p] <= now
        <4>1. /\ executed' = [executed EXCEPT ![p] = now]
              /\ claimedUntil' = [claimedUntil EXCEPT ![p] = now + 2 * MaxAge]
              /\ outages' = outages
          BY <2>1, <3>1 DEF Claim, Execute, ClaimTtl
        <4> QED BY <3>1, <4>1 DEF TypeOK, ClaimInv, Never
      <3>2. CASE ~(claimedUntil[p] <= now)
        <4>1. UNCHANGED <<executed, claimedUntil, outages>>
          BY <2>1, <3>2 DEF Claim
        <4> QED BY <4>1 DEF ClaimInv
      <3> QED BY <3>1, <3>2
    <2>2. ASSUME NEW n \in Nodes, NEW p \in Proofs, ClaimFails(n, p)
          PROVE  outages' # 0
      BY <2>2 DEF ClaimFails, TypeOK
    <2>3. ASSUME NEW n \in Nodes, NEW p \in Proofs, Accept(n, p)
          PROVE  UNCHANGED <<executed, claimedUntil, outages>>
      BY <2>3 DEF Accept
    <2>4. CASE UNCHANGED <<executed, claimedUntil, outages>>
      BY <2>4 DEF ClaimInv
    <2>5. CASE outages' # 0
      BY <2>5 DEF ClaimInv
    <2> QED
      BY <2>1, <2>2, <2>3, <2>4, <2>5 DEF Next, Refuse, Restart, Tick, vars
  <1> QED BY <1>1, <1>2, CacheInvariance, PTL DEF Spec, ExecutedApart
(* Whoever executes knows when the last execution was: the claim in a      *)
(* cluster, the cache in a broker alone that does not restart.             *)
LastUseInv ==
    IF Clustered THEN ClaimInv
    ELSE /\ restarts = 0 /\ claims = {}
         /\ \A n \in Nodes, p \in Proofs : executed[p] = accepted[n][p]

(* A proof waits for its claim, or was executed, no earlier than it was    *)
(* first fresh, and a second execution comes with the end of its window.   *)
EdgeInv ==
    /\ \A c \in claims : now >= stamp[c[2]] - MaxAge
    /\ \A p \in Proofs :
          /\ executed[p] # Never => executed[p] >= stamp[p] - MaxAge
          /\ executed[p] = Never => uses[p] = 0
    /\ SecondUseOnlyAtTheEdge

(* An execution now, of a proof whose window has begun and whose last      *)
(* execution is 2 * MaxAge ago, keeps the invariant.                       *)
LEMMA ExecuteEdge ==
  ASSUME TypeOK, EdgeInv, NEW p \in Proofs, Execute(p),
         now >= stamp[p] - MaxAge, UNCHANGED <<stamp, outages, now>>,
         outages = 0 /\ executed[p] # Never => now >= executed[p] + 2 * MaxAge,
         \A c \in claims' : now >= stamp[c[2]] - MaxAge
  PROVE  EdgeInv'
  <1>1. /\ executed'[p] = now
        /\ uses'[p] = IF uses[p] < 2 THEN uses[p] + 1 ELSE uses[p]
        /\ \A q \in Proofs : q # p =>
              executed'[q] = executed[q] /\ uses'[q] = uses[q]
    BY DEF TypeOK, Execute
  <1>2. \A q \in Proofs :
           /\ executed'[q] # Never => executed'[q] >= stamp[q] - MaxAge
           /\ executed'[q] = Never => uses'[q] = 0
    BY <1>1 DEF EdgeInv, TypeOK, Never
  <1>3. ASSUME outages = 0, NEW q \in Proofs, uses'[q] > 1
        PROVE  executed'[q] >= stamp[q] + MaxAge
    <2>1. CASE q # p
      BY <1>1, <1>3, <2>1 DEF EdgeInv, SecondUseOnlyAtTheEdge
    <2>2. CASE q = p
      <3>1. executed[p] # Never
        BY <1>1, <1>3, <2>2 DEF EdgeInv, TypeOK
      <3>2. executed[p] >= stamp[p] - MaxAge /\ now >= executed[p] + 2 * MaxAge
        BY <1>3, <3>1 DEF EdgeInv
      <3>3. executed[p] \in Int /\ stamp[p] \in Int /\ now \in Int
        BY DEF TypeOK, Never
      <3> QED BY <1>1, <2>2, <3>2, <3>3
    <2> QED BY <2>1, <2>2
  <1> QED BY <1>2, <1>3 DEF EdgeInv, SecondUseOnlyAtTheEdge

(* Until Redis first fails to answer, a proof is executed twice only if    *)
(* the second execution is no earlier than the end of its acceptance       *)
(* window: in a cluster over any restarts and slow claims (claimNonce),    *)
(* and in a broker alone as long as it does not restart (NonceCache).      *)
THEOREM SecondUseAtTheEdge ==
  ASSUME Clustered \/ MaxRestarts = 0
  PROVE  Spec => []SecondUseOnlyAtTheEdge
  <1> DEFINE Inv == LastUseInv /\ EdgeInv
  <1>1. Init => Inv
    <2> SUFFICES ASSUME Init PROVE LastUseInv /\ EdgeInv
      OBVIOUS
    <2>1. LastUseInv
      BY DEF Init, LastUseInv, ClaimInv, Never
    <2>2. EdgeInv
      BY DEF Init, EdgeInv, SecondUseOnlyAtTheEdge, Never
    <2> QED BY <2>1, <2>2
  <1>2. ManagerInv /\ Inv /\ [Next]_vars => Inv'
    <2> SUFFICES ASSUME ManagerInv, LastUseInv, EdgeInv, [Next]_vars
                 PROVE  LastUseInv' /\ EdgeInv'
      OBVIOUS
    <2> USE DEF ManagerInv
    <2>1. ASSUME NEW n \in Nodes, NEW p \in Proofs, Accept(n, p)
          PROVE  LastUseInv' /\ EdgeInv'
      <3>1. now >= stamp[p] - MaxAge
        BY <2>1 DEF Accept, Fresh, TypeOK
      <3>2. CASE Clustered
        <4>1. /\ claims' = claims \cup {<<n, p>>}
              /\ UNCHANGED <<executed, uses, claimedUntil, outages, stamp, now>>
          BY <2>1, <3>2 DEF Accept
        <4>2. LastUseInv'
          BY <3>2, <4>1 DEF LastUseInv, ClaimInv
        <4>3. EdgeInv'
          BY <3>1, <4>1 DEF EdgeInv, SecondUseOnlyAtTheEdge
        <4> QED BY <4>2, <4>3
      <3>3. CASE ~Clustered
        <4>1. /\ Execute(p)
              /\ UNCHANGED <<claims, outages, stamp, now, restarts>>
              /\ accepted' = [accepted EXCEPT ![n] = [@ EXCEPT ![p] = now]]
          BY <2>1, <3>3 DEF Accept
        <4>2. \A m \in Nodes : m = n
          BY <3>3, NodesAssumption
        <4>3. LastUseInv'
          BY <3>3, <4>1, <4>2 DEF LastUseInv, Execute, TypeOK
        <4>4. executed[p] # Never => now >= executed[p] + 2 * MaxAge
          <5>1. executed[p] = accepted[n][p]
            BY <3>3 DEF LastUseInv
          <5> QED
            BY <2>1, <5>1 DEF Accept, Has, Remembers, retainMs, CacheInv,
                              TypeOK, Never
        <4>5. EdgeInv'
          BY <3>1, <4>1, <4>4, ExecuteEdge DEF EdgeInv
        <4> QED BY <4>3, <4>5
      <3> QED BY <3>2, <3>3
    <2>2. ASSUME NEW n \in Nodes, NEW p \in Proofs, <<n, p>> \in claims
          PROVE  now >= stamp[p] - MaxAge
      BY <2>2 DEF EdgeInv
    <2>3. ASSUME NEW n \in Nodes, NEW p \in Proofs, Claim(n, p), Clustered
          PROVE  LastUseInv' /\ EdgeInv'
      <3>1. /\ claims' = claims \ {<<n, p>>} /\ <<n, p>> \in claims
            /\ UNCHANGED <<now, stamp, outages>>
        BY <2>3 DEF Claim
      <3>2. CASE claimedUntil[p] <= now
        <4>1. /\ Execute(p)
              /\ claimedUntil' = [claimedUntil EXCEPT ![p] = now + 2 * MaxAge]
          BY <2>3, <3>2 DEF Claim, ClaimTtl
        <4>2. LastUseInv'
          BY <2>3, <3>1, <4>1 DEF LastUseInv, ClaimInv, Execute, TypeOK, Never
        <4>3. outages = 0 /\ executed[p] # Never => now >= executed[p] + 2 * MaxAge
          BY <2>3, <3>2 DEF LastUseInv, ClaimInv, TypeOK, Never
        <4>4. EdgeInv'
          BY <2>2, <3>1, <4>1, <4>3, ExecuteEdge DEF EdgeInv
        <4> QED BY <4>2, <4>4
      <3>3. CASE ~(claimedUntil[p] <= now)
        <4>1. UNCHANGED <<executed, uses, claimedUntil>>
          BY <2>3, <3>3 DEF Claim
        <4> QED
          BY <2>3, <3>1, <4>1 DEF LastUseInv, ClaimInv, EdgeInv,
                                  SecondUseOnlyAtTheEdge
      <3> QED BY <3>2, <3>3
    <2>4. ASSUME NEW n \in Nodes, NEW p \in Proofs, ClaimFails(n, p), Clustered
          PROVE  LastUseInv' /\ EdgeInv'
      <3>1. /\ claims' = claims \ {<<n, p>>} /\ <<n, p>> \in claims
            /\ Execute(p) /\ UNCHANGED <<now, stamp>> /\ outages' # 0
        BY <2>4 DEF ClaimFails, TypeOK
      <3>2. LastUseInv'
        BY <2>4, <3>1 DEF LastUseInv, ClaimInv
      <3>3. now >= stamp[p] - MaxAge
        BY <2>2, <3>1
      <3>4. EdgeInv'
        BY <3>1, <3>3 DEF EdgeInv, SecondUseOnlyAtTheEdge, Execute, TypeOK,
                          Never
      <3> QED BY <3>2, <3>4
    <2>5. ASSUME NEW n \in Nodes, Restart(n)
          PROVE  LastUseInv' /\ EdgeInv'
      <3>1. Clustered
        BY <2>5 DEF Restart, TypeOK
      <3>2. /\ claims' \subseteq claims
            /\ UNCHANGED <<now, stamp, claimedUntil, executed, uses, outages>>
        BY <2>5 DEF Restart
      <3> QED
        BY <3>1, <3>2 DEF LastUseInv, ClaimInv, EdgeInv,
                          SecondUseOnlyAtTheEdge
    <2>6. CASE Tick
      <3>1. /\ now' = now + 1 /\ now \in Nat /\ stamp \in [Proofs -> Int]
            /\ claims \subseteq Nodes \X Proofs
            /\ UNCHANGED <<stamp, claims, claimedUntil, accepted, executed,
                           uses, restarts, outages>>
        BY <2>6 DEF Tick, TypeOK
      <3>2. \A c \in claims' : now' >= stamp[c[2]] - MaxAge
        <4> SUFFICES ASSUME NEW c \in claims PROVE now + 1 >= stamp[c[2]] - MaxAge
          BY <3>1
        <4>1. now >= stamp[c[2]] - MaxAge /\ stamp[c[2]] \in Int
          BY <3>1 DEF EdgeInv
        <4> QED BY <3>1, <4>1
      <3> QED
        BY <3>1, <3>2 DEF LastUseInv, ClaimInv, EdgeInv,
                          SecondUseOnlyAtTheEdge
    <2>7. CASE UNCHANGED <<now, stamp, claims, claimedUntil, accepted,
                           executed, uses, restarts, outages>>
      BY <2>7 DEF LastUseInv, ClaimInv, EdgeInv, SecondUseOnlyAtTheEdge
    <2>8. ASSUME ~Clustered PROVE claims = {}
      BY <2>8 DEF LastUseInv
    <2> QED
      BY <2>1, <2>3, <2>4, <2>5, <2>6, <2>7, <2>8
         DEF Next, Refuse, Claim, ClaimFails, vars
  <1>3. Inv => SecondUseOnlyAtTheEdge
    BY DEF EdgeInv
  <1> QED BY <1>1, <1>2, <1>3, CacheInvariance, PTL DEF Spec

-----------------------------------------------------------------------------
(* The protocols together: a behaviour of all of them is one of each, as a *)
(* step of one leaves the state of the others alone.                       *)
LEMMA PartsBehave ==
  ClusterSpec => Spec /\ SettingsSpec /\ AuthSpec /\ RelaySpec /\ KeySpec
  <1>1. ClusterInit => Init /\ SettingsInit /\ AuthInit /\ RelayInit /\ KeyInit
    BY DEF ClusterInit
  <1>2. [ClusterNext]_clusterVars =>
          /\ [Next]_vars /\ [SettingsNext]_settingsVars /\ [AuthNext]_authVars
          /\ [RelayNext]_relayVars /\ [KeyNext]_keyVars
    BY DEF ClusterNext, clusterVars
  <1> QED BY <1>1, <1>2, PTL DEF ClusterSpec, Spec, SettingsSpec, AuthSpec, RelaySpec, KeySpec

(* The state of every broker and of Redis is of its type and within its    *)
(* bounds, for any number of brokers, and of commands, messages, keys,     *)
(* requests and proofs (lib/cluster.js, lib/settings.js, the handlers of   *)
(* lib/server.js that use them).                                           *)
THEOREM ClusterTypeCorrect == ClusterSpec => []ClusterTypeOK
  <1>1. ManagerInv => TypeOK
    BY DEF ManagerInv
  <1>2. SettingsTypes => SettingsTypeOK
    BY DEF SettingsTypes, SettingsTypeOK
  <1>3. KeyTypes => KeyTypeOK
    BY DEF KeyTypes, KeyTypeOK
  <1>4. TypeOK /\ SettingsTypeOK /\ AuthTypeOK /\ RelayTypeOK /\ KeyTypeOK => ClusterTypeOK
    BY DEF ClusterTypeOK
  <1> QED BY <1>1, <1>2, <1>3, <1>4, PartsBehave, CacheInvariance, SettingsTypeCorrect,
             AuthTypeCorrect, RelayTypeCorrect, KeyTypeCorrect, PTL
=============================================================================
