---------------------------- MODULE SessionProofs ---------------------------
(***************************************************************************)
(* Theorems about Session for every number of client processes, all sets   *)
(* of users, hashes and accounts, every command line and number of tries,  *)
(* with any of the guards lifted.                                          *)
(***************************************************************************)
EXTENDS Session, TLAPS

-----------------------------------------------------------------------------
(* The inductive invariant.                                                 *)

Right(m) == <<m[2], m[3]>> \in Account

(* What WriteProperty is about to write.                                    *)
OptionInv(c) ==
    client[c].pc \in {"write", "flush"} =>
        /\ client[c].root \in Config
        /\ client[c].next \in 1 .. Len(Options[c])
        /\ Options[c][client[c].next] # Wrong

(* The client has a connection and has not sent anything on it.             *)
Opened(c) ==
    \/ client[c].pc = "send"
    \/ client[c].type = 1 /\ client[c].pc \in {"username", "hash"}

(* A connection is its process's as long as the process has not closed it.  *)
OwnInv(c) ==
    /\ Opened(c) => conn[c].at # "none" /\ conn[c].gone = "no" /\ conn[c].sent = Unsent
    /\ client[c].pc = "wait" =>
          /\ conn[c].at # "none" /\ conn[c].gone = "no"
          /\ conn[c].sent = <<client[c].type, client[c].username, client[c].hash_password>>
    /\ conn[c].at # "none" /\ conn[c].gone = "no" => Opened(c) \/ client[c].pc = "wait"

(* What a Service has done to its connection.                               *)
ConnInv(e) ==
    /\ conn[e].at = "none" => conn[e] = NoConnection
    /\ conn[e].at = "queued" => ~conn[e].shut
    /\ conn[e].sent = Unsent => conn[e].answer = "nothing"
    /\ conn[e].answer = "true" => Right(conn[e].sent)
    /\ conn[e].answer = "false" => conn[e].shut
    /\ conn[e].gone = "closed" =>
          conn[e].sent = Unsent \/ conn[e].sent[1] = 3 \/ conn[e].answer = "false"

ServiceInv(e) ==
    /\ service[e] # "none" => conn[e].at = "served" /\ up
    /\ service[e] \in {"read", "refuse"} => ~conn[e].shut
    /\ service[e] \in {"refuse", "handle", "create"} => conn[e].sent # Unsent
    /\ service[e] \in {"handle", "create"} =>
          IF conn[e].shut THEN conn[e].answer = "false" ELSE Right(conn[e].sent)

AcceptorInv ==
    up /\ accPc = "spawn" =>
        /\ conn[accepted].at = "served" /\ ~conn[accepted].shut
        /\ service[accepted] = "none"
        /\ accepted = Main => stop

MainInv ==
    /\ service[Main] = "none"
    /\ mainPc # "loop" => stop
    /\ conn[Main].at # "none" => mainPc = "join"

IInv ==
    /\ TypeOK
    /\ \A c \in Client : OptionInv(c) /\ OwnInv(c)
    /\ \A e \in End : ConnInv(e) /\ ServiceInv(e)
    /\ AcceptorInv
    /\ MainInv

LEMMA EndMembers == Main \in End /\ Client \subseteq End /\ \A c \in Client : c # Main
  BY MainAssumption DEF End

LEMMA OffState == Off \in ClientState /\ Missing \notin Config
  BY TriesAssumption, ValuesAssumption DEF Off, ClientState

LEMMA NoConnectionType == NoConnection \in Connection /\ Unsent \notin Message
<1>1. Unsent \notin Message
  BY DEF Unsent, Message
<1> QED
  BY <1>1 DEF NoConnection, Connection

-----------------------------------------------------------------------------
(* The initial states.                                                      *)
LEMMA InitInv == Init => IInv
<1> SUFFICES ASSUME Init PROVE IInv
  OBVIOUS
<1> USE DEF Init, SettingsInit
<1>1. TypeOK
  <2>1. config \in Config \cup {Broken, Missing}
    BY DEF Config
  <2>2. store \in [User -> Stored]
    BY DEF Stored
  <2> QED
    BY <2>1, <2>2, OffState, NoConnectionType, EndMembers DEF TypeOK
<1>2. \A c \in Client : OptionInv(c) /\ OwnInv(c)
  BY EndMembers DEF OptionInv, OwnInv, Opened, Off, NoConnection
<1>3. \A e \in End : ConnInv(e) /\ ServiceInv(e)
  BY DEF ConnInv, ServiceInv, NoConnection, Unsent
<1>4. AcceptorInv /\ MainInv
  BY EndMembers DEF AcceptorInv, MainInv, NoConnection
<1> QED
  BY <1>1, <1>2, <1>3, <1>4 DEF IInv

-----------------------------------------------------------------------------
(* The steps of Settings.                                                   *)

(* What OwnInv reads of a client.                                           *)
Request(b) == <<client[b].pc, client[b].type, client[b].username, client[b].hash_password>>

(* How a step of Settings moves its client with respect to the connection:  *)
(* it ends it, stays away from it, or goes on in ReadCredential.            *)
Moves(c) ==
    \/ client'[c].pc = "off"
    \/ ~Opened(c) /\ client[c].pc # "wait" /\ ~Opened(c)' /\ client'[c].pc # "wait"
    \/ client[c].pc # "wait" /\ Opened(c) /\ Opened(c)'

SettingsKept(c) ==
    /\ config' \in Config \cup {Broken, Missing}
    /\ client' \in [Client -> ClientState]
    /\ \A b \in Client : OptionInv(b)'
    /\ \A b \in Client \ {c} : Request(b)' = Request(b)
    /\ Moves(c)

(* A step that changes one client only, to a state of its type in which it  *)
(* is not about to write.                                                   *)
LEMMA OneClient ==
  ASSUME IInv, NEW c \in Client, NEW s \in ClientState,
         client' = [client EXCEPT ![c] = s], s.pc \notin {"write", "flush"}
  PROVE  /\ client' \in [Client -> ClientState]
         /\ client'[c] = s
         /\ \A b \in Client : OptionInv(b)'
         /\ \A b \in Client \ {c} : Request(b)' = Request(b)
<1>1. client \in [Client -> ClientState] /\ \A b \in Client : OptionInv(b)
  BY DEF IInv, TypeOK
<1>2. client'[c] = s /\ \A b \in Client \ {c} : client'[b] = client[b]
  BY <1>1
<1>3. \A b \in Client : OptionInv(b)'
  BY <1>1, <1>2 DEF OptionInv
<1> QED
  BY <1>1, <1>2, <1>3 DEF Request

LEMMA EndsKept ==
  ASSUME IInv, NEW c \in Client, Ends(c), UNCHANGED config
  PROVE  SettingsKept(c)
<1>1. /\ client' \in [Client -> ClientState] /\ client'[c] = Off
      /\ \A b \in Client : OptionInv(b)'
      /\ \A b \in Client \ {c} : Request(b)' = Request(b)
  <2>1. Off.pc \notin {"write", "flush"}
    BY DEF Off
  <2> QED
    BY <2>1, OffState, OneClient DEF Ends
<1>2. config \in Config \cup {Broken, Missing}
  BY DEF IInv, TypeOK
<1> QED
  BY <1>1, <1>2 DEF SettingsKept, Moves, Off

(* A step that only moves the place of a client that has no connection.     *)
LEMMA GoesKept ==
  ASSUME IInv, NEW c \in Client, NEW pc,
         pc \in {"structure", "reset", "fill", "options", "folder"},
         client[c].pc \in {"off", "structure", "reset", "fill", "options"},
         Goes(c, pc), config' \in Config \cup {Broken, Missing}
  PROVE  SettingsKept(c)
<1> DEFINE s == [client[c] EXCEPT !.pc = pc]
<1>1. client[c] \in ClientState /\ client \in [Client -> ClientState]
  BY DEF IInv, TypeOK
<1>2. s \in ClientState /\ s.pc = pc
  BY <1>1 DEF ClientState
<1>3. client' = [client EXCEPT ![c] = s]
  BY <1>1 DEF Goes
<1>4. /\ client' \in [Client -> ClientState] /\ client'[c] = s
      /\ \A b \in Client : OptionInv(b)'
      /\ \A b \in Client \ {c} : Request(b)' = Request(b)
  <2> HIDE DEF s
  <2> QED
    BY <1>2, <1>3, OneClient
<1>5. Moves(c)
  BY <1>2, <1>4 DEF Moves, Opened
<1> QED
  BY <1>4, <1>5 DEF SettingsKept

LEMMA ResetsKept ==
  ASSUME IInv, NEW c \in Client, Resets(c)
  PROVE  SettingsKept(c)
<1>1. client \in [Client -> ClientState] /\ \A b \in Client : OptionInv(b)
  BY DEF IInv, TypeOK
<1>2. client' = [b \in Client |->
                    IF b = c THEN [client[b] EXCEPT !.pc = "fill", !.linked = TRUE]
                             ELSE [client[b] EXCEPT !.linked = FALSE]]
  BY DEF Resets
<1>3. /\ client'[c].pc = "fill"
      /\ \A b \in Client :
            /\ client'[b] \in ClientState
            /\ b # c => /\ Request(b)' = Request(b)
                        /\ client'[b].root = client[b].root
                        /\ client'[b].next = client[b].next
                        /\ client'[b].pc = client[b].pc
  <2>1. /\ client'[c] = [client[c] EXCEPT !.pc = "fill", !.linked = TRUE]
        /\ client'[c] \in ClientState
    BY <1>1, <1>2 DEF ClientState
  <2>2. ASSUME NEW b \in Client, b # c
        PROVE  /\ client'[b] \in ClientState /\ Request(b)' = Request(b)
               /\ client'[b].root = client[b].root /\ client'[b].next = client[b].next
               /\ client'[b].pc = client[b].pc
    <3>1. client[b] \in ClientState /\ client'[b] = [client[b] EXCEPT !.linked = FALSE]
      BY <1>1, <1>2, <2>2
    <3> QED
      BY <3>1 DEF ClientState, Request
  <2>3. client'[c].pc = "fill"
    BY <1>1, <2>1 DEF ClientState
  <2> QED
    BY <2>1, <2>2, <2>3
<1>4. client' \in [Client -> ClientState]
  BY <1>2, <1>3
<1>5. \A b \in Client : OptionInv(b)'
  BY <1>1, <1>3 DEF OptionInv
<1>6. Moves(c)
  BY <1>3 DEF Resets, Moves, Opened
<1> QED
  BY <1>3, <1>4, <1>5, <1>6 DEF SettingsKept, Resets

(* WriteProperty has read the file, and is on the way to a valid one.       *)
LEMMA TakesOptionKept ==
  ASSUME IInv, NEW c \in Client, TakesOption(c)
  PROVE  SettingsKept(c)
<1>1. client \in [Client -> ClientState] /\ \A b \in Client : OptionInv(b)
  BY DEF IInv, TypeOK
<1>2. config \in Config \cup {Broken, Missing} /\ UNCHANGED config
  BY DEF IInv, TypeOK, TakesOption
<1>3. CASE client[c].next > Len(Options[c])
  BY <1>2, <1>3, GoesKept DEF TakesOption
<1>4. CASE /\ ~(client[c].next > Len(Options[c]))
           /\ Options[c][client[c].next] = Wrong \/ ~Readable
  BY <1>4, EndsKept DEF TakesOption
<1>5. CASE /\ ~(client[c].next > Len(Options[c]))
           /\ ~(Options[c][client[c].next] = Wrong \/ ~Readable)
  <2>1. config \in Config
    BY <1>2, <1>5 DEF Readable
  <2>2. client' = [client EXCEPT ![c].root = config, ![c].pc = "write"]
    BY <1>5 DEF TakesOption
  <2>3. /\ client'[c].root = config /\ client'[c].pc = "write"
        /\ client'[c].next = client[c].next
        /\ client'[c] \in ClientState
        /\ \A b \in Client \ {c} : client'[b] = client[b]
        /\ client' \in [Client -> ClientState]
    <3>1. [client[c] EXCEPT !.root = config, !.pc = "write"] \in ClientState
      BY <1>1, <2>1 DEF ClientState
    <3>2. client'[c] = [client[c] EXCEPT !.root = config, !.pc = "write"]
      BY <1>1, <2>2
    <3>3. \A b \in Client \ {c} : client'[b] = client[b]
      BY <1>1, <2>2
    <3>4. client' \in [Client -> ClientState]
      BY <1>1, <2>2, <3>1, <3>2, <3>3
    <3>5. /\ client'[c].root = config /\ client'[c].pc = "write"
          /\ client'[c].next = client[c].next
      BY <1>1, <3>2 DEF ClientState
    <3> QED
      BY <3>1, <3>2, <3>3, <3>4, <3>5
  <2>4. client[c].next \in Nat \ {0} /\ Len(Options[c]) \in Nat
    BY <1>1, OptionsAssumption DEF ClientState
  <2>5. OptionInv(c)'
    BY <1>5, <2>1, <2>3, <2>4 DEF OptionInv
  <2>6. \A b \in Client : OptionInv(b)'
    BY <1>1, <2>3, <2>5 DEF OptionInv
  <2>7. Moves(c)
    BY <2>3 DEF TakesOption, Moves, Opened
  <2> QED
    BY <1>2, <2>3, <2>6, <2>7 DEF SettingsKept, Request
<1> QED
  BY <1>3, <1>4, <1>5

LEMMA TruncatesKept ==
  ASSUME IInv, NEW c \in Client, Truncates(c)
  PROVE  SettingsKept(c)
<1>1. client \in [Client -> ClientState] /\ \A b \in Client : OptionInv(b)
  BY DEF IInv, TypeOK
<1>2. /\ client'[c] = [client[c] EXCEPT !.pc = "flush", !.linked = TRUE]
      /\ \A b \in Client \ {c} : client'[b] = client[b]
  BY <1>1 DEF Truncates
<1>3. /\ client'[c] \in ClientState /\ client'[c].pc = "flush"
      /\ client'[c].root = client[c].root /\ client'[c].next = client[c].next
  <2>1. client[c] \in ClientState
    BY <1>1
  <2> QED
    BY <1>2, <2>1 DEF ClientState
<1>4. client' \in [Client -> ClientState]
  BY <1>1, <1>3 DEF Truncates
<1>5. \A b \in Client : OptionInv(b)'
  BY <1>1, <1>2, <1>3 DEF OptionInv, Truncates
<1>6. Moves(c)
  BY <1>3 DEF Truncates, Moves, Opened
<1> QED
  BY <1>2, <1>4, <1>5, <1>6 DEF SettingsKept, Truncates, Request

LEMMA WritesKept ==
  ASSUME IInv, NEW c \in Client, Writes(c)
  PROVE  SettingsKept(c)
<1> DEFINE option == Options[c][client[c].next]
           s == [client[c] EXCEPT !.pc = "options", !.next = @ + 1, !.root = Missing]
<1>1. /\ client \in [Client -> ClientState] /\ OptionInv(c)
      /\ config \in Config \cup {Broken, Missing}
  BY DEF IInv, TypeOK
<1>2. client[c].root \in Config /\ option \in Option \ {Wrong}
  <2>1. client[c].root \in Config /\ client[c].next \in 1 .. Len(Options[c]) /\ option # Wrong
    BY <1>1 DEF OptionInv, Writes
  <2>2. Options[c] \in Seq(Option)
    BY OptionsAssumption
  <2> QED
    BY <2>1, <2>2
<1>3. [client[c].root EXCEPT ![option[1]] = option[2]] \in Config
  <2>1. CASE option \in {"username"} \X User
    BY <1>2, <2>1 DEF Config
  <2>2. CASE option \in {"hash_password"} \X Hash
    BY <1>2, <2>2 DEF Config
  <2>3. CASE option \in {"path"} \X {Given}
    BY <1>2, <2>3 DEF Config
  <2> QED
    BY <1>2, <2>1, <2>2, <2>3 DEF Option
<1>4. config' \in Config \cup {Broken, Missing}
  BY <1>1, <1>3 DEF Writes
<1>5. s \in ClientState /\ s.pc = "options"
  <2>1. client[c] \in ClientState
    BY <1>1
  <2>2. client[c].next + 1 \in Nat \ {0}
    BY <2>1 DEF ClientState
  <2> QED
    BY <2>1, <2>2 DEF ClientState
<1>6. client' = [client EXCEPT ![c] = s]
  BY <1>1 DEF Writes
<1>7. /\ client' \in [Client -> ClientState] /\ client'[c] = s
      /\ \A b \in Client : OptionInv(b)'
      /\ \A b \in Client \ {c} : Request(b)' = Request(b)
  <2> HIDE DEF s
  <2> QED
    BY <1>5, <1>6, OneClient
<1>8. Moves(c)
  BY <1>5, <1>7 DEF Moves, Opened, Writes
<1> QED
  BY <1>4, <1>7, <1>8 DEF SettingsKept

LEMMA ChecksFolderKept ==
  ASSUME IInv, NEW c \in Client, ChecksFolder(c)
  PROVE  SettingsKept(c)
<1> DEFINE s == [Off EXCEPT !.pc = "connect"]
<1>1. config \in Config \cup {Broken, Missing} /\ UNCHANGED config
  BY DEF IInv, TypeOK, ChecksFolder
<1>2. CASE Ends(c)
  BY <1>1, <1>2, EndsKept
<1>3. CASE client' = [client EXCEPT ![c] = s]
  <2>1. s \in ClientState /\ s.pc = "connect"
    BY OffState DEF ClientState
  <2>2. /\ client' \in [Client -> ClientState] /\ client'[c] = s
        /\ \A b \in Client : OptionInv(b)'
        /\ \A b \in Client \ {c} : Request(b)' = Request(b)
    <3> HIDE DEF s
    <3> QED
      BY <1>3, <2>1, OneClient
  <2>3. Moves(c)
    BY <2>1, <2>2 DEF Moves, Opened, ChecksFolder
  <2> QED
    BY <1>1, <2>2, <2>3 DEF SettingsKept
<1> QED
  BY <1>2, <1>3 DEF ChecksFolder

LEMMA ReadsUsernameKept ==
  ASSUME IInv, NEW c \in Client, ReadsUsername(c)
  PROVE  SettingsKept(c)
<1> DEFINE s == [client[c] EXCEPT !.username = config.username, !.pc = "hash"]
<1>1. /\ client \in [Client -> ClientState]
      /\ config \in Config \cup {Broken, Missing} /\ UNCHANGED config
  BY DEF IInv, TypeOK, ReadsUsername
<1>2. CASE Ends(c)
  BY <1>1, <1>2, EndsKept
<1>3. CASE Readable /\ client' = [client EXCEPT ![c].username = config.username,
                                              ![c].pc = "hash"]
  <2>1. client[c] \in ClientState /\ config.username \in User \cup {Empty}
    BY <1>1, <1>3 DEF Readable, Config
  <2>2. s \in ClientState /\ s.pc = "hash" /\ s.type = client[c].type
    BY <2>1 DEF ClientState
  <2>3. client' = [client EXCEPT ![c] = s]
    BY <1>1, <1>3
  <2>4. /\ client' \in [Client -> ClientState] /\ client'[c] = s
        /\ \A b \in Client : OptionInv(b)'
        /\ \A b \in Client \ {c} : Request(b)' = Request(b)
    <3> HIDE DEF s
    <3> QED
      BY <2>2, <2>3, OneClient
  <2>5. Moves(c)
    BY <2>2, <2>4 DEF Moves, Opened, ReadsUsername
  <2> QED
    BY <1>1, <2>4, <2>5 DEF SettingsKept
<1> QED
  BY <1>2, <1>3 DEF ReadsUsername

LEMMA ReadsHashKept ==
  ASSUME IInv, NEW c \in Client, ReadsHash(c)
  PROVE  SettingsKept(c)
<1> DEFINE pc == IF client[c].type = 1 THEN "send" ELSE "connect"
           s == [client[c] EXCEPT !.hash_password = config.hash_password, !.pc = pc]
<1>1. /\ client \in [Client -> ClientState]
      /\ config \in Config \cup {Broken, Missing} /\ UNCHANGED config
  BY DEF IInv, TypeOK, ReadsHash
<1>2. CASE Ends(c)
  BY <1>1, <1>2, EndsKept
<1>3. CASE Readable /\ client' = [client EXCEPT ![c].hash_password = config.hash_password,
                                              ![c].pc = pc]
  <2>1. client[c] \in ClientState /\ config.hash_password \in Hash \cup {Empty}
    BY <1>1, <1>3 DEF Readable, Config
  <2>2. s \in ClientState /\ s.pc = pc /\ s.type = client[c].type
    BY <2>1 DEF ClientState
  <2>3. client' = [client EXCEPT ![c] = s]
    BY <1>1, <1>3
  <2>4. /\ client' \in [Client -> ClientState] /\ client'[c] = s
        /\ \A b \in Client : OptionInv(b)'
        /\ \A b \in Client \ {c} : Request(b)' = Request(b)
    <3>1. s.pc \notin {"write", "flush"}
      BY <2>2
    <3> HIDE DEF s
    <3> QED
      BY <2>2, <2>3, <3>1, OneClient
  <2>5. Moves(c)
    BY <2>2, <2>4 DEF Moves, Opened, ReadsHash
  <2> QED
    BY <1>1, <2>4, <2>5 DEF SettingsKept
<1> QED
  BY <1>2, <1>3 DEF ReadsHash

LEMMA StepKept ==
  ASSUME IInv, NEW c \in Client, Start(c) \/ SettingsStep(c)
  PROVE  SettingsKept(c)
<1>1. config \in Config \cup {Broken, Missing} /\ Default \in Config
  BY DEF IInv, TypeOK, Config, Default
<1>2. CASE Start(c)
  BY <1>1, <1>2, GoesKept DEF Start
<1>3. CASE ChecksStructure(c)
  BY <1>1, <1>3, GoesKept DEF ChecksStructure
<1>4. CASE Fills(c)
  BY <1>1, <1>4, GoesKept DEF Fills
<1> QED
  BY <1>2, <1>3, <1>4, ResetsKept, TakesOptionKept, TruncatesKept, WritesKept,
     ChecksFolderKept, ReadsUsernameKept, ReadsHashKept DEF SettingsStep

-----------------------------------------------------------------------------
(* The steps of a client.                                                   *)

(* What a step does to the accounts is of no concern to the rest.           *)
StoreOk == store' \in [User -> Stored]

OnlyConn(c) ==
    /\ conn' \in [End -> Connection]
    /\ \A e \in End \ {c} : conn'[e] = conn[e]
    /\ UNCHANGED <<service, server>>

OthersKept(c) ==
    /\ config' \in Config \cup {Broken, Missing}
    /\ client' \in [Client -> ClientState]
    /\ \A b \in Client : OptionInv(b)'
    /\ \A b \in Client \ {c} : Request(b)' = Request(b)

(* A step of one client and its connection preserves the invariant if it    *)
(* leaves both in order and does not disturb the acceptor.                  *)
LEMMA ClientStepInv ==
  ASSUME IInv, StoreOk, NEW c \in Client, OthersKept(c), OnlyConn(c),
         OwnInv(c)', ConnInv(c)', ServiceInv(c)',
         up /\ accPc = "spawn" /\ accepted = c =>
             conn'[c].at = "served" /\ ~conn'[c].shut
  PROVE  IInv'
<1> USE DEF OnlyConn, server
<1>1. TypeOK'
  BY DEF IInv, TypeOK, OthersKept, StoreOk
<1>2. ASSUME NEW b \in Client, b # c PROVE OwnInv(b)'
  <2>1. /\ client'[b].pc = client[b].pc /\ client'[b].type = client[b].type
        /\ client'[b].username = client[b].username
        /\ client'[b].hash_password = client[b].hash_password
    BY <1>2 DEF OthersKept, Request
  <2>2. conn'[b] = conn[b] /\ OwnInv(b)
    BY <1>2, EndMembers DEF IInv
  <2> QED
    BY <2>1, <2>2 DEF OwnInv, Opened
<1>3. ASSUME NEW e \in End, e # c PROVE ConnInv(e)' /\ ServiceInv(e)'
  <2>1. conn'[e] = conn[e] /\ service'[e] = service[e] /\ up' = up
    BY <1>3
  <2>2. ConnInv(e) /\ ServiceInv(e)
    BY DEF IInv
  <2> QED
    BY <2>1, <2>2 DEF ConnInv, ServiceInv, Right
<1>4. AcceptorInv'
  <2>1. accepted \in End
    BY DEF IInv, TypeOK
  <2> QED
    BY <2>1, EndMembers DEF IInv, AcceptorInv
<1>5. MainInv'
  BY EndMembers DEF IInv, MainInv
<1> QED
  BY <1>1, <1>2, <1>3, <1>4, <1>5 DEF IInv, OthersKept

(* A connection that is not there any more, or that its client has left.    *)
LEMMA Leaves ==
  ASSUME IInv, NEW c \in Client, NEW how \in {"closed", "lost"},
         conn' = ClosedByClient(c, how), UNCHANGED <<service, server>>,
         how = "closed" => \/ conn[c].sent = Unsent \/ conn[c].answer = "false"
                           \/ conn[c].shut /\ service[c] = "none"
  PROVE  /\ OnlyConn(c) /\ ConnInv(c)' /\ ServiceInv(c)'
         /\ conn'[c].at = "none" \/ conn'[c].gone # "no"
         /\ up /\ accPc = "spawn" /\ accepted = c =>
                conn'[c].at = "served" /\ ~conn'[c].shut
<1>1. /\ conn \in [End -> Connection] /\ c \in End
      /\ ConnInv(c) /\ ServiceInv(c) /\ AcceptorInv
  BY EndMembers DEF IInv, TypeOK
<1>2. CASE conn[c].at = "none" \/ (conn[c].shut /\ service[c] = "none")
  <2>1. conn'[c] = NoConnection /\ OnlyConn(c)
    BY <1>1, <1>2, NoConnectionType DEF ClosedByClient, Forgotten, OnlyConn
  <2>2. service[c] = "none"
    BY <1>1, <1>2 DEF ServiceInv
  <2>3. ConnInv(c)' /\ ServiceInv(c)'
    BY <2>1, <2>2 DEF ConnInv, ServiceInv, NoConnection, Unsent
  <2> QED
    BY <1>1, <1>2, <2>1, <2>3 DEF AcceptorInv, NoConnection
<1>3. CASE ~(conn[c].at = "none" \/ (conn[c].shut /\ service[c] = "none"))
  <2>1. conn' = [conn EXCEPT ![c].gone = how]
    BY <1>3 DEF ClosedByClient
  <2>2. /\ conn'[c] = [conn[c] EXCEPT !.gone = how]
        /\ conn[c] \in Connection
    BY <1>1, <2>1
  <2>3. /\ conn'[c] \in Connection
        /\ conn'[c].gone = how /\ conn'[c].at = conn[c].at
        /\ conn'[c].sent = conn[c].sent /\ conn'[c].answer = conn[c].answer
        /\ conn'[c].shut = conn[c].shut
    BY <2>2 DEF Connection
  <2>4. OnlyConn(c)
    BY <1>1, <2>1, <2>3 DEF OnlyConn
  <2>5. ConnInv(c)'
    BY <1>1, <1>3, <2>3 DEF ConnInv, Right
  <2>6. ServiceInv(c)'
    BY <1>1, <2>3 DEF ServiceInv, Right, server
  <2> QED
    BY <1>1, <2>3, <2>4, <2>5, <2>6 DEF AcceptorInv
<1> QED
  BY <1>2, <1>3

(* A client that ends, or goes where it has no connection, after leaving.   *)
LEMMA LeavesInv ==
  ASSUME IInv, StoreOk, NEW c \in Client, OthersKept(c), NEW how \in {"closed", "lost"},
         conn' = ClosedByClient(c, how), UNCHANGED <<service, server>>,
         how = "closed" => \/ conn[c].sent = Unsent \/ conn[c].answer = "false"
                           \/ conn[c].shut /\ service[c] = "none",
         ~Opened(c)', client'[c].pc # "wait"
  PROVE  IInv'
<1>1. /\ OnlyConn(c) /\ ConnInv(c)' /\ ServiceInv(c)'
      /\ conn'[c].at = "none" \/ conn'[c].gone # "no"
      /\ up /\ accPc = "spawn" /\ accepted = c =>
             conn'[c].at = "served" /\ ~conn'[c].shut
  BY Leaves
<1>2. OwnInv(c)'
  BY <1>1 DEF OwnInv
<1> QED
  BY <1>1, <1>2, ClientStepInv

(* A step that leaves the connection as it is.                              *)
LEMMA StaysInv ==
  ASSUME IInv, StoreOk, NEW c \in Client, OthersKept(c), UNCHANGED <<conn, service, server>>,
         OwnInv(c)'
  PROVE  IInv'
<1>1. OnlyConn(c)
  BY DEF OnlyConn, IInv, TypeOK
<1>2. ConnInv(c)' /\ ServiceInv(c)'
  BY EndMembers DEF IInv, ConnInv, ServiceInv, Right, server
<1>3. up /\ accPc = "spawn" /\ accepted = c => conn'[c].at = "served" /\ ~conn'[c].shut
  BY DEF IInv, AcceptorInv
<1> QED
  BY <1>1, <1>2, <1>3, ClientStepInv

LEMMA MovesInv ==
  ASSUME IInv, StoreOk, NEW c \in Client, SettingsKept(c), UNCHANGED <<conn, service, server>>,
         client'[c].pc = "off" => conn[c].at = "none" \/ conn[c].gone # "no"
  PROVE  IInv'
<1>1. OthersKept(c) /\ Moves(c) /\ OwnInv(c)
  BY DEF SettingsKept, OthersKept, IInv
<1>2. OwnInv(c)'
  BY <1>1 DEF Moves, OwnInv, Opened
<1> QED
  BY <1>1, <1>2, StaysInv

LEMMA ClientReadsInv ==
  ASSUME IInv, StoreOk, NEW c \in Client, ClientReads(c)
  PROVE  IInv'
<1>1. SettingsKept(c)
  BY StepKept DEF ClientReads
<1>2. client[c].pc # "wait"
  BY DEF ClientReads, SettingsStep, ChecksStructure, Resets, Fills, TakesOption, Truncates,
         Writes, ChecksFolder, ReadsUsername, ReadsHash
<1>3. CASE client'[c].pc = "off" /\ conn[c].at # "none" /\ conn[c].gone = "no"
  <2>1. conn[c].sent = Unsent
    BY <1>2, <1>3 DEF IInv, OwnInv
  <2>2. ~Opened(c)'
    BY <1>3 DEF Opened
  <2>3. conn' = ClosedByClient(c, "closed") /\ UNCHANGED <<service, server>> /\ OthersKept(c)
    BY <1>1, <1>3 DEF ClientReads, SettingsKept, OthersKept
  <2> QED
    BY <1>3, <2>1, <2>2, <2>3, LeavesInv
<1>4. CASE ~(client'[c].pc = "off" /\ conn[c].at # "none" /\ conn[c].gone = "no")
  BY <1>1, <1>4, MovesInv DEF ClientReads
<1> QED
  BY <1>3, <1>4

LEMMA ClientStartsInv ==
  ASSUME IInv, StoreOk, NEW c \in Client, ClientStarts(c)
  PROVE  IInv'
<1>1. SettingsKept(c)
  BY StepKept DEF ClientStarts
<1>2. client[c].pc = "off" /\ OwnInv(c)
  BY DEF ClientStarts, Start, IInv
<1>3. conn[c].at = "none" \/ conn[c].gone # "no"
  BY <1>2 DEF OwnInv, Opened
<1> QED
  BY <1>1, <1>3, MovesInv DEF ClientStarts

LEMMA RunningState ==
  [Off EXCEPT !.pc = "running"] \in ClientState /\ [Off EXCEPT !.pc = "running"].pc = "running"
  BY OffState DEF ClientState

LEMMA ConnectsInv ==
  ASSUME IInv, StoreOk, NEW c \in Client, Connects(c)
  PROVE  IInv'
<1> DEFINE pc == IF client[c].type = 1 THEN "username" ELSE "send"
           s == [client[c] EXCEPT !.tries = Tries, !.pc = pc]
<1>1. /\ client \in [Client -> ClientState] /\ client[c] \in ClientState
      /\ config \in Config \cup {Broken, Missing} /\ UNCHANGED config
      /\ conn \in [End -> Connection] /\ c \in End /\ conn[c] = NoConnection
      /\ service[c] = "none"
  BY EndMembers DEF IInv, TypeOK, Connects, ConnInv, ServiceInv
<1>2. s \in ClientState /\ s.pc = pc /\ s.type = client[c].type
  <2>1. pc \in {"username", "send"} /\ Tries \in 1 .. Tries
    BY TriesAssumption
  <2> HIDE DEF pc
  <2> QED
    BY <1>1, <2>1 DEF ClientState
<1>3. client' = [client EXCEPT ![c] = s]
  BY <1>1 DEF Connects
<1>4. client'[c] = s /\ OthersKept(c)
  <2>1. s.pc \notin {"write", "flush"}
    BY <1>2
  <2> HIDE DEF s
  <2> QED
    BY <1>1, <1>2, <1>3, <2>1, OneClient DEF OthersKept
<1>5. /\ conn'[c] = [NoConnection EXCEPT !.at = "queued"] /\ OnlyConn(c)
  <2>1. [NoConnection EXCEPT !.at = "queued"] \in Connection
    BY NoConnectionType DEF Connection
  <2> QED
    BY <1>1, <2>1 DEF Connects, OnlyConn
<1>6. ConnInv(c)' /\ ServiceInv(c)'
  BY <1>1, <1>5 DEF ConnInv, ServiceInv, NoConnection, OnlyConn
<1>7. OwnInv(c)'
  BY <1>2, <1>4, <1>5 DEF OwnInv, Opened, NoConnection
<1>8. ~(up /\ accPc = "spawn" /\ accepted = c)
  BY <1>1 DEF IInv, AcceptorInv, NoConnection
<1> QED
  BY <1>4, <1>5, <1>6, <1>7, <1>8, ClientStepInv

LEMMA ConnectFailsInv ==
  ASSUME IInv, StoreOk, NEW c \in Client, ConnectFails(c)
  PROVE  IInv'
<1> DEFINE s == [client[c] EXCEPT !.tries = @ - 1]
<1>1. /\ client \in [Client -> ClientState] /\ client[c] \in ClientState
      /\ config \in Config \cup {Broken, Missing} /\ UNCHANGED config
      /\ client[c].pc = "connect" /\ UNCHANGED <<conn, service, server>>
      /\ OwnInv(c)
  BY DEF IInv, TypeOK, ConnectFails
<1>2. conn[c].at = "none" \/ conn[c].gone # "no"
  BY <1>1 DEF OwnInv, Opened
<1>3. CASE client[c].tries = 1
  <2>1. SettingsKept(c)
    BY <1>1, <1>3, EndsKept DEF ConnectFails
  <2> QED
    BY <1>1, <1>2, <2>1, MovesInv
<1>4. CASE client[c].tries # 1
  <2>1. s \in ClientState /\ s.pc = "connect"
    <3>1. client[c].tries - 1 \in 1 .. Tries
      BY <1>1, <1>4, TriesAssumption DEF ClientState
    <3> QED
      BY <1>1, <3>1 DEF ClientState
  <2>2. client' = [client EXCEPT ![c] = s]
    BY <1>1, <1>4 DEF ConnectFails
  <2>3. client'[c] = s /\ OthersKept(c)
    <3> HIDE DEF s
    <3> QED
      BY <1>1, <2>1, <2>2, OneClient DEF OthersKept
  <2>4. OwnInv(c)'
    BY <1>1, <1>2, <2>1, <2>3 DEF OwnInv, Opened
  <2> QED
    BY <1>1, <2>3, <2>4, StaysInv
<1> QED
  BY <1>3, <1>4

LEMMA SendsInv ==
  ASSUME IInv, StoreOk, NEW c \in Client, Sends(c)
  PROVE  IInv'
<1> DEFINE message == <<client[c].type, client[c].username, client[c].hash_password>>
<1>1. /\ client \in [Client -> ClientState] /\ client[c] \in ClientState
      /\ config \in Config \cup {Broken, Missing} /\ UNCHANGED config
      /\ UNCHANGED <<service, server>>
      /\ conn \in [End -> Connection] /\ c \in End /\ conn[c] \in Connection
      /\ client[c].pc = "send"
  BY EndMembers DEF IInv, TypeOK, Sends
<1>2. /\ conn[c].at # "none" /\ conn[c].gone = "no" /\ conn[c].sent = Unsent
      /\ conn[c].answer = "nothing" /\ service[c] \in {"none", "read"}
      /\ ConnInv(c) /\ ServiceInv(c)
  <2>1. OwnInv(c) /\ ConnInv(c) /\ ServiceInv(c)
        /\ service[c] \in {"none", "read", "refuse", "handle", "create"}
    BY <1>1 DEF IInv, TypeOK
  <2> QED
    BY <1>1, <2>1 DEF OwnInv, Opened, ConnInv, ServiceInv
<1>3. message \in Message /\ message[1] = client[c].type /\ message # Unsent
  BY <1>1, NoConnectionType DEF Message, ClientState, Unsent
<1>4. CASE conn[c].shut /\ client[c].type = 3
  <2>1. /\ client' = [client EXCEPT ![c] = [Off EXCEPT !.pc = "running"]]
        /\ conn' = ClosedByClient(c, "closed")
    BY <1>2, <1>4 DEF Sends, ClosedByClient, ServiceInv
  <2>2. OthersKept(c) /\ client'[c].pc = "running"
    BY <1>1, <2>1, RunningState, OneClient DEF OthersKept
  <2> QED
    BY <1>1, <1>2, <2>1, <2>2, LeavesInv DEF Opened
<1>5. ASSUME NEW gone \in {"no", "closed"},
             gone = "closed" => client[c].type = 3,
             conn' = [conn EXCEPT ![c].sent = message, ![c].gone = gone]
      PROVE  /\ OnlyConn(c) /\ ConnInv(c)' /\ ServiceInv(c)'
             /\ conn'[c].at # "none" /\ conn'[c].gone = gone /\ conn'[c].sent = message
             /\ up /\ accPc = "spawn" /\ accepted = c =>
                    conn'[c].at = "served" /\ ~conn'[c].shut
  <2> HIDE DEF message
  <2>1. /\ conn'[c] \in Connection /\ conn'[c].gone = gone /\ conn'[c].sent = message
        /\ conn'[c].at = conn[c].at /\ conn'[c].answer = conn[c].answer
        /\ conn'[c].shut = conn[c].shut
    <3>1. conn'[c] = [conn[c] EXCEPT !.sent = message, !.gone = gone]
      BY <1>1, <1>5
    <3> QED
      BY <1>1, <1>3, <3>1 DEF Connection
  <2>2. OnlyConn(c)
    BY <1>1, <1>5, <2>1 DEF OnlyConn
  <2>3. ConnInv(c)'
    BY <1>2, <1>3, <1>5, <2>1 DEF ConnInv
  <2>4. ServiceInv(c)'
    BY <1>1, <1>2, <1>3, <2>1 DEF ServiceInv, server
  <2>5. up /\ accPc = "spawn" /\ accepted = c => conn[c].at = "served" /\ ~conn[c].shut
    BY DEF IInv, AcceptorInv
  <2> QED
    BY <1>2, <1>5, <2>1, <2>2, <2>3, <2>4, <2>5
<1>6. CASE ~conn[c].shut /\ client[c].type = 3
  <2>1. /\ client' = [client EXCEPT ![c] = [Off EXCEPT !.pc = "running"]]
        /\ conn' = [conn EXCEPT ![c].sent = message, ![c].gone = "closed"]
    BY <1>6 DEF Sends
  <2>2. OthersKept(c) /\ client'[c].pc = "running"
    BY <1>1, <2>1, RunningState, OneClient DEF OthersKept
  <2>3. OwnInv(c)'
    BY <1>5, <1>6, <2>1, <2>2 DEF OwnInv, Opened
  <2> QED
    BY <1>5, <1>6, <2>1, <2>2, <2>3, ClientStepInv
<1>7. CASE client[c].type # 3
  <2> DEFINE s == [client[c] EXCEPT !.pc = "wait"]
  <2>1. Goes(c, "wait") /\ conn' = [conn EXCEPT ![c].sent = message]
    BY <1>7 DEF Sends
  <2>2. conn' = [conn EXCEPT ![c].sent = message, ![c].gone = "no"]
    <3> HIDE DEF message
    <3> QED
      BY <1>1, <1>2, <2>1 DEF Connection
  <2>3. /\ s \in ClientState /\ s.pc = "wait" /\ s.type = client[c].type
        /\ s.username = client[c].username /\ s.hash_password = client[c].hash_password
    BY <1>1 DEF ClientState
  <2>4. client' = [client EXCEPT ![c] = s]
    BY <1>1, <2>1 DEF Goes
  <2>5. client'[c] = s /\ OthersKept(c)
    <3> HIDE DEF s
    <3> QED
      BY <1>1, <2>3, <2>4, OneClient DEF OthersKept
  <2>6. OwnInv(c)'
    BY <1>5, <1>7, <2>2, <2>3, <2>5 DEF OwnInv, Opened
  <2> QED
    BY <1>5, <1>7, <2>2, <2>5, <2>6, ClientStepInv
<1> QED
  BY <1>4, <1>6, <1>7

LEMMA SendFailsInv ==
  ASSUME IInv, StoreOk, NEW c \in Client, SendFails(c)
  PROVE  IInv'
<1>1. /\ client \in [Client -> ClientState] /\ UNCHANGED <<config, service, server>>
      /\ client[c].pc = "send" /\ conn[c].shut /\ Ends(c)
      /\ OwnInv(c) /\ ConnInv(c) /\ ServiceInv(c)
      /\ service[c] \in {"none", "read", "refuse", "handle", "create"}
  BY EndMembers DEF IInv, TypeOK, SendFails
<1>2. conn[c].sent = Unsent /\ service[c] = "none"
  BY <1>1 DEF OwnInv, Opened, ServiceInv
<1>3. conn' = ClosedByClient(c, "closed")
  BY <1>1, <1>2 DEF SendFails, ClosedByClient
<1>4. OthersKept(c)
  BY <1>1, EndsKept DEF SettingsKept, OthersKept
<1>5. client'[c].pc = "off"
  BY <1>1 DEF Ends, Off
<1> QED
  BY <1>1, <1>2, <1>3, <1>4, <1>5, LeavesInv DEF Opened

LEMMA ReceivesInv ==
  ASSUME IInv, StoreOk, NEW c \in Client, Receives(c)
  PROVE  IInv'
<1>1. /\ client \in [Client -> ClientState]
      /\ config \in Config \cup {Broken, Missing} /\ UNCHANGED config
      /\ UNCHANGED <<service, server>> /\ conn' = ClosedByClient(c, "closed")
      /\ conn[c].shut
  BY DEF IInv, TypeOK, Receives
<1>2. conn[c].answer = "false" \/ service[c] = "none"
  <2>1. ServiceInv(c) /\ service[c] \in {"none", "read", "refuse", "handle", "create"}
    BY EndMembers DEF IInv, TypeOK
  <2> QED
    BY <1>1, <2>1 DEF ServiceInv
<1>3. OthersKept(c) /\ ~Opened(c)' /\ client'[c].pc # "wait"
  <2>1. CASE client' = [client EXCEPT ![c] = [Off EXCEPT !.pc = "username", !.type = 2]]
    <3> DEFINE s == [Off EXCEPT !.pc = "username", !.type = 2]
    <3>1. s \in ClientState /\ s.pc = "username" /\ s.type = 2
      <4>1. 2 \in 1 .. 3
        OBVIOUS
      <4> QED
        BY <4>1, OffState DEF ClientState
    <3>2. client' = [client EXCEPT ![c] = s]
      BY <2>1
    <3> HIDE DEF s
    <3>3. client'[c] = s /\ OthersKept(c)
      BY <1>1, <3>1, <3>2, OneClient DEF OthersKept
    <3> QED
      BY <3>1, <3>3 DEF Opened
  <2>2. CASE client' = [client EXCEPT ![c] = [Off EXCEPT !.pc = "username", !.type = 3]]
    <3> DEFINE s == [Off EXCEPT !.pc = "username", !.type = 3]
    <3>1. s \in ClientState /\ s.pc = "username" /\ s.type = 3
      <4>1. 3 \in 1 .. 3
        OBVIOUS
      <4> QED
        BY <4>1, OffState DEF ClientState
    <3>2. client' = [client EXCEPT ![c] = s]
      BY <2>2
    <3> HIDE DEF s
    <3>3. client'[c] = s /\ OthersKept(c)
      BY <1>1, <3>1, <3>2, OneClient DEF OthersKept
    <3> QED
      BY <3>1, <3>3 DEF Opened
  <2>3. CASE client' = [client EXCEPT ![c] = [Off EXCEPT !.pc = "running"]]
    <3>1. client'[c].pc = "running" /\ OthersKept(c)
      BY <1>1, <2>3, RunningState, OneClient DEF OthersKept
    <3> QED
      BY <3>1 DEF Opened
  <2>4. CASE Ends(c)
    <3>1. client'[c].pc = "off"
      BY <1>1, <2>4 DEF Ends, Off
    <3>2. OthersKept(c)
      BY <1>1, <2>4, EndsKept DEF SettingsKept, OthersKept
    <3> QED
      BY <3>1, <3>2 DEF Opened
  <2> QED
    BY <2>1, <2>2, <2>3, <2>4 DEF Receives
<1> QED
  BY <1>1, <1>2, <1>3, LeavesInv

LEMMA SyncroInv ==
  ASSUME IInv, StoreOk, NEW c \in Client, Syncro(c)
  PROVE  IInv'
<1> DEFINE s == [client[c] EXCEPT !.type = 2, !.pc = "username"]
<1>1. /\ client \in [Client -> ClientState] /\ client[c] \in ClientState
      /\ config \in Config \cup {Broken, Missing} /\ UNCHANGED config
      /\ UNCHANGED <<conn, service, server>> /\ client[c].pc = "running" /\ OwnInv(c)
  BY DEF IInv, TypeOK, Syncro
<1>2. s \in ClientState /\ s.pc = "username" /\ s.type = 2
  <2>1. 2 \in 1 .. 3
    OBVIOUS
  <2> QED
    BY <1>1, <2>1 DEF ClientState
<1>3. client' = [client EXCEPT ![c] = s]
  BY <1>1 DEF Syncro
<1>4. client'[c] = s /\ OthersKept(c)
  <2> HIDE DEF s
  <2> QED
    BY <1>1, <1>2, <1>3, OneClient DEF OthersKept
<1>5. OwnInv(c)'
  BY <1>1, <1>2, <1>4 DEF OwnInv, Opened
<1> QED
  BY <1>1, <1>4, <1>5, StaysInv

LEMMA KilledInv ==
  ASSUME IInv, StoreOk, NEW c \in Client, Killed(c)
  PROVE  IInv'
<1>1. /\ Ends(c) /\ UNCHANGED <<config, service, server>>
      /\ client'[c].pc = "off"
  BY DEF IInv, TypeOK, Killed, Ends, Off
<1>2. SettingsKept(c)
  BY <1>1, EndsKept
<1>3. CASE conn[c].gone = "no"
  <2>1. conn' = ClosedByClient(c, "lost") /\ OthersKept(c) /\ ~Opened(c)'
    BY <1>1, <1>2, <1>3 DEF Killed, SettingsKept, OthersKept, Opened
  <2> QED
    BY <1>1, <2>1, LeavesInv
<1>4. CASE conn[c].gone # "no"
  <2>1. UNCHANGED conn
    BY <1>4 DEF Killed
  <2> QED
    BY <1>1, <1>2, <1>4, <2>1, MovesInv
<1> QED
  BY <1>3, <1>4

-----------------------------------------------------------------------------
(* The steps of the server.                                                 *)

ServerType ==
    /\ conn' \in [End -> Connection]
    /\ service' \in [End -> {"none", "read", "refuse", "handle", "create"}]
    /\ up' \in BOOLEAN /\ stop' \in BOOLEAN
    /\ mainPc' \in {"loop", "connect", "join"}
    /\ accPc' \in {"test", "accept", "spawn", "ended"}
    /\ accepted' \in End

(* What OwnInv reads of a connection; a forgotten one reads as closed.      *)
Owned(e) ==
  LET c == conn[e] d == conn'[e] IN e # Main =>
    /\ c.at # "none" /\ c.gone = "no" => d.at # "none" /\ d.gone = "no" /\ d.sent = c.sent
    /\ d.at # "none" /\ d.gone = "no" => c.at # "none" /\ c.gone = "no"

(* A step of the server preserves the invariant if no client sees more of   *)
(* it than an answer or the end of the connection.                          *)
LEMMA ServerStepInv ==
  ASSUME IInv, StoreOk, UNCHANGED settings, ServerType,
         \A e \in End : ConnInv(e)' /\ ServiceInv(e)' /\ Owned(e),
         AcceptorInv', MainInv'
  PROVE  IInv'
<1>1. TypeOK'
  BY DEF IInv, TypeOK, settings, ServerType, ClientState, StoreOk
<1>2. ASSUME NEW c \in Client PROVE OptionInv(c)' /\ OwnInv(c)'
  <2>1. OptionInv(c) /\ OwnInv(c) /\ Owned(c)
    BY EndMembers DEF IInv
  <2>2. OptionInv(c)'
    BY <2>1 DEF OptionInv, settings
  <2>3. OwnInv(c)'
    BY <2>1, EndMembers DEF OwnInv, Opened, Owned, settings
  <2> QED
    BY <2>2, <2>3
<1> QED
  BY <1>1, <1>2 DEF IInv

(* Closing a connection that no Service has any more.                       *)
LEMMA ClosedOk ==
  ASSUME IInv, NEW e \in End, conn'[e] = ClosedByServer(e), conn[e].at # "none",
         service'[e] = "none"
  PROVE  /\ conn'[e] \in Connection /\ conn'[e].at # "queued"
         /\ ConnInv(e)' /\ ServiceInv(e)' /\ Owned(e)
         /\ conn'[e].at # "none" => conn'[e].gone = "no"
<1>1. conn[e] \in Connection /\ ConnInv(e)
  BY DEF IInv, TypeOK
<1>2. CASE conn[e].gone # "no"
  <2>1. conn'[e] = NoConnection
    BY <1>2 DEF ClosedByServer
  <2> QED
    BY <1>1, <1>2, <2>1, NoConnectionType DEF ConnInv, ServiceInv, Owned, NoConnection
<1>3. CASE conn[e].gone = "no"
  <2>1. conn'[e] = [conn[e] EXCEPT !.at = "served", !.shut = TRUE]
    BY <1>3 DEF ClosedByServer
  <2>2. /\ conn'[e] \in Connection /\ conn'[e].at = "served" /\ conn'[e].shut
        /\ conn'[e].sent = conn[e].sent /\ conn'[e].gone = conn[e].gone
        /\ conn'[e].answer = conn[e].answer
    BY <1>1, <2>1 DEF Connection
  <2> QED
    BY <1>1, <1>3, <2>2 DEF ConnInv, ServiceInv, Owned, Right
<1> QED
  BY <1>2, <1>3

LEMMA ServerEndsInv ==
  ASSUME IInv, StoreOk, ServerEnds
  PROVE  IInv'
<1> USE DEF ServerEnds
<1>1. conn \in [End -> Connection] /\ Main \in End
  BY EndMembers DEF IInv, TypeOK
<1>2. ASSUME NEW e \in End
      PROVE  /\ conn'[e] \in Connection
             /\ ConnInv(e)' /\ ServiceInv(e)' /\ Owned(e)
  <2>0. service'[e] = "none"
    OBVIOUS
  <2>1. CASE conn[e].at = "none"
    <3>1. conn'[e] = NoConnection
      BY <2>1
    <3> QED
      BY <2>0, <2>1, <3>1, NoConnectionType DEF ConnInv, ServiceInv, Owned, NoConnection, Unsent
  <2>2. CASE conn[e].at # "none" /\ e # Main
    <3>1. conn'[e] = ClosedByServer(e)
      BY <2>2
    <3> QED
      BY <2>0, <2>2, <3>1, ClosedOk
  <2>3. CASE conn[e].at # "none" /\ e = Main
    <3>1. conn'[e] = NoConnection
      BY <2>3
    <3> QED
      BY <2>0, <2>3, <3>1, NoConnectionType DEF ConnInv, ServiceInv, Owned, NoConnection, Unsent
  <2> QED
    BY <2>1, <2>2, <2>3
<1>3. ServerType
  BY <1>1, <1>2 DEF ServerType
<1>4. AcceptorInv' /\ MainInv'
  BY <1>1 DEF AcceptorInv, MainInv, NoConnection
<1> QED
  BY <1>2, <1>3, <1>4, ServerStepInv

LEMMA ServerStartsInv ==
  ASSUME IInv, StoreOk, ServerStarts
  PROVE  IInv'
<1> USE DEF ServerStarts
<1>1. TypeOK /\ AcceptorInv /\ MainInv
  BY DEF IInv
<1>2. ASSUME NEW e \in End PROVE ConnInv(e)' /\ ServiceInv(e)' /\ Owned(e)
  BY DEF IInv, ConnInv, ServiceInv, Owned, Right
<1>3. ServerType /\ AcceptorInv' /\ MainInv'
  BY <1>1 DEF TypeOK, ServerType, AcceptorInv, MainInv
<1> QED
  BY <1>2, <1>3, ServerStepInv

LEMMA AcceptorTestsInv ==
  ASSUME IInv, StoreOk, AcceptorTests
  PROVE  IInv'
<1> USE DEF AcceptorTests
<1>1. TypeOK /\ AcceptorInv /\ MainInv
  BY DEF IInv
<1>2. ASSUME NEW e \in End
      PROVE  conn'[e] \in Connection /\ ConnInv(e)' /\ ServiceInv(e)' /\ Owned(e)
  <2>1. ConnInv(e) /\ ServiceInv(e) /\ conn[e] \in Connection
    BY <1>1 DEF IInv, TypeOK
  <2>2. CASE stop /\ conn[e].at = "queued"
    <3>1. conn'[e] = ClosedByServer(e) /\ service'[e] = "none"
      BY <2>1, <2>2 DEF ServiceInv
    <3> QED
      BY <2>2, <3>1, ClosedOk
  <2>3. CASE ~(stop /\ conn[e].at = "queued")
    <3>1. conn'[e] = conn[e] /\ service'[e] = service[e] /\ up' = up
      BY <2>3
    <3> QED
      BY <2>1, <3>1 DEF ConnInv, ServiceInv, Owned, Right
  <2> QED
    BY <2>2, <2>3
<1>3. ServerType
  BY <1>1, <1>2 DEF TypeOK, ServerType
<1>4. MainInv'
  <2>1. conn[Main].at = "none" => conn'[Main].at = "none"
    BY EndMembers
  <2> QED
    BY <1>1, <2>1 DEF MainInv
<1> QED
  BY <1>2, <1>3, <1>4, ServerStepInv DEF AcceptorInv

LEMMA AcceptsInv ==
  ASSUME IInv, StoreOk, NEW e \in End, Accepts(e)
  PROVE  IInv'
<1> USE DEF Accepts
<1>1. /\ TypeOK /\ MainInv /\ conn[e] \in Connection /\ ConnInv(e) /\ ServiceInv(e)
      /\ conn \in [End -> Connection]
  BY DEF IInv, TypeOK
<1>2. /\ conn'[e] \in Connection /\ conn'[e].at = "served" /\ conn'[e].shut = conn[e].shut
      /\ conn'[e].sent = conn[e].sent /\ conn'[e].gone = conn[e].gone
      /\ conn'[e].answer = conn[e].answer
  <2>1. conn'[e] = [conn[e] EXCEPT !.at = "served"]
    BY <1>1
  <2> QED
    BY <1>1, <2>1 DEF Connection
<1>3. ASSUME NEW d \in End PROVE ConnInv(d)' /\ ServiceInv(d)' /\ Owned(d)
  <2>1. CASE d = e
    BY <1>1, <1>2, <2>1 DEF ConnInv, ServiceInv, Owned, Right
  <2>2. CASE d # e
    <3>1. conn'[d] = conn[d] /\ service'[d] = service[d] /\ up' = up
      BY <1>1, <2>2
    <3> QED
      BY <3>1 DEF IInv, ConnInv, ServiceInv, Owned, Right
  <2> QED
    BY <2>1, <2>2
<1>4. ServerType
  BY <1>1, <1>2 DEF TypeOK, ServerType
<1>5. AcceptorInv'
  BY <1>1, <1>2 DEF AcceptorInv, ConnInv, ServiceInv, MainInv
<1>6. MainInv'
  BY <1>1, <1>2 DEF MainInv
<1> QED
  BY <1>3, <1>4, <1>5, <1>6, ServerStepInv

LEMMA SpawnsInv ==
  ASSUME IInv, StoreOk, Spawns
  PROVE  IInv'
<1> USE DEF Spawns
<1>1. /\ TypeOK /\ MainInv /\ AcceptorInv /\ accepted \in End
      /\ conn \in [End -> Connection]
      /\ service \in [End -> {"none", "read", "refuse", "handle", "create"}]
  BY DEF IInv, TypeOK
<1>2. conn[accepted].at = "served" /\ ~conn[accepted].shut /\ service[accepted] = "none"
  BY <1>1 DEF AcceptorInv
<1>3. ASSUME NEW d \in End, d # accepted PROVE ConnInv(d)' /\ ServiceInv(d)' /\ Owned(d)
  <2>1. conn'[d] = conn[d] /\ service'[d] = service[d] /\ up' = up
    BY <1>1, <1>3
  <2> QED
    BY <2>1 DEF IInv, ConnInv, ServiceInv, Owned, Right
<1>4. CASE stop
  <2>1. conn'[accepted] = ClosedByServer(accepted) /\ service'[accepted] = "none"
    BY <1>1, <1>2, <1>4
  <2>2. /\ conn'[accepted] \in Connection
        /\ ConnInv(accepted)' /\ ServiceInv(accepted)' /\ Owned(accepted)
    BY <1>1, <1>2, <2>1, ClosedOk DEF ConnInv, ServiceInv, Owned
  <2>3. \A d \in End : ConnInv(d)' /\ ServiceInv(d)' /\ Owned(d)
    BY <1>3, <2>2 DEF ConnInv, ServiceInv, Owned
  <2>4. ServerType
    BY <1>1, <1>4, <2>2 DEF TypeOK, ServerType
  <2>5. MainInv'
    <3>1. accepted # Main => conn'[Main] = conn[Main]
      BY <1>1, <1>4, EndMembers
    <3>2. accepted = Main => conn[Main].at # "none"
      BY <1>2
    <3> QED
      BY <1>1, <1>4, <3>1, <3>2 DEF MainInv
  <2> QED
    BY <2>3, <2>4, <2>5, ServerStepInv DEF AcceptorInv
<1>5. CASE ~stop
  <2>1. conn' = conn /\ service'[accepted] = "read" /\ accepted # Main
    BY <1>1, <1>2, <1>5 DEF AcceptorInv
  <2>2. ASSUME NEW d \in End PROVE ConnInv(d)' /\ ServiceInv(d)' /\ Owned(d)
    <3>1. CASE d = accepted
      BY <1>1, <1>2, <2>1, <3>1 DEF IInv, ConnInv, ServiceInv, Owned, Right
    <3> QED
      BY <1>3, <3>1
  <2>3. ServerType
    BY <1>1, <1>5, <2>1 DEF TypeOK, ServerType
  <2>4. MainInv'
    BY <1>1, <1>5, <2>1, EndMembers DEF MainInv
  <2> QED
    BY <2>2, <2>3, <2>4, ServerStepInv DEF AcceptorInv
<1> QED
  BY <1>4, <1>5

(* A step of one Service that is not the last of the server.                *)
LEMMA ServesInv ==
  ASSUME IInv, StoreOk, NEW e \in End, service[e] # "none", UNCHANGED <<settings, server>>,
         conn' \in [End -> Connection],
         service' \in [End -> {"none", "read", "refuse", "handle", "create"}],
         \A d \in End \ {e} : conn'[d] = conn[d] /\ service'[d] = service[d],
         ConnInv(e)', ServiceInv(e)', Owned(e)
  PROVE  IInv'
<1> USE DEF server
<1>1. TypeOK /\ MainInv /\ AcceptorInv /\ accepted \in End
  BY DEF IInv, TypeOK
<1>2. e # Main
  BY <1>1 DEF MainInv
<1>3. ASSUME NEW d \in End PROVE ConnInv(d)' /\ ServiceInv(d)' /\ Owned(d)
  <2>1. CASE d # e
    <3>1. conn'[d] = conn[d] /\ service'[d] = service[d] /\ up' = up
      BY <2>1
    <3> QED
      BY <3>1 DEF IInv, ConnInv, ServiceInv, Owned, Right
  <2> QED
    BY <2>1
<1>4. ServerType
  BY <1>1 DEF TypeOK, ServerType
<1>5. AcceptorInv'
  BY <1>1 DEF AcceptorInv
<1>6. MainInv'
  BY <1>1, <1>2, EndMembers DEF MainInv
<1> QED
  BY <1>3, <1>4, <1>5, <1>6, ServerStepInv

(* What IInv says of the Service that takes a step.                         *)
LEMMA Served ==
  ASSUME IInv, NEW e \in End, service[e] # "none"
  PROVE  /\ conn \in [End -> Connection] /\ conn[e] \in Connection
         /\ service \in [End -> {"none", "read", "refuse", "handle", "create"}]
         /\ conn[e].at = "served" /\ ConnInv(e) /\ ServiceInv(e) /\ up
  BY DEF IInv, TypeOK, ServiceInv

(* The Service ends on a connection on which it may have answered.          *)
LEMMA ServiceEndsInv ==
  ASSUME IInv, StoreOk, NEW e \in End, service[e] # "none", NEW c \in Connection,
         ServiceEnds(e, c), UNCHANGED <<settings, server>>,
         c.at = "served", c.sent = conn[e].sent, c.gone = conn[e].gone,
         c.sent = Unsent => c.answer = "nothing",
         c.answer = "true" => Right(c.sent)
  PROVE  IInv'
<1>1. /\ conn \in [End -> Connection] /\ conn[e].at = "served"
      /\ service \in [End -> {"none", "read", "refuse", "handle", "create"}]
  BY Served
<1>2. /\ service'[e] = "none"
      /\ \A d \in End \ {e} : conn'[d] = conn[d] /\ service'[d] = service[d]
      /\ service' \in [End -> {"none", "read", "refuse", "handle", "create"}]
  BY <1>1 DEF ServiceEnds
<1>3. CASE c.gone # "no"
  <2>1. conn'[e] = NoConnection
    BY <1>1, <1>3 DEF ServiceEnds
  <2>2. conn' \in [End -> Connection]
    BY <1>1, <1>3, NoConnectionType DEF ServiceEnds
  <2>3. ConnInv(e)' /\ ServiceInv(e)' /\ Owned(e)
    BY <1>2, <1>3, <2>1 DEF ConnInv, ServiceInv, Owned, NoConnection, Unsent
  <2> QED
    BY <1>2, <2>2, <2>3, ServesInv
<1>4. CASE c.gone = "no"
  <2>1. conn' = [conn EXCEPT ![e] = [c EXCEPT !.shut = TRUE]]
    BY <1>4 DEF ServiceEnds
  <2>2. /\ conn'[e] \in Connection /\ conn'[e].at = "served" /\ conn'[e].shut
        /\ conn'[e].sent = c.sent /\ conn'[e].gone = c.gone /\ conn'[e].answer = c.answer
    BY <1>1, <2>1 DEF Connection
  <2>3. conn' \in [End -> Connection]
    BY <1>1, <2>1, <2>2
  <2>4. ConnInv(e)' /\ ServiceInv(e)' /\ Owned(e)
    BY <1>1, <1>2, <1>4, <2>2 DEF ConnInv, ServiceInv, Owned, Right
  <2> QED
    BY <1>2, <2>3, <2>4, ServesInv
<1> QED
  BY <1>3, <1>4

LEMMA ServiceReadsInv ==
  ASSUME IInv, StoreOk, NEW e \in End, ServiceReads(e)
  PROVE  IInv'
<1> DEFINE pc == IF <<conn[e].sent[2], conn[e].sent[3]>> \in Account
                   THEN "handle" ELSE "refuse"
<1>1. service[e] = "read" /\ conn[e].sent # Unsent /\ UNCHANGED <<settings, server, conn>>
  BY DEF ServiceReads, Serves
<1>2. /\ conn \in [End -> Connection] /\ conn[e].at = "served" /\ ConnInv(e)
      /\ service \in [End -> {"none", "read", "refuse", "handle", "create"}] /\ up
      /\ ~conn[e].shut
  BY <1>1, Served DEF ServiceInv
<1>3. /\ service' = [service EXCEPT ![e] = pc] /\ pc \in {"handle", "refuse"}
      /\ pc = "handle" => Right(conn[e].sent)
  BY DEF ServiceReads, Serves, Right
<1> HIDE DEF pc
<1>4. /\ service'[e] = pc
      /\ \A d \in End \ {e} : conn'[d] = conn[d] /\ service'[d] = service[d]
      /\ service' \in [End -> {"none", "read", "refuse", "handle", "create"}]
  BY <1>1, <1>2, <1>3
<1>5. ConnInv(e)' /\ ServiceInv(e)' /\ Owned(e)
  BY <1>1, <1>2, <1>3, <1>4 DEF ConnInv, ServiceInv, Owned, Right, server
<1> QED
  BY <1>1, <1>2, <1>4, <1>5, ServesInv

LEMMA ServiceReadFailsInv ==
  ASSUME IInv, StoreOk, NEW e \in End, ServiceReadFails(e)
  PROVE  IInv'
<1>1. CASE ServerEnds
  BY <1>1, ServerEndsInv
<1>2. CASE ServiceEnds(e, conn[e]) /\ UNCHANGED <<settings, server>>
  <2>1. service[e] # "none"
    BY DEF ServiceReadFails
  <2>2. conn[e] \in Connection /\ conn[e].at = "served" /\ ConnInv(e)
    BY <2>1, Served
  <2> QED
    BY <1>2, <2>1, <2>2, ServiceEndsInv DEF ConnInv
<1> QED
  BY <1>1, <1>2 DEF ServiceReadFails

LEMMA ServiceRefusesInv ==
  ASSUME IInv, StoreOk, NEW e \in End, ServiceRefuses(e)
  PROVE  IInv'
<1>1. CASE ServerEnds
  BY <1>1, ServerEndsInv
<1>2. CASE /\ conn' = [conn EXCEPT ![e].answer = "false", ![e].shut = TRUE]
           /\ service' = [service EXCEPT ![e] = "handle"]
           /\ UNCHANGED <<settings, server>>
  <2>1. service[e] = "refuse"
    BY DEF ServiceRefuses
  <2>2. /\ conn \in [End -> Connection] /\ conn[e] \in Connection
        /\ service \in [End -> {"none", "read", "refuse", "handle", "create"}]
        /\ conn[e].at = "served" /\ ConnInv(e) /\ up /\ conn[e].sent # Unsent
    BY <2>1, Served DEF ServiceInv
  <2>3. /\ conn'[e] \in Connection /\ conn'[e].at = "served" /\ conn'[e].shut
        /\ conn'[e].sent = conn[e].sent /\ conn'[e].gone = conn[e].gone
        /\ conn'[e].answer = "false" /\ service'[e] = "handle"
    BY <1>2, <2>2 DEF Connection
  <2>4. /\ conn' \in [End -> Connection]
        /\ \A d \in End \ {e} : conn'[d] = conn[d] /\ service'[d] = service[d]
        /\ service' \in [End -> {"none", "read", "refuse", "handle", "create"}]
    BY <1>2, <2>2, <2>3
  <2>5. ConnInv(e)' /\ ServiceInv(e)' /\ Owned(e)
    BY <1>2, <2>2, <2>3 DEF ConnInv, ServiceInv, Owned, Right, server
  <2> QED
    BY <1>2, <2>1, <2>4, <2>5, ServesInv
<1> QED
  BY <1>1, <1>2 DEF ServiceRefuses

LEMMA ServiceAnswersInv ==
  ASSUME IInv, StoreOk, NEW e \in End, ServiceAnswers(e)
  PROVE  IInv'
<1> DEFINE answer == AnswerTo(conn[e].sent)
           c == [conn[e] EXCEPT !.answer = answer]
<1>1. CASE ServerEnds
  BY <1>1, ServerEndsInv
<1>2. CASE ~conn[e].shut /\ ServiceEnds(e, c) /\ UNCHANGED <<settings, server>>
  <2>1. service[e] = "handle"
    BY DEF ServiceAnswers
  <2>2. /\ conn[e] \in Connection /\ conn[e].at = "served" /\ conn[e].sent # Unsent
        /\ Right(conn[e].sent)
    BY <1>2, <2>1, Served DEF ServiceInv
  <2>3. answer \in {"true", "tree", "empty"}
    BY DEF AnswerTo
  <2>4. /\ c \in Connection /\ c.at = "served" /\ c.sent = conn[e].sent
        /\ c.gone = conn[e].gone
    <3> HIDE DEF answer
    <3> QED
      BY <2>2, <2>3 DEF Connection
  <2> HIDE DEF c
  <2> QED
    BY <1>2, <2>1, <2>2, <2>4, ServiceEndsInv
<1> QED
  BY <1>1, <1>2 DEF ServiceAnswers

(* A Service that ends without an answer.                                   *)
LEMMA QuietlyInv ==
  ASSUME IInv, StoreOk, NEW e \in End, service[e] # "none",
         ServiceEnds(e, conn[e]), UNCHANGED <<settings, server>>
  PROVE  IInv'
<1>1. conn[e] \in Connection /\ conn[e].at = "served" /\ ConnInv(e)
  BY Served
<1> QED
  BY <1>1, ServiceEndsInv DEF ConnInv

LEMMA ServiceRemovesInv ==
  ASSUME IInv, StoreOk, NEW e \in End, ServiceRemoves(e) \/ ServiceThrows(e)
  PROVE  IInv'
<1>1. service[e] # "none"
  BY DEF ServiceRemoves, ServiceThrows
<1>2. CASE ServerEnds
  BY <1>2, ServerEndsInv
<1>3. CASE ServiceEnds(e, conn[e]) /\ UNCHANGED <<settings, server>>
  BY <1>1, <1>3, QuietlyInv
<1> QED
  BY <1>2, <1>3 DEF ServiceRemoves, ServiceThrows

(* The two steps of message 2 that make the table.                          *)
LEMMA ServiceCreatesInv ==
  ASSUME IInv, StoreOk, NEW e \in End, ServiceCreatesFolder(e) \/ ServiceCreatesTable(e)
  PROVE  IInv'
<1>1. PICK pc \in {"create", "handle"} :
          service' = [service EXCEPT ![e] = pc] /\ UNCHANGED <<settings, server, conn>>
  BY DEF ServiceCreatesFolder, ServiceCreatesTable, Serves
<1>2. service[e] \in {"create", "handle"}
  BY DEF ServiceCreatesFolder, ServiceCreatesTable
<1>3. /\ conn \in [End -> Connection] /\ conn[e].at = "served" /\ ConnInv(e) /\ up
      /\ service \in [End -> {"none", "read", "refuse", "handle", "create"}]
      /\ ServiceInv(e)
  BY <1>2, Served
<1>4. /\ service'[e] = pc
      /\ \A d \in End \ {e} : conn'[d] = conn[d] /\ service'[d] = service[d]
      /\ service' \in [End -> {"none", "read", "refuse", "handle", "create"}]
  BY <1>1, <1>3
<1>5. ConnInv(e)' /\ ServiceInv(e)' /\ Owned(e)
  BY <1>1, <1>2, <1>3, <1>4 DEF ConnInv, ServiceInv, Owned, Right, server
<1> QED
  BY <1>1, <1>2, <1>3, <1>4, <1>5, ServesInv

LEMMA UploadInv ==
  ASSUME IInv, StoreOk, NEW u \in User, UploadLeavesFile(u) \/ UploadInserts(u)
  PROVE  IInv'
<1>1. CASE UploadInserts(u)
  BY <1>1, ServerEndsInv DEF UploadInserts
<1>2. CASE UploadLeavesFile(u)
  BY <1>2 DEF UploadLeavesFile, settings, server, StoreOk, IInv, TypeOK, OptionInv, OwnInv,
     Opened, ConnInv, ServiceInv, AcceptorInv, MainInv, Right, ClientState
<1> QED
  BY <1>1, <1>2

LEMMA SignalInv ==
  ASSUME IInv, StoreOk, Signal
  PROVE  IInv'
<1> USE DEF Signal
<1>1. TypeOK /\ AcceptorInv /\ MainInv
  BY DEF IInv
<1>2. ASSUME NEW e \in End PROVE ConnInv(e)' /\ ServiceInv(e)' /\ Owned(e)
  BY DEF IInv, ConnInv, ServiceInv, Owned, Right
<1>3. ServerType /\ AcceptorInv' /\ MainInv'
  BY <1>1 DEF TypeOK, ServerType, AcceptorInv, MainInv
<1> QED
  BY <1>2, <1>3, ServerStepInv

LEMMA MainStepInv ==
  ASSUME IInv, StoreOk, MainStep
  PROVE  IInv'
<1>1. CASE ServerEnds
  BY <1>1, ServerEndsInv
<1>2. CASE /\ mainPc = "connect" /\ mainPc' = "join"
           /\ conn' = [conn EXCEPT ![Main].at = "queued", ![Main].gone = "closed"]
           /\ UNCHANGED <<settings, service, up, stop, accPc, accepted>>
  <2>1. /\ TypeOK /\ AcceptorInv /\ MainInv /\ conn \in [End -> Connection] /\ Main \in End
        /\ conn[Main] = NoConnection /\ stop
    BY <1>2, EndMembers DEF IInv, TypeOK, MainInv, ConnInv
  <2>2. /\ conn'[Main] = [NoConnection EXCEPT !.at = "queued", !.gone = "closed"]
        /\ conn'[Main] \in Connection
    BY <1>2, <2>1, NoConnectionType DEF Connection
  <2>3. ASSUME NEW d \in End PROVE ConnInv(d)' /\ ServiceInv(d)' /\ Owned(d)
    <3>1. CASE d = Main
      BY <1>2, <2>1, <2>2, <3>1 DEF MainInv, ConnInv, ServiceInv, Owned, NoConnection
    <3>2. CASE d # Main
      <4>1. conn'[d] = conn[d] /\ service'[d] = service[d] /\ up' = up
        BY <1>2, <2>1, <3>2
      <4> QED
        BY <4>1 DEF IInv, ConnInv, ServiceInv, Owned, Right
    <3> QED
      BY <3>1, <3>2
  <2>4. ServerType
    BY <1>2, <2>1, <2>2 DEF TypeOK, ServerType
  <2>5. AcceptorInv'
    <3>1. up /\ accPc = "spawn" => accepted # Main
      BY <2>1 DEF AcceptorInv, NoConnection
    <3>2. accepted # Main => conn'[accepted] = conn[accepted]
      BY <1>2, <2>1 DEF TypeOK
    <3> QED
      BY <1>2, <2>1, <3>1, <3>2 DEF AcceptorInv
  <2>6. MainInv'
    BY <1>2, <2>1 DEF MainInv
  <2> QED
    BY <1>2, <2>3, <2>4, <2>5, <2>6, ServerStepInv
<1> QED
  BY <1>1, <1>2 DEF MainStep, MainConnects, MainReturns

-----------------------------------------------------------------------------
(* The theorems.                                                            *)

LEMMA StoreTyped ==
  ASSUME IInv, Next
  PROVE  StoreOk
<1>1. store \in [User -> Stored]
  BY DEF IInv, TypeOK
<1>2. ServerEnds => store' = store
  BY DEF ServerEnds
<1>3. CASE \E c \in Client : ClientStarts(c) \/ ClientStep(c) \/ Syncro(c) \/ Killed(c)
  <2>1. ASSUME NEW c \in Client, Receives(c), store' # store
        PROVE  store' = Told(client[c].username)
    BY <2>1 DEF Receives
  <2>2. ASSUME NEW v PROVE Told(v) \in [User -> Stored]
    BY <1>1 DEF Told, Stored
  <2> QED
    BY <1>1, <1>3, <2>1, <2>2 DEF ClientStarts, ClientStep, ClientReads, Connects,
       ConnectFails, Sends, SendFails, Syncro, Killed, StoreOk
<1>4. CASE ServerStarts \/ Signal \/ MainStep
  BY <1>1, <1>2, <1>4 DEF ServerStarts, Signal, MainStep, MainConnects, MainReturns, StoreOk
<1>5. CASE AcceptorStep
  BY <1>1, <1>5 DEF AcceptorStep, AcceptorTests, Accepts, Spawns, StoreOk
<1>6. CASE \E e \in End : ServiceStep(e)
  <2>1. PICK e \in End : ServiceStep(e)
    BY <1>6
  <2>2. CASE ServiceCreatesFolder(e) \/ ServiceCreatesTable(e)
    <3>1. \E k \in Stored : store' = [store EXCEPT ![conn[e].sent[2]] = k]
      BY <2>2 DEF ServiceCreatesFolder, ServiceCreatesTable, Stored
    <3> QED
      BY <1>1, <3>1 DEF StoreOk
  <2> QED
    BY <1>1, <1>2, <2>1, <2>2 DEF ServiceStep, ServiceReads, ServiceAborts,
       ServiceReadFails, ServiceRefuses, ServiceAnswers, ServiceThrows, ServiceRemoves, StoreOk
<1>7. CASE \E u \in User : UploadLeavesFile(u) \/ UploadInserts(u)
  BY <1>1, <1>2, <1>7 DEF UploadLeavesFile, UploadInserts, Stored, StoreOk
<1> QED
  BY <1>3, <1>4, <1>5, <1>6, <1>7 DEF Next

LEMMA NextInv == IInv /\ [Next]_vars => IInv'
<1> SUFFICES ASSUME IInv, [Next]_vars PROVE IInv'
  OBVIOUS
<1>1. CASE UNCHANGED vars
  BY <1>1 DEF vars, settings, server, IInv, TypeOK, OptionInv, OwnInv, Opened, ConnInv,
     ServiceInv, AcceptorInv, MainInv, Right, ClientState
<1>2. CASE Next
  <2>0. StoreOk
    BY <1>2, StoreTyped
  <2>1. CASE \E c \in Client : ClientStarts(c) \/ ClientStep(c) \/ Syncro(c) \/ Killed(c)
    BY <2>0, <2>1, ClientStartsInv, ClientReadsInv, ConnectsInv, ConnectFailsInv, SendsInv,
       SendFailsInv, ReceivesInv, SyncroInv, KilledInv DEF ClientStep
  <2>2. CASE ServerStarts \/ Signal \/ MainStep
    BY <2>0, <2>2, ServerStartsInv, SignalInv, MainStepInv
  <2>3. CASE AcceptorStep
    BY <2>0, <2>3, AcceptorTestsInv, AcceptsInv, SpawnsInv DEF AcceptorStep
  <2>4. CASE \E e \in End : ServiceStep(e)
    <3>1. ASSUME NEW e \in End, ServiceAborts(e) PROVE IInv'
      BY <2>0, <3>1, ServerEndsInv DEF ServiceAborts
    <3> QED
      BY <2>0, <2>4, <3>1, ServiceReadsInv, ServiceReadFailsInv, ServiceRefusesInv,
         ServiceCreatesInv, ServiceAnswersInv, ServiceRemovesInv DEF ServiceStep
  <2>5. CASE \E u \in User : UploadLeavesFile(u) \/ UploadInserts(u)
    BY <2>0, <2>5, UploadInv
  <2> QED
    BY <1>2, <2>1, <2>2, <2>3, <2>4, <2>5 DEF Next
<1> QED
  BY <1>1, <1>2

(* What every reachable state satisfies: each connection belongs to the     *)
(* request its client has under way, the answer on it to the message that   *)
(* was sent, and no Service reads the message of Server::Stop.              *)
THEOREM Invariance == Spec => []IInv
  BY InitInv, NextInv, PTL DEF Spec

(* Type correctness.                                                        *)
THEOREM TypeCorrect == Spec => []TypeOK
<1>1. IInv => TypeOK
  BY DEF IInv
<1> QED
  BY <1>1, Invariance, PTL

(* The message 5 with which Server::Stop wakes accept never reaches a       *)
(* Service: whoever is accepted after stop_ was set is dropped.             *)
THEOREM StopMessageIsUnread == Spec => []StopMessageUnread
<1>1. IInv => StopMessageUnread
  BY DEF IInv, MainInv, StopMessageUnread
<1> QED
  BY <1>1, Invariance, PTL

(* Whoever goes on after Auth has sent the name and hash of an account: a   *)
(* refused message is answered "false", and what the switch does with it    *)
(* afterwards never reaches the client.                                     *)
THEOREM LoginIsRight == Spec => LoggedInIsRight
<1>1. ASSUME IInv, NEW c \in Client, Receives(c), client[c].type = 1, client'[c].type = 2
      PROVE  <<client[c].username, client[c].hash_password>> \in Account
  <2>1. client[c].pc = "wait" /\ OwnInv(c) /\ ConnInv(c) /\ client \in [Client -> ClientState]
    BY <1>1, EndMembers DEF Receives, IInv, TypeOK
  <2>2. conn[c].sent = <<1, client[c].username, client[c].hash_password>>
    BY <1>1, <2>1 DEF OwnInv
  <2>3. conn[c].answer = "true"
    <3>1. ~Ends(c)
      BY <1>1, <2>1 DEF Ends, Off
    <3> QED
      BY <1>1, <3>1 DEF Receives
  <2> QED
    BY <2>1, <2>2, <2>3 DEF ConnInv, Right
<1>2. IInv /\ [Next]_vars =>
        [\A c \in Client : Receives(c) /\ client[c].type = 1 /\ client'[c].type = 2 =>
            <<client[c].username, client[c].hash_password>> \in Account]_vars
  BY <1>1
<1> QED
  BY <1>2, Invariance, PTL DEF Spec, LoggedInIsRight

(* What a Service is about to meet that ends the server.                    *)
LEMMA ServiceFails ==
  ASSUME IInv, NEW e \in End, ServiceStep(e), up, ~up'
  PROVE  Failed(e) \/ Tableless(e)
<1>1. service[e] # "none"
  BY DEF ServiceStep, ServiceReads, ServiceAborts, ServiceReadFails, ServiceRefuses,
     ServiceCreatesFolder, ServiceCreatesTable, ServiceAnswers, ServiceThrows, ServiceRemoves
<1>2. /\ ConnInv(e) /\ ServiceInv(e) /\ conn[e].gone \in {"no", "closed", "lost"}
      /\ e # Main
  BY <1>1, Served DEF Connection, IInv, MainInv
<1>3. ~(ServiceReads(e) \/ ServiceCreatesFolder(e) \/ ServiceCreatesTable(e) \/ ServiceThrows(e))
  BY DEF ServiceReads, ServiceCreatesFolder, ServiceCreatesTable, ServiceThrows, server
<1>4. CASE ServiceAborts(e)
  BY <1>1, <1>2, <1>4 DEF ServiceAborts, Failed
<1>5. CASE ServiceReadFails(e) \/ ServiceRefuses(e)
  BY <1>1, <1>5 DEF ServiceReadFails, ServiceRefuses, Failed
<1>6. CASE ServiceAnswers(e)
  <2>1. service[e] = "handle" /\ conn[e].sent[1] \in {1, 2} /\ conn[e].sent # Unsent
    BY <1>2, <1>6 DEF ServiceAnswers, ServiceInv
  <2>2. conn[e].shut \/ conn[e].gone # "no" \/ ListsWithoutTable(e)
    BY <1>6 DEF ServiceAnswers, server
  <2>3. CASE conn[e].shut \/ conn[e].answer = "false"
    BY <1>2, <2>1, <2>3 DEF ServiceInv, Failed
  <2>4. CASE conn[e].gone = "lost"
    BY <2>4 DEF Failed
  <2>5. CASE conn[e].gone = "closed" /\ conn[e].answer # "false"
    BY <1>2, <2>1, <2>5 DEF ConnInv
  <2>6. CASE ListsWithoutTable(e)
    BY <2>1, <2>6 DEF ListsWithoutTable, Tableless
  <2> QED
    BY <1>2, <2>2, <2>3, <2>4, <2>5, <2>6
<1>7. CASE ServiceRemoves(e)
  <2>1. service[e] = "handle" /\ conn[e].sent[1] = 3 /\ conn[e].sent # Unsent
    BY <1>2, <1>7 DEF ServiceRemoves, ServiceInv
  <2>2. StoreOf(conn[e].sent) # "table"
    BY <1>7 DEF ServiceRemoves, server
  <2> QED
    BY <2>1, <2>2 DEF Tableless
<1> QED
  BY <1>3, <1>4, <1>5, <1>6, <1>7 DEF ServiceStep

(* The Service that ends the server is one whose client was refused, or     *)
(* lost, or has left without a word, or whose account has no table: neither *)
(* Auth nor Syncro nor a removal of any other client does.                  *)
THEOREM FailedEndServer == Spec => OnlyTheFailedEndServer
<1>1. IInv /\ [Next]_vars =>
        [up /\ ~up' => \A e \in End : ServiceStep(e) => Failed(e) \/ Tableless(e)]_vars
  BY ServiceFails
<1> QED
  BY <1>1, Invariance, PTL DEF Spec, OnlyTheFailedEndServer
=============================================================================
