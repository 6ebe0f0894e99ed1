------------------------------ MODULE Session -------------------------------
(***************************************************************************)
(* The control connections: the requests of client processes, and the      *)
(* server's process from its start to its stop - main, the loop that       *)
(* accepts, and a Service with a detached thread for each connection.      *)
(* What messages 2 and 3 do to the account is the matter of Store; here it *)
(* only matters whether the account has its folder and its table, without  *)
(* which the functions of Database end the process.  They are taken to     *)
(* fail for no other reason.                                               *)
(*                                                                         *)
(* A client process has one connection at a time, and starts another when  *)
(* the server is done with it (a bound).                                   *)
(***************************************************************************)
EXTENDS Settings

CONSTANTS
    Account,   \* the pairs of a user's name and hash in authDB
    Made,      \* the users who have their folder and table from the start
    Main       \* the connection of Server::Stop to the server itself

ASSUME AccountAssumption == Account \subseteq User \X Hash

ASSUME MadeAssumption == Made \subseteq User

ASSUME MainAssumption == Main \notin Client

VARIABLES
    conn,     \* the connections
    service,  \* where the Service of each connection is
    up,       \* the server's process runs
    stop,     \* Server::stop_
    mainPc,   \* the server's main
    accPc,    \* Server::Run and SpawnSession
    accepted, \* the connection accept has returned
    store     \* what the server has on disk for the account of each user

settings == <<config, client>>
server == <<up, stop, mainPc, accPc, accepted>>
vars == <<settings, conn, service, server, store>>

End == Client \cup {Main}

(* Type, Username, HashPassword.                                            *)
Message == (1 .. 3) \X (User \cup {Empty}) \X (Hash \cup {Empty})

Unsent == <<>>

(* at is where the connection is; sent is the message, once the client has  *)
(* sent it and shut down its send side; gone, whether the client has closed *)
(* it, or is lost with all it has not said.  answer is what the server      *)
(* wrote, shut whether the server has shut down its send side, or closed    *)
(* the connection.                                                          *)
Connection ==
    [at : {"none", "queued", "served"}, sent : Message \cup {Unsent},
     gone : {"no", "closed", "lost"},
     answer : {"nothing", "true", "false", "tree", "empty"}, shut : BOOLEAN]

NoConnection == [at |-> "none", sent |-> Unsent, gone |-> "no",
                 answer |-> "nothing", shut |-> FALSE]

(* Nothing; a folder without a table; the same once a client has been told  *)
(* that it is empty; the same with a file in it; or folder and table.       *)
Stored == {"none", "folder", "told", "file", "table"}

Init ==
    /\ SettingsInit
    /\ store = [u \in User |-> IF u \in Made THEN "table" ELSE "none"]
    /\ conn = [e \in End |-> NoConnection]
    /\ service = [e \in End |-> "none"]
    /\ up = TRUE
    /\ stop = FALSE
    /\ mainPc = "loop"
    /\ accPc = "test"
    /\ accepted = Main

-----------------------------------------------------------------------------
(* The connections.                                                         *)

(* The acceptor is open: it belongs to Run.                                 *)
Listening == up /\ accPc # "ended"

Forgotten(e) == [conn EXCEPT ![e] = NoConnection]

(* The client's side is closed; nothing is left if the server's is, too.    *)
ClosedByClient(e, how) ==
    IF conn[e].at = "none" \/ (conn[e].shut /\ service[e] = "none") THEN Forgotten(e)
    ELSE [conn EXCEPT ![e].gone = how]

(* The server's side is closed.                                             *)
ClosedByServer(e) ==
    IF conn[e].gone # "no" THEN NoConnection ELSE [conn[e] EXCEPT !.at = "served", !.shut = TRUE]

-----------------------------------------------------------------------------
(* The client.                                                              *)

(* A process that ends closes its connection.                               *)
ClientReads(c) ==
    /\ SettingsStep(c)
    /\ conn' = IF client'[c].pc = "off" /\ conn[c].at # "none" /\ conn[c].gone = "no"
                 THEN ClosedByClient(c, "closed") ELSE conn
    /\ UNCHANGED <<service, server, store>>

ClientStarts(c) ==
    /\ Start(c)
    /\ UNCHANGED <<conn, service, server, store>>

Connects(c) ==
    /\ client[c].pc = "connect"
    /\ Listening
    /\ conn[c].at = "none"
    /\ conn' = [conn EXCEPT ![c].at = "queued"]
    /\ client' = [client EXCEPT ![c].tries = Tries,
                    ![c].pc = IF client[c].type = 1 THEN "username" ELSE "send"]
    /\ UNCHANGED <<config, service, server, store>>

(* A bug: n_tries is tested before it is decremented.                       *)
ConnectFailsOnceMore(c) ==
    /\ client[c].pc = "connect"
    /\ ~Listening
    /\ client' = [client EXCEPT ![c].tries = @ - 1]
    /\ UNCHANGED <<config, conn, service, server, store>>

(* ConnectServer gives up after Tries.                                      *)
ConnectFails(c) ==
    /\ client[c].pc = "connect"
    /\ ~Listening
    /\ IF client[c].tries = 1 THEN Ends(c)
                              ELSE client' = [client EXCEPT ![c].tries = @ - 1]
    /\ UNCHANGED <<config, conn, service, server, store>>

(* SyncWriteCM.  Nobody answers message 3: SendRemoval returns, and its     *)
(* socket is closed.                                                        *)
Sends(c) ==
    /\ client[c].pc = "send"
    /\ LET message == <<client[c].type, client[c].username, client[c].hash_password>>
       IN  IF client[c].type = 3
             THEN /\ client' = [client EXCEPT ![c] = [Off EXCEPT !.pc = "running"]]
                  /\ conn' = IF conn[c].shut THEN Forgotten(c)
                             ELSE [conn EXCEPT ![c].sent = message, ![c].gone = "closed"]
             ELSE /\ Goes(c, "wait")
                  /\ conn' = [conn EXCEPT ![c].sent = message]
    /\ UNCHANGED <<config, service, server, store>>

(* The server has closed the connection: to write to it, or to shut it down,*)
(* may fail, and ends the client.                                           *)
SendFails(c) ==
    /\ client[c].pc = "send"
    /\ conn[c].shut
    /\ Ends(c)
    /\ conn' = Forgotten(c)
    /\ UNCHANGED <<config, service, server, store>>

(* The tree that lists nothing comes from a folder that may have no table.  *)
Told(u) == IF u \in User /\ store[u] = "folder" THEN [store EXCEPT ![u] = "told"] ELSE store

(* SyncReadCM, at the end of file.  After Auth comes the first Syncro; a    *)
(* tree with files may be followed by message 3.  Any other answer, or      *)
(* none, ends the client.                                                   *)
Receives(c) ==
    /\ client[c].pc = "wait"
    /\ conn[c].shut
    /\ \/ /\ client[c].type = 1 /\ conn[c].answer = "true"
          /\ client' = [client EXCEPT ![c] = [Off EXCEPT !.pc = "username", !.type = 2]]
          /\ UNCHANGED store
       \/ /\ client[c].type = 2 /\ conn[c].answer = "tree"
          /\ \/ client' = [client EXCEPT ![c] = [Off EXCEPT !.pc = "username", !.type = 3]]
             \/ client' = [client EXCEPT ![c] = [Off EXCEPT !.pc = "running"]]
          /\ UNCHANGED store
       \/ /\ client[c].type = 2 /\ conn[c].answer = "empty"
          /\ client' = [client EXCEPT ![c] = [Off EXCEPT !.pc = "running"]]
          /\ store' = Told(client[c].username)
       \/ /\ conn[c].answer \notin {"true", "tree", "empty"}
          /\ Ends(c)
          /\ UNCHANGED store
    /\ conn' = ClosedByClient(c, "closed")
    /\ UNCHANGED <<config, service, server>>

(* Something in the folder has changed: Syncro.                             *)
Syncro(c) ==
    /\ client[c].pc = "running"
    /\ client' = [client EXCEPT ![c].type = 2, ![c].pc = "username"]
    /\ UNCHANGED <<config, conn, service, server, store>>

(* The process is killed, or loses its connection, which ends it.           *)
Killed(c) ==
    /\ client[c].pc # "off"
    /\ \/ "kill" \in Trouble
       \/ "lost" \in Trouble /\ conn[c].at # "none" /\ conn[c].gone = "no"
    /\ Ends(c)
    /\ conn' = IF conn[c].gone = "no" THEN ClosedByClient(c, "lost") ELSE conn
    /\ UNCHANGED <<config, service, server, store>>

-----------------------------------------------------------------------------
(* The server.                                                              *)

(* The process ends, by std::exit, abort or the return of main.             *)
ServerEnds ==
    /\ up' = FALSE
    /\ stop' = FALSE
    /\ mainPc' = "loop"
    /\ accPc' = "ended"
    /\ accepted' = Main
    /\ service' = [e \in End |-> "none"]
    /\ conn' = [e \in End |-> IF conn[e].at = "none" \/ e = Main THEN NoConnection
                              ELSE ClosedByServer(e)]
    /\ UNCHANGED <<settings, store>>

ServerStarts ==
    /\ ~up
    /\ up' = TRUE
    /\ accPc' = "test"
    /\ UNCHANGED <<settings, conn, service, stop, mainPc, accepted, store>>

(* Run returns and its AcceptClient with the backlog goes, or it accepts.   *)
AcceptorTests ==
    /\ up /\ accPc = "test"
    /\ accPc' = IF stop THEN "ended" ELSE "accept"
    /\ conn' = [e \in End |-> IF stop /\ conn[e].at = "queued" THEN ClosedByServer(e)
                              ELSE conn[e]]
    /\ UNCHANGED <<settings, service, up, stop, mainPc, accepted, store>>

Accepts(e) ==
    /\ up /\ accPc = "accept"
    /\ conn[e].at = "queued"
    /\ conn' = [conn EXCEPT ![e].at = "served"]
    /\ accepted' = e
    /\ accPc' = "spawn"
    /\ UNCHANGED <<settings, service, up, stop, mainPc, store>>

(* A bug: a Service also for what comes after stop_.                        *)
SpawnsAlways ==
    /\ up /\ accPc = "spawn"
    /\ accPc' = "test"
    /\ service' = [service EXCEPT ![accepted] = "read"]
    /\ UNCHANGED <<settings, conn, up, stop, mainPc, accepted, store>>

(* No Service once stop_ is set: the socket is dropped.                     *)
Spawns ==
    /\ up /\ accPc = "spawn"
    /\ accPc' = "test"
    /\ IF stop THEN /\ conn' = [conn EXCEPT ![accepted] = ClosedByServer(accepted)]
                    /\ UNCHANGED service
               ELSE /\ service' = [service EXCEPT ![accepted] = "read"]
                    /\ UNCHANGED conn
    /\ UNCHANGED <<settings, up, stop, mainPc, accepted, store>>

Serves(e, pc) == service' = [service EXCEPT ![e] = pc] /\ UNCHANGED conn

(* "delete this" and the end of the thread, which closes the socket.        *)
ServiceEnds(e, c) ==
    /\ service' = [service EXCEPT ![e] = "none"]
    /\ conn' = [conn EXCEPT ![e] = IF c.gone # "no" THEN NoConnection
                                   ELSE [c EXCEPT !.shut = TRUE]]

(* A bug: the hash is not compared.                                         *)
ServiceReadsUserOnly(e) ==
    /\ up /\ service[e] = "read"
    /\ conn[e].sent # Unsent
    /\ Serves(e, IF \E a \in Account : a[1] = conn[e].sent[2]
                   THEN "handle" ELSE "refuse")
    /\ UNCHANGED <<settings, server, store>>

(* SyncReadCM reads up to the end of file; CheckAuthenticity.               *)
ServiceReads(e) ==
    /\ up /\ service[e] = "read"
    /\ conn[e].sent # Unsent
    /\ LET m == conn[e].sent
       IN  Serves(e, IF <<m[2], m[3]>> \in Account THEN "handle" ELSE "refuse")
    /\ UNCHANGED <<settings, server, store>>

(* Nothing has been sent, or message 5, which has no user's name: rapidjson *)
(* asserts that the member is there.                                        *)
ServiceAborts(e) ==
    /\ up /\ service[e] = "read"
    /\ e = Main \/ (conn[e].gone # "no" /\ conn[e].sent = Unsent)
    /\ ServerEnds

(* Another error than the end of file: SyncReadCM makes a message of type   *)
(* 5, whose constructor leaves type_ uninitialised.  If it happens to be 5  *)
(* the Service ends; if not, a user without a name is refused, on a socket  *)
(* that cannot be written.                                                  *)
ServiceReadFails(e) ==
    /\ up /\ service[e] = "read"
    /\ conn[e].gone = "lost"
    /\ \/ ServiceEnds(e, conn[e]) /\ UNCHANGED <<settings, server, store>>
       \/ ServerEnds

(* A bug: the refused message is not answered, and its socket is kept.      *)
ServiceIgnores(e) ==
    /\ up /\ service[e] = "refuse"
    /\ Serves(e, "ignored")
    /\ UNCHANGED <<settings, server, store>>

(* SyncWriteCM of "auth: false"; the switch is executed all the same.  A    *)
(* client that is gone may or may not make it fail.                         *)
ServiceRefuses(e) ==
    /\ up /\ service[e] = "refuse"
    /\ \/ /\ conn' = [conn EXCEPT ![e].answer = "false", ![e].shut = TRUE]
          /\ service' = [service EXCEPT ![e] = "handle"]
          /\ UNCHANGED <<settings, server, store>>
       \/ conn[e].gone # "no" /\ ServerEnds

(* The table the message is about: getUserPath returns "" for a name that   *)
(* is in no account, which only a refused message has.                      *)
StoreOf(message) ==
    IF \E a \in Account : a[1] = message[2] THEN store[message[2]] ELSE "none"

NeedsFolder(message) ==
    message[1] = 2 /\ \E a \in Account : a[1] = message[2] /\ store[a[1]] = "none"

(* Message 2 from an account without a folder: it is created ...            *)
ServiceCreatesFolder(e) ==
    /\ up /\ service[e] = "handle"
    /\ NeedsFolder(conn[e].sent)
    /\ store' = [store EXCEPT ![conn[e].sent[2]] = "folder"]
    /\ Serves(e, "create")
    /\ UNCHANGED <<settings, server>>

(* ... and then its table.                                                  *)
ServiceCreatesTable(e) ==
    /\ up /\ service[e] = "create"
    /\ store' = [store EXCEPT ![conn[e].sent[2]] = "table"]
    /\ Serves(e, "handle")
    /\ UNCHANGED <<settings, server>>

(* getTimeFromPath of a file in a folder without a table.                   *)
ListsWithoutTable(e) == conn[e].sent[1] = 2 /\ StoreOf(conn[e].sent) = "file"

AnswerTo(message) ==
    IF message[1] = 1 THEN "true"
    ELSE IF StoreOf(message) = "table" THEN "tree" ELSE "empty"

(* A bug: no break after case 1.                                            *)
ServiceAnswersTwice(e) ==
    /\ up /\ service[e] = "handle"
    /\ conn[e].sent[1] \in {1, 2} /\ ~NeedsFolder(conn[e].sent)
    /\ \/ /\ ~conn[e].shut /\ ~ListsWithoutTable(e)
          /\ IF conn[e].sent[1] = 1
               THEN /\ conn' = [conn EXCEPT ![e].answer = "true", ![e].shut = TRUE]
                    /\ UNCHANGED service
               ELSE ServiceEnds(e, [conn[e] EXCEPT !.answer = AnswerTo(conn[e].sent)])
          /\ UNCHANGED <<settings, server, store>>
       \/ (conn[e].shut \/ conn[e].gone # "no" \/ ListsWithoutTable(e)) /\ ServerEnds

(* Messages 1 and 2: SyncWriteCM fails for certain when the send side has   *)
(* been shut down, and perhaps when the client is gone.                     *)
ServiceAnswers(e) ==
    /\ up /\ service[e] = "handle"
    /\ conn[e].sent[1] \in {1, 2} /\ ~NeedsFolder(conn[e].sent)
    /\ \/ /\ ~conn[e].shut /\ ~ListsWithoutTable(e)
          /\ ServiceEnds(e, [conn[e] EXCEPT !.answer = AnswerTo(conn[e].sent)])
          /\ UNCHANGED <<settings, server, store>>
       \/ (conn[e].shut \/ conn[e].gone # "no" \/ ListsWithoutTable(e)) /\ ServerEnds

(* Message 2: a call of the file system throws, and there is no answer.     *)
ServiceThrows(e) ==
    /\ up /\ service[e] = "handle"
    /\ conn[e].sent[1] = 2
    /\ ServiceEnds(e, conn[e])
    /\ UNCHANGED <<settings, server, store>>

(* Message 3, which may also end early when is_empty throws; deleteFile     *)
(* needs the table.                                                         *)
ServiceRemoves(e) ==
    /\ up /\ service[e] = "handle"
    /\ conn[e].sent[1] = 3
    /\ \/ ServiceEnds(e, conn[e]) /\ UNCHANGED <<settings, server, store>>
       \/ StoreOf(conn[e].sent) # "table" /\ ServerEnds

(* An upload into an account without a table, on the thread of an           *)
(* AsyncService: its file is there before insertFile looks for the table.   *)
UploadLeavesFile(u) ==
    /\ up /\ mainPc = "loop"
    /\ store[u] = "told"
    /\ store' = [store EXCEPT ![u] = "file"]
    /\ UNCHANGED <<settings, conn, service, server>>

UploadInserts(u) ==
    /\ up /\ mainPc = "loop"
    /\ store[u] = "file"
    /\ ServerEnds

(* SIGINT or SIGTERM: main leaves its loop.  AsyncServer::Stop joins its    *)
(* pool, whose threads return from run as soon as their handlers do; then   *)
(* Server::Stop sets stop_ ...                                              *)
Signal ==
    /\ up /\ mainPc = "loop"
    /\ stop' = TRUE
    /\ mainPc' = "connect"
    /\ UNCHANGED <<settings, conn, service, up, accPc, accepted, store>>

(* A bug: nothing wakes accept.                                             *)
MainJoinsAtOnce ==
    /\ up /\ mainPc = "connect"
    /\ mainPc' = "join"
    /\ UNCHANGED <<settings, conn, service, up, stop, accPc, accepted, store>>

(* ... message 5 to the server itself, or std::exit if the acceptor has     *)
(* closed already ...                                                       *)
MainConnects ==
    /\ up /\ mainPc = "connect"
    /\ IF Listening
         THEN /\ conn' = [conn EXCEPT ![Main].at = "queued", ![Main].gone = "closed"]
              /\ mainPc' = "join"
              /\ UNCHANGED <<settings, service, up, stop, accPc, accepted, store>>
         ELSE ServerEnds

(* ... and the join of Run's thread.  The return of main ends the process   *)
(* with its detached threads.                                               *)
MainReturns ==
    /\ up /\ mainPc = "join"
    /\ accPc = "ended"
    /\ ServerEnds

-----------------------------------------------------------------------------
ClientStep(c) ==
    \/ ClientReads(c)
    \/ Connects(c)
    \/ ConnectFails(c)
    \/ Sends(c)
    \/ SendFails(c)
    \/ Receives(c)

AcceptorStep ==
    \/ AcceptorTests
    \/ \E e \in End : Accepts(e)
    \/ Spawns

ServiceStep(e) ==
    \/ ServiceReads(e)
    \/ ServiceAborts(e)
    \/ ServiceReadFails(e)
    \/ ServiceRefuses(e)
    \/ ServiceCreatesFolder(e)
    \/ ServiceCreatesTable(e)
    \/ ServiceAnswers(e)
    \/ ServiceThrows(e)
    \/ ServiceRemoves(e)

MainStep == MainConnects \/ MainReturns

Next ==
    \/ \E c \in Client : ClientStarts(c) \/ ClientStep(c) \/ Syncro(c) \/ Killed(c)
    \/ ServerStarts
    \/ Signal
    \/ AcceptorStep
    \/ \E e \in End : ServiceStep(e)
    \/ \E u \in User : UploadLeavesFile(u) \/ UploadInserts(u)
    \/ MainStep

Spec == Init /\ [][Next]_vars

(* Every thread runs, and the backlog is a queue; nobody needs to start,    *)
(* signal or kill anything.                                                 *)
Fairness ==
    /\ \A c \in Client :
          WF_vars(ClientStep(c)) /\ SF_vars(Accepts(c)) /\ WF_vars(ServiceStep(c))
    /\ WF_vars(AcceptorStep)
    /\ WF_vars(MainStep)

FairSpec == Spec /\ Fairness

-----------------------------------------------------------------------------
TypeOK ==
    /\ config \in Config \cup {Broken, Missing}
    /\ client \in [Client -> ClientState]
    /\ conn \in [End -> Connection]
    /\ service \in [End -> {"none", "read", "refuse", "handle", "create"}]
    /\ up \in BOOLEAN /\ stop \in BOOLEAN
    /\ mainPc \in {"loop", "connect", "join"}
    /\ accPc \in {"test", "accept", "spawn", "ended"}
    /\ accepted \in End
    /\ store \in [User -> Stored]

(* A client goes on after Auth only with the name and hash of an account,   *)
(* although a refused message 1 is handled like an accepted one: the second *)
(* answer never reaches it.                                                 *)
LoggedInIsRight ==
    [][\A c \in Client : Receives(c) /\ client[c].type = 1 /\ client'[c].type = 2 =>
          <<client[c].username, client[c].hash_password>> \in Account]_vars

(* The message that wakes the acceptor of a server that stops is never      *)
(* read: HandleClient could not parse it.                                   *)
StopMessageUnread == service[Main] = "none"

(* The client is refused, or lost, or has left without a word.              *)
Failed(e) ==
    \/ service[e] = "refuse" \/ conn[e].answer = "false"
    \/ conn[e].gone = "lost"
    \/ conn[e].gone = "closed" /\ conn[e].sent = Unsent

(* Message 2 finds a file in a folder without a table, or message 3 comes   *)
(* from another account than the tree did, and this one has never had any.  *)
Tableless(e) ==
    /\ conn[e].sent # Unsent
    /\ \/ conn[e].sent[1] = 2 /\ StoreOf(conn[e].sent) = "file"
       \/ conn[e].sent[1] = 3 /\ StoreOf(conn[e].sent) # "table"

(* A Service that ends the server serves a client that failed or an account *)
(* that has no table.  Clients with the right password of an account with   *)
(* its table never do, as long as they stay until they are answered, nor    *)
(* does one that closes its socket after message 3.                         *)
OnlyTheFailedEndServer ==
    [][up /\ ~up' => \A e \in End : ServiceStep(e) => Failed(e) \/ Tableless(e)]_vars

(* A server that is asked to stop stops, whatever its acceptor, its         *)
(* Services and the clients are doing: main is never for ever on its way    *)
(* out.                                                                     *)
ServerStops == []<>(mainPc = "loop")

(* No client waits for ever for an answer, be it refused or the server      *)
(* stopped meanwhile.                                                       *)
NobodyWaits == \A c \in Client : []<>(client[c].pc # "wait")

(* The server accepts requests until it is stopped.                         *)
ServerKeepsRunning == [][up /\ ~up' => mainPc # "loop"]_vars
=============================================================================
