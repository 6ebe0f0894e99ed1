------------------------------ MODULE Settings ------------------------------
(***************************************************************************)
(* The client's config.json and what a client process does with it from    *)
(* its start until it has its settings: main and Config.  Session goes on  *)
(* from there; every request reads the credentials from the file anew.     *)
(*                                                                         *)
(* The file is a function of its keys, or is missing, or unreadable: while *)
(* write_json has truncated it and has not yet written it.  The processes  *)
(* of one installation share it without a lock.  "path" stands for the     *)
(* settings that are no credentials; the folder it names exists.           *)
(***************************************************************************)
EXTENDS Naturals, Sequences, FiniteSets

CONSTANTS
    Client,   \* client processes that may run at once (a bound)
    User, Hash,
    Options,  \* the command line of each: keys with values, or Wrong, in the
              \* order in which SetConfig comes to them
    Wrong,    \* an option that makes SetConfig throw, or -h; for -d with an
              \* argument, wherever it stands, SetConfig looks first of all
    Empty,    \* the value of a key that has not been set
    Broken,   \* the file cannot be parsed
    Missing,  \* there is no file
    Given,    \* the folder to back up
    Tries,    \* how often ConnectServer tries
    Trouble   \* which of the guards named in TroubleAssumption are lifted

Config == [username : User \cup {Empty}, hash_password : Hash \cup {Empty},
           path : {Given, Empty}]

Option == ({"username"} \X User) \cup ({"hash_password"} \X Hash)
            \cup ({"path"} \X {Given}) \cup {Wrong}

ASSUME OptionsAssumption == Options \in [Client -> Seq(Option)]

ASSUME ValuesAssumption ==
    /\ Broken \notin Config /\ Missing \notin Config /\ Broken # Missing
    /\ Wrong \notin ({"username"} \X User) \cup ({"hash_password"} \X Hash)
                      \cup ({"path"} \X {Given})

ASSUME TriesAssumption == Tries \in Nat \ {0}

(* Without any trouble one client process runs at a time ("two"), none is   *)
(* killed while it has no connection ("kill"), or while it has ("lost").    *)
ASSUME TroubleAssumption == Trouble \subseteq {"two", "kill", "lost"}

VARIABLES
    config,  \* config.json
    client   \* the client processes

(* SetConfig is at the option next; root is what WriteProperty has read,    *)
(* linked whether the file it has open is still the one in the folder.      *)
(* username and hash_password are what ReadCredential has read, type is the *)
(* message under way, tries what ConnectServer has left.                    *)
ClientState ==
    [pc : {"off", "structure", "reset", "fill", "options", "write", "flush",
           "folder", "username", "hash", "connect", "send", "wait", "running"},
     next : Nat \ {0}, root : Config \cup {Missing}, linked : BOOLEAN,
     type : 1 .. 3, tries : 1 .. Tries,
     username : User \cup {Empty}, hash_password : Hash \cup {Empty}]

Off == [pc |-> "off", next |-> 1, root |-> Missing, linked |-> TRUE, type |-> 1,
        tries |-> Tries, username |-> Empty, hash_password |-> Empty]

Default == [username |-> Empty, hash_password |-> Empty, path |-> Empty]

SettingsInit ==
    /\ config \in {Missing} \cup [username : User, hash_password : Hash, path : {Given}]
    /\ client = [c \in Client |-> Off]

Readable == config \notin {Broken, Missing}

Goes(c, pc) == client' = [client EXCEPT ![c].pc = pc]

(* std::exit, or the return of main.                                        *)
Ends(c) == client' = [client EXCEPT ![c] = Off]

Start(c) ==
    /\ client[c].pc = "off"
    /\ "two" \in Trouble \/ \A b \in Client : client[b].pc = "off"
    /\ Goes(c, "structure")
    /\ UNCHANGED config

(* IsConfigStructureCorrect looks whether the file is there, not into it.   *)
ChecksStructure(c) ==
    /\ client[c].pc = "structure"
    /\ Goes(c, IF config = Missing THEN "reset" ELSE "options")
    /\ UNCHANGED config

(* SetDefaultConfig removes whatever is there, creates the file ...  That   *)
(* is one step: to read a missing file and an empty one is the same.        *)
Resets(c) ==
    /\ client[c].pc = "reset"
    /\ config' = Broken
    /\ client' = [b \in Client |->
                    IF b = c THEN [client[b] EXCEPT !.pc = "fill", !.linked = TRUE]
                             ELSE [client[b] EXCEPT !.linked = FALSE]]

(* ... and writes it.                                                       *)
Fills(c) ==
    /\ client[c].pc = "fill"
    /\ config' = IF client[c].linked THEN Default ELSE config
    /\ Goes(c, "options")

(* SetConfig: a wrong option ends the program, after those before it have   *)
(* been written (none, if it is the -d that the first loop looks for).      *)
(* WriteProperty reads the file, ...                                        *)
TakesOption(c) ==
    /\ client[c].pc = "options"
    /\ IF client[c].next > Len(Options[c]) THEN Goes(c, "folder")
       ELSE IF Options[c][client[c].next] = Wrong \/ ~Readable THEN Ends(c)
       ELSE client' = [client EXCEPT ![c].root = config, ![c].pc = "write"]
    /\ UNCHANGED config

(* ... truncates it, ...                                                    *)
Truncates(c) ==
    /\ client[c].pc = "write"
    /\ config' = Broken
    /\ client' = [client EXCEPT ![c].pc = "flush", ![c].linked = TRUE]

(* ... and writes all of it back with the one key changed.                  *)
Writes(c) ==
    /\ client[c].pc = "flush"
    /\ LET option == Options[c][client[c].next]
       IN  config' = IF client[c].linked
                       THEN [client[c].root EXCEPT ![option[1]] = option[2]]
                       ELSE config
    /\ client' = [client EXCEPT ![c].pc = "options", ![c].next = @ + 1,
                                ![c].root = Missing]

(* PrintConfiguration, the test of the folder and ReadRawEndpoint; then     *)
(* Auth begins.                                                             *)
ChecksFolder(c) ==
    /\ client[c].pc = "folder"
    /\ IF Readable /\ config.path = Given
         THEN client' = [client EXCEPT ![c] = [Off EXCEPT !.pc = "connect"]]
         ELSE Ends(c)
    /\ UNCHANGED config

(* ReadCredential opens the file twice.                                     *)
ReadsUsername(c) ==
    /\ client[c].pc = "username"
    /\ IF Readable
         THEN client' = [client EXCEPT ![c].username = config.username, ![c].pc = "hash"]
         ELSE Ends(c)
    /\ UNCHANGED config

(* Auth reads the credentials on an open connection, the other requests     *)
(* before they connect.                                                     *)
ReadsHash(c) ==
    /\ client[c].pc = "hash"
    /\ IF Readable
         THEN client' = [client EXCEPT ![c].hash_password = config.hash_password,
                            ![c].pc = IF client[c].type = 1 THEN "send" ELSE "connect"]
         ELSE Ends(c)
    /\ UNCHANGED config

SettingsStep(c) ==
    \/ ChecksStructure(c)
    \/ Resets(c)
    \/ Fills(c)
    \/ TakesOption(c)
    \/ Truncates(c)
    \/ Writes(c)
    \/ ChecksFolder(c)
    \/ ReadsUsername(c)
    \/ ReadsHash(c)
=============================================================================
