------------------------------- MODULE Store --------------------------------
(***************************************************************************)
(* The server's files of one account while requests overlap: every message *)
(* 2 (send the tree) and 3 (remove) runs on a detached thread of its own,  *)
(* the handlers of uploads run on the pool, and what they share is the     *)
(* account's folder and its UserTree table.  Each call into the file       *)
(* system or the database is a step: the functions of Database hold one    *)
(* mutex, nothing holds a lock over two calls.                             *)
(*                                                                         *)
(* A version of a file is the upload that brought it; Old is one that was  *)
(* there before.  Backup treats two uploads of one file at once; here an   *)
(* upload begins when no other upload of its file is under way.            *)
(***************************************************************************)
EXTENDS Naturals, Sequences, FiniteSets

CONSTANTS
    File,       \* names of files in the account's folder
    Folder,     \* names of folders below the account's folder
    Path,       \* the folders above a file or folder, outermost first
    Home,       \* the account's folder
    Tree,       \* messages 2
    Removal,    \* messages 3 ...
    List,       \* ... and To_be_deleted of each
    Upload,     \* uploads ...
    Target,     \* ... and the file of each
    Shortened,  \* files whose name is a beginning of the name of a file
    Attempts,   \* gen_attempts
    Trouble,    \* which of the guards named in TroubleAssumption are lifted
    Old, Partial, NoFile, NoRow

ASSUME RequestsAssumption ==
    /\ List \in [Removal -> Seq(File) \ {<<>>}]
    /\ Target \in [Upload -> File]
    /\ Shortened \in [File -> SUBSET File]
    /\ Attempts \in Nat \ {0}

ASSUME PathAssumption ==
    /\ Path \in [File \cup Folder -> Seq(Folder)]
    /\ File \cap Folder = {} /\ Home \notin Folder
    /\ \A x \in File \cup Folder : \A i \in 1 .. Len(Path[x]) :
          Path[Path[x][i]] = SubSeq(Path[x], 1, i - 1)

(* Without any trouble a new account sends one message 2 at a time          *)
(* ("creators": a client killed and started again, or two clients), and the *)
(* server has not been stopped between creating the account's folder and    *)
(* its table ("halfway").                                                   *)
ASSUME TroubleAssumption == Trouble \subseteq {"creators", "halfway"}

Version == Upload \cup {Old}

ASSUME NothingAssumption ==
    /\ Old \notin Upload
    /\ Partial \notin Version
    /\ NoFile \notin Version \cup {Partial}
    /\ NoRow \notin Version

VARIABLES
    alive,     \* the server process runs
    home,      \* the account has its folder
    hasTable,  \* ... and the database file of its table
    known,     \* a client has been told the account's tree
    folders,   \* folders below the account's
    disk,      \* what each file contains
    row,       \* the UserTree table: the time of a version, or no row
    trees,     \* handlers of message 2
    removals,  \* handlers of message 3
    uploads,   \* AsyncServices
    fresh      \* history: uploads nobody has interfered with since they opened their file

account == <<home, hasTable, known>>
vars == <<alive, account, folders, disk, row, trees, removals, uploads, fresh>>

(* ahead holds what the iterator has yet to visit, listed map_tree_time_.   *)
(* History: stable has the files nobody touched since the generation began, *)
(* gone counts the folders removed since.                                   *)
TreeState ==
    [pc : {"idle", "exists", "create", "table", "walk", "done"},
     left : 1 .. Attempts, ahead : SUBSET (File \cup Folder),
     listed : [File -> Version \cup {NoRow, NoFile}],
     stable : SUBSET File, gone : Nat]

(* next is the place in the list, level how many folders of Path are left   *)
(* above path_iterator, itself included.                                    *)
RemovalState ==
    [pc : {"idle", "unlink", "exists", "empty", "rmdir", "row", "done", "thrown"},
     next : Nat \ {0}, level : Nat]

(* file is received_file_string_; cut says what the first read missed of    *)
(* the metadata: nothing, the end of the file's name, the user's name or    *)
(* more, or nearly everything.  missing are folders yet to be created.      *)
UploadState ==
    [pc : {"idle", "mkdir", "open", "receive", "digest", "exists", "insert",
           "remove", "done", "gone", "deaf", "robbed"},
     file : File, cut : {"none", "name", "user", "tiny"},
     missing : SUBSET Folder, answer : 0 .. 1]

Entry == File \cup Folder

ParentOf(x) == IF Path[x] = <<>> THEN Home ELSE Path[x][Len(Path[x])]

Exists(d) == d = Home \/ d \in folders

(* What a folder holds.                                                     *)
Entries(d) == {f \in File : disk[f] # NoFile /\ ParentOf(f) = d}
                \cup {e \in folders : ParentOf(e) = d}

AllAbove(files) == {d \in Folder : \E f \in files : \E i \in 1 .. Len(Path[f]) : Path[f][i] = d}

NoTree == [pc |-> "idle", left |-> Attempts, ahead |-> {},
           listed |-> [f \in File |-> NoFile], stable |-> {}, gone |-> 0]

NoRemoval(pc) == [pc |-> pc, next |-> 1, level |-> 0]

(* An account that is new, or one with some files in it and nothing under   *)
(* way.                                                                     *)
Init ==
    /\ alive = TRUE
    /\ \E b \in BOOLEAN, stored \in SUBSET File :
          /\ home = b /\ known = b
          /\ hasTable \in IF "halfway" \in Trouble /\ stored = {}
                            THEN {FALSE, b} ELSE {b}
          /\ ~b => stored = {}
          /\ folders = AllAbove(stored)
          /\ disk = [f \in File |-> IF f \in stored THEN Old ELSE NoFile]
          /\ row = [f \in File |-> IF f \in stored THEN Old ELSE NoRow]
    /\ trees = [t \in Tree |-> NoTree]
    /\ removals = [r \in Removal |-> NoRemoval("idle")]
    /\ uploads = [u \in Upload |->
          [pc |-> "idle", file |-> Target[u], cut |-> "none", missing |-> {},
           answer |-> 0]]
    /\ fresh = {}

-----------------------------------------------------------------------------
(* History: somebody changes the file f or its row.                         *)

TreesTouched(f) ==
    [t \in Tree |-> [trees[t] EXCEPT !.stable = @ \ {f}]]

FreshTouched(f) == {u \in fresh : uploads[u].file # f}

-----------------------------------------------------------------------------
(* Message 2.                                                               *)

TreeGoes(t, pc) == trees' = [trees EXCEPT ![t].pc = pc]

Creating(t) == trees[t].pc \in {"exists", "create", "table"}

TreeArrives(t) ==
    /\ alive /\ trees[t].pc = "idle"
    /\ hasTable \/ "creators" \in Trouble \/ \A s \in Tree : ~Creating(s)
    /\ TreeGoes(t, "exists")
    /\ UNCHANGED <<alive, account, folders, disk, row, removals, uploads, fresh>>

(* The map is cleared and the iterator opens the account's folder.          *)
Attempt(t, left, first) ==
    [trees[t] EXCEPT
        !.pc = "walk", !.left = left, !.ahead = Entries(Home),
        !.listed = [f \in File |-> NoFile],
        !.stable = IF first THEN {f \in File : disk[f] \in Version} ELSE @,
        !.gone = IF first THEN 0 ELSE @]

TreeChecksFolder(t) ==
    /\ alive /\ trees[t].pc = "exists"
    /\ IF home THEN trees' = [trees EXCEPT ![t] = Attempt(t, Attempts, TRUE)]
               ELSE TreeGoes(t, "create")
    /\ UNCHANGED <<alive, account, folders, disk, row, removals, uploads, fresh>>

(* A bug: the folder is created without its table.                          *)
TreeCreatesFolderOnly(t) ==
    /\ alive /\ trees[t].pc = "create"
    /\ home' = TRUE
    /\ trees' = [trees EXCEPT ![t] = Attempt(t, Attempts, TRUE)]
    /\ UNCHANGED <<alive, hasTable, known, folders, disk, row, removals, uploads, fresh>>

(* The folder is there before its table is.                                 *)
TreeCreatesFolder(t) ==
    /\ alive /\ trees[t].pc = "create"
    /\ home' = TRUE
    /\ TreeGoes(t, "table")
    /\ UNCHANGED <<alive, hasTable, known, folders, disk, row, removals, uploads, fresh>>

(* createTable drops the table and creates an empty one.                    *)
CreateTable(t) ==
    /\ alive /\ trees[t].pc = "table"
    /\ hasTable' = TRUE
    /\ row' = [f \in File |-> NoRow]
    /\ trees' = [trees EXCEPT ![t] = Attempt(t, Attempts, TRUE)]
    /\ UNCHANGED <<alive, home, known, folders, disk, removals, uploads, fresh>>

(* std::exit in a function of Database whose table does not exist.          *)
Exits ==
    /\ alive' = FALSE
    /\ UNCHANGED <<account, folders, disk, row, trees, removals, uploads, fresh>>

(* getTimeFromPath: the time of the row; "1", which is NoRow here, without. *)
TreeListsFile(t) ==
    /\ alive /\ trees[t].pc = "walk"
    /\ \E f \in trees[t].ahead \cap File :
          IF hasTable
            THEN /\ trees' = [trees EXCEPT ![t].ahead = @ \ {f},
                                           ![t].listed[f] = row[f]]
                 /\ UNCHANGED <<alive, account, folders, disk, row, removals,
                                uploads, fresh>>
            ELSE Exits

(* The iterator goes down into a folder.                                    *)
TreeOpensFolder(t) ==
    /\ alive /\ trees[t].pc = "walk"
    /\ \E d \in trees[t].ahead \cap folders :
          trees' = [trees EXCEPT ![t].ahead = (@ \ {d}) \cup Entries(d)]
    /\ UNCHANGED <<alive, account, folders, disk, row, removals, uploads, fresh>>

VanishedAhead(t) == \E d \in trees[t].ahead : d \in Folder \ folders

(* A bug: gen_attempts is tested after one more attempt.                    *)
TreeRetriesOnceMore(t) ==
    /\ alive /\ trees[t].pc = "walk"
    /\ VanishedAhead(t)
    /\ trees' = [trees EXCEPT ![t] = Attempt(t, trees[t].left - 1, FALSE)]
    /\ UNCHANGED <<alive, account, folders, disk, row, removals, uploads, fresh>>

(* A bug: an increment that sets an error_code, and with it the end.        *)
TreeStopsShort(t) ==
    /\ alive /\ trees[t].pc = "walk"
    /\ VanishedAhead(t)
    /\ trees' = [trees EXCEPT ![t].ahead = {}]
    /\ UNCHANGED <<alive, account, folders, disk, row, removals, uploads, fresh>>

(* A bug: the iterator is not made anew.                                    *)
TreeRetriesWhereItWas(t) ==
    /\ alive /\ trees[t].pc = "walk"
    /\ VanishedAhead(t)
    /\ trees[t].left > 1
    /\ trees' = [trees EXCEPT ![t].left = @ - 1]
    /\ UNCHANGED <<alive, account, folders, disk, row, removals, uploads, fresh>>

(* A folder it has read the name of is gone: the iterator throws, and the   *)
(* attempt is lost.  (The name, which is no folder any more, is also put in *)
(* the map; this matters to no file.)                                       *)
TreeRetries(t) ==
    /\ alive /\ trees[t].pc = "walk"
    /\ VanishedAhead(t)
    /\ trees[t].left > 1
    /\ trees' = [trees EXCEPT ![t] = Attempt(t, trees[t].left - 1, FALSE)]
    /\ UNCHANGED <<alive, account, folders, disk, row, removals, uploads, fresh>>

(* The answer, with which the handler ends: after the last attempt, what    *)
(* that one had listed.                                                     *)
TreeAnswers(t) ==
    /\ trees' = [trees EXCEPT ![t] = [NoTree EXCEPT !.pc = "done"]]
    /\ known' = TRUE
    /\ UNCHANGED <<alive, home, hasTable, folders, disk, row, removals, uploads, fresh>>

TreeGivesUp(t) ==
    /\ alive /\ trees[t].pc = "walk"
    /\ VanishedAhead(t)
    /\ trees[t].left = 1
    /\ TreeAnswers(t)

TreeIsDone(t) ==
    /\ alive /\ trees[t].pc = "walk"
    /\ trees[t].ahead = {}
    /\ TreeAnswers(t)

-----------------------------------------------------------------------------
(* Message 3.                                                               *)

RemovalGoes(r, pc) == removals' = [removals EXCEPT ![r].pc = pc]

FileOf(r) == List[r][removals[r].next]

(* path_iterator.                                                           *)
FolderOf(r) == Path[FileOf(r)][removals[r].level]

(* The client has asked for the tree before, and removes what it listed.    *)
RemovalArrives(r) ==
    /\ alive /\ removals[r].pc = "idle"
    /\ known
    /\ RemovalGoes(r, "unlink")
    /\ UNCHANGED <<alive, account, folders, disk, row, trees, uploads, fresh>>

RemovesFile(r) ==
    /\ alive /\ removals[r].pc = "unlink"
    /\ disk' = [disk EXCEPT ![FileOf(r)] = NoFile]
    /\ removals' = [removals EXCEPT ![r].pc = "exists",
                                    ![r].level = Len(Path[FileOf(r)])]
    /\ trees' = TreesTouched(FileOf(r))
    /\ fresh' = FreshTouched(FileOf(r))
    /\ UNCHANGED <<alive, account, folders, row, uploads>>

RemovalLeavesFolders(r) ==
    removals' = [removals EXCEPT ![r].pc = "row", ![r].level = 0]

(* exists(path_iterator); the account's own folder is left alone.           *)
RemovalFindsParent(r) ==
    /\ alive /\ removals[r].pc = "exists"
    /\ IF removals[r].level > 0 /\ FolderOf(r) \in folders
         THEN RemovalGoes(r, "empty") ELSE RemovalLeavesFolders(r)
    /\ UNCHANGED <<alive, account, folders, disk, row, trees, uploads, fresh>>

(* A bug: the parents of a folder that was just removed are not looked at.  *)
RemovesFolderOnly(r) ==
    /\ alive /\ removals[r].pc = "rmdir"
    /\ folders' = IF Entries(FolderOf(r)) = {} THEN folders \ {FolderOf(r)}
                                               ELSE folders
    /\ trees' = [t \in Tree |-> [trees[t] EXCEPT !.gone =
                    IF folders' # folders /\ trees[t].pc = "walk" THEN @ + 1 ELSE @]]
    /\ RemovalLeavesFolders(r)
    /\ UNCHANGED <<alive, account, disk, row, uploads, fresh>>

(* is_empty(path_iterator) throws when the folder has gone since exists:    *)
(* this row and the rest of the list stay.                                  *)
RemovalLooksInside(r) ==
    /\ alive /\ removals[r].pc = "empty"
    /\ IF FolderOf(r) \notin folders
         THEN removals' = [removals EXCEPT ![r] = NoRemoval("thrown")]
         ELSE IF Entries(FolderOf(r)) = {} THEN RemovalGoes(r, "rmdir")
                                           ELSE RemovalLeavesFolders(r)
    /\ UNCHANGED <<alive, account, folders, disk, row, trees, uploads, fresh>>

(* remove fails without a word when something is in the folder by now.      *)
RemovesFolder(r) ==
    /\ alive /\ removals[r].pc = "rmdir"
    /\ folders' = IF Entries(FolderOf(r)) = {} THEN folders \ {FolderOf(r)}
                                               ELSE folders
    /\ trees' = [t \in Tree |-> [trees[t] EXCEPT !.gone =
                    IF folders' # folders /\ trees[t].pc = "walk" THEN @ + 1 ELSE @]]
    /\ removals' = [removals EXCEPT ![r].pc = "exists", ![r].level = @ - 1]
    /\ UNCHANGED <<alive, account, disk, row, uploads, fresh>>

(* deleteFile, and the next name of the list.                               *)
RemovesRow(r) ==
    /\ alive /\ removals[r].pc = "row"
    /\ IF hasTable
         THEN /\ row' = [row EXCEPT ![FileOf(r)] = NoRow]
              /\ removals' = IF removals[r].next = Len(List[r])
                               THEN [removals EXCEPT ![r] = NoRemoval("done")]
                               ELSE [removals EXCEPT ![r].pc = "unlink",
                                                     ![r].next = @ + 1]
              /\ trees' = TreesTouched(FileOf(r))
              /\ fresh' = FreshTouched(FileOf(r))
              /\ UNCHANGED <<alive, account, folders, disk, uploads>>
         ELSE Exits

-----------------------------------------------------------------------------
(* Uploads: the handlers of one connection run one after the other.         *)

Active(u) == uploads[u].pc \notin {"idle", "done", "gone", "deaf", "robbed"}

UploadGoes(u, pc) == uploads' = [uploads EXCEPT ![u].pc = pc]

(* create_directories looks for the folders that are missing.               *)
Missing(f) == AllAbove({f}) \ folders

(* onRequestReceived, first sip, as far as create_directories.  What TCP    *)
(* delivers at first may be a part of the 1024 bytes: without the end of    *)
(* the file's name; without the user, so that auth fails and nothing more   *)
(* is read; or so little that substr throws out of the pool's thread.       *)
UploadArrives(u, cut) ==
    /\ alive /\ uploads[u].pc = "idle"
    /\ known
    /\ \E f \in IF cut = "name" THEN Shortened[Target[u]] ELSE {Target[u]} :
          /\ \A v \in Upload : Active(v) => uploads[v].file # f
          /\ uploads' = [uploads EXCEPT
                ![u].file = f, ![u].cut = cut,
                ![u].missing = IF cut \in {"tiny", "user"} THEN {} ELSE Missing(f),
                ![u].pc = CASE cut = "tiny" -> "gone"
                            [] cut = "user" -> "deaf"
                            [] cut \in {"none", "name"} /\ Missing(f) = {} -> "open"
                            [] OTHER -> "mkdir"]
    /\ alive' = (cut # "tiny")
    /\ UNCHANGED <<account, folders, disk, row, trees, removals, fresh>>

(* mkdir of the outermost of them.  When the folder above it has been       *)
(* removed, the handler returns without reading on: the service is deaf     *)
(* from then on.                                                            *)
UploadMakesFolder(u) ==
    /\ alive /\ uploads[u].pc = "mkdir"
    /\ \E d \in uploads[u].missing :
          /\ \A e \in uploads[u].missing : Len(Path[d]) <= Len(Path[e])
          /\ LET rest == uploads[u].missing \ {d}
             IN  IF Exists(ParentOf(d))
                   THEN /\ folders' = folders \cup {d}
                        /\ uploads' = [uploads EXCEPT ![u].missing = rest,
                                          ![u].pc = IF rest = {} THEN "open" ELSE @]
                   ELSE /\ uploads' = [uploads EXCEPT ![u].missing = {},
                                                      ![u].pc = "robbed"]
                        /\ UNCHANGED folders
    /\ UNCHANGED <<alive, account, disk, row, trees, removals, fresh>>

(* A bug: a return where the file cannot be opened, as where the folder     *)
(* cannot be created.                                                       *)
UploadOpensOrReturns(u) ==
    /\ alive /\ uploads[u].pc = "open"
    /\ LET f == uploads[u].file
       IN  /\ disk' = IF Exists(ParentOf(f)) THEN [disk EXCEPT ![f] = Partial] ELSE disk
           /\ trees' = TreesTouched(f)
           /\ fresh' = FreshTouched(f) \cup {u}
           /\ UploadGoes(u, IF Exists(ParentOf(f)) THEN "receive" ELSE "deaf")
    /\ UNCHANGED <<alive, account, folders, row, removals>>

(* The file is created or truncated, if its folder is still there.          *)
UploadOpens(u) ==
    /\ alive /\ uploads[u].pc = "open"
    /\ LET f == uploads[u].file
       IN  /\ disk' = IF Exists(ParentOf(f)) THEN [disk EXCEPT ![f] = Partial] ELSE disk
           /\ trees' = TreesTouched(f)
           /\ fresh' = FreshTouched(f) \cup {u}
    /\ UploadGoes(u, "receive")
    /\ UNCHANGED <<alive, account, folders, row, removals>>

(* All has been read up to the end of file.  It is not what the client read *)
(* if the client was stopped, or if the first read missed some of the       *)
(* metadata sip, which then becomes the beginning of the file.  A file that *)
(* has been removed meanwhile has no name any more.                         *)
UploadReceives(u, whole) ==
    /\ alive /\ uploads[u].pc = "receive"
    /\ LET f == uploads[u].file
       IN  disk' = IF disk[f] # NoFile /\ whole /\ uploads[u].cut = "none"
                     THEN [disk EXCEPT ![f] = u] ELSE disk
    /\ UploadGoes(u, "digest")
    /\ UNCHANGED <<alive, account, folders, row, trees, removals, fresh>>

(* An error on async_read: what has been written stays.                     *)
UploadBreaks(u) ==
    /\ alive /\ uploads[u].pc = "receive"
    /\ UploadGoes(u, "gone")
    /\ UNCHANGED <<alive, account, folders, disk, row, trees, removals, fresh>>

(* onFinish.  No digest can be computed of a file that is not there.        *)
UploadDigests(u) ==
    /\ alive /\ uploads[u].pc = "digest"
    /\ UploadGoes(u, IF disk[uploads[u].file] = u THEN "exists" ELSE "remove")
    /\ UNCHANGED <<alive, account, folders, disk, row, trees, removals, fresh>>

UploadAnswers(u, answer) ==
    uploads' = [uploads EXCEPT ![u].pc = "done", ![u].answer = answer]

UploadChecksExists(u) ==
    /\ alive /\ uploads[u].pc = "exists"
    /\ IF disk[uploads[u].file] # NoFile THEN UploadGoes(u, "insert")
                                         ELSE UploadAnswers(u, 0)
    /\ UNCHANGED <<alive, account, folders, disk, row, trees, removals, fresh>>

(* A bug: insertFile does not update the row of a file that has one.        *)
UploadInsertsOnce(u) ==
    /\ alive /\ uploads[u].pc = "insert"
    /\ LET f == uploads[u].file
       IN  IF hasTable
             THEN /\ row' = IF row[f] = NoRow THEN [row EXCEPT ![f] = u] ELSE row
                  /\ trees' = TreesTouched(f)
                  /\ UploadAnswers(u, 1)
                  /\ UNCHANGED <<alive, account, folders, disk, removals, fresh>>
             ELSE Exits

(* insertFile: UPDATE or INSERT, in the table the account must have.        *)
UploadInserts(u) ==
    /\ alive /\ uploads[u].pc = "insert"
    /\ LET f == uploads[u].file
       IN  IF hasTable
             THEN /\ row' = [row EXCEPT ![f] = u]
                  /\ trees' = TreesTouched(f)
                  /\ UploadAnswers(u, 1)
                  /\ UNCHANGED <<alive, account, folders, disk, removals, fresh>>
             ELSE Exits

(* The digests differ: the file is removed, the folders made for it stay.   *)
UploadRemovesCorrupt(u) ==
    /\ alive /\ uploads[u].pc = "remove"
    /\ disk' = [disk EXCEPT ![uploads[u].file] = NoFile]
    /\ trees' = TreesTouched(uploads[u].file)
    /\ UploadAnswers(u, 0)
    /\ UNCHANGED <<alive, account, folders, row, removals, fresh>>

-----------------------------------------------------------------------------
TreeStep(t) ==
    \/ TreeChecksFolder(t)
    \/ TreeCreatesFolder(t)
    \/ CreateTable(t)
    \/ TreeListsFile(t)
    \/ TreeOpensFolder(t)
    \/ TreeRetries(t)
    \/ TreeGivesUp(t)
    \/ TreeIsDone(t)

RemovalStep(r) ==
    \/ RemovesFile(r)
    \/ RemovalFindsParent(r)
    \/ RemovalLooksInside(r)
    \/ RemovesFolder(r)
    \/ RemovesRow(r)

UploadStep(u) ==
    \/ UploadMakesFolder(u)
    \/ UploadOpens(u)
    \/ \E whole \in BOOLEAN : UploadReceives(u, whole)
    \/ UploadBreaks(u)
    \/ UploadDigests(u)
    \/ UploadChecksExists(u)
    \/ UploadInserts(u)
    \/ UploadRemovesCorrupt(u)

Next ==
    \/ \E t \in Tree : TreeArrives(t) \/ TreeStep(t)
    \/ \E r \in Removal : RemovalArrives(r) \/ RemovalStep(r)
    \/ \E u \in Upload :
          \/ \E cut \in {"none", "name", "user", "tiny"} : UploadArrives(u, cut)
          \/ UploadStep(u)

Spec == Init /\ [][Next]_vars

(* The threads run, and the client of a connection sends or is gone.        *)
Fairness ==
    /\ \A t \in Tree : WF_vars(TreeStep(t))
    /\ \A r \in Removal : WF_vars(RemovalStep(r))
    /\ \A u \in Upload : WF_vars(UploadStep(u))

FairSpec == Spec /\ Fairness

-----------------------------------------------------------------------------
TypeOK ==
    /\ alive \in BOOLEAN /\ home \in BOOLEAN
    /\ hasTable \in BOOLEAN /\ known \in BOOLEAN
    /\ folders \subseteq Folder
    /\ disk \in [File -> Version \cup {Partial, NoFile}]
    /\ row \in [File -> Version \cup {NoRow}]
    /\ trees \in [Tree -> TreeState]
    /\ removals \in [Removal -> RemovalState]
    /\ uploads \in [Upload -> UploadState]
    /\ fresh \subseteq Upload

(* What the answer 1 tells the client is so, and stays so: the file holds   *)
(* what was sent and its row has that time, as long as no other request     *)
(* concerns this file - whatever the trees, the folders and the removals of *)
(* other files do meanwhile.  (service.cpp, createTable, insertFile.)       *)
AnsweredIsStored ==
    \A u \in fresh : uploads[u].answer = 1 =>
        disk[uploads[u].file] = u /\ row[uploads[u].file] = u

(* A tree that is sent, and was not given up, names every file that was     *)
(* there all the while, with the time of its row, whatever vanished around  *)
(* it.                                                                      *)
TreeIsComplete ==
    [][\A t \in Tree : trees[t].pc = "walk" /\ trees[t].ahead = {} /\ trees'[t].pc = "done" =>
          \A f \in trees[t].stable : trees[t].listed[f] = row[f]]_vars

(* Each attempt lost by TreeT has cost a folder: nothing else makes the     *)
(* iterator throw, so ten attempts last for nine removals of folders.       *)
AttemptsAreDeserved ==
    [][\A t \in Tree : TreeRetries(t) \/ TreeGivesUp(t) =>
          Attempts - trees[t].left < trees[t].gone]_vars

(* A request that finds no table ends the whole server (std::exit in the    *)
(* functions of Database).  One does only while the handler that has        *)
(* created the account's folder is still on its way to createTable, however *)
(* many clients ask for the tree at first; and metadata that arrived in     *)
(* pieces end the server too.                                               *)
ServerKeepsRunning ==
    \/ alive
    \/ \E u \in Upload : uploads[u].cut = "tiny"
    \/ ~hasTable /\ \E t \in Tree : trees[t].pc = "table"

(* Removals leave no empty folder behind, whichever of them come first:     *)
(* the last to leave a folder removes it.  Only an upload that failed after *)
(* it had named its file does.                                              *)
NoEmptyFolders ==
    (alive /\ (\A r \in Removal : removals[r].pc \in {"idle", "done", "thrown"})
           /\ (\A u \in Upload : ~Active(u)))
    => \A d \in folders : \/ Entries(d) # {}
                          \/ \E u \in Upload : /\ uploads[u].pc # "idle" /\ uploads[u].answer = 0
                                               /\ uploads[u].cut \in {"none", "name"}
                                               /\ d \in AllAbove({uploads[u].file})

(* Every request ends while the server runs, also when the folders it walks *)
(* or fills are removed under it.  An upload is left without an answer only *)
(* if the user's name did not arrive, or a removal took away a folder       *)
(* between two mkdirs.                                                      *)
FoldersRemoved(u) ==
    \E r \in Removal : \E i \in 1 .. Len(List[r]) :
        /\ removals[r].pc # "idle"
        /\ AllAbove({List[r][i]}) \cap AllAbove({uploads[u].file}) # {}

Ended ==
    /\ \A t \in Tree : trees[t].pc \in {"idle", "done"}
    /\ \A r \in Removal : removals[r].pc \in {"idle", "done", "thrown"}
    /\ \A u \in Upload : \/ uploads[u].pc \in {"idle", "done", "gone"}
                         \/ uploads[u].pc = "deaf" /\ uploads[u].cut = "user"
                         \/ uploads[u].pc = "robbed" /\ FoldersRemoved(u)

EveryRequestEnds == <>[](alive => Ended)
=============================================================================
