------------------------------- MODULE Backup -------------------------------
(***************************************************************************)
(* The backup of one account from the user's folder to the server:         *)
(* Client::Syncro with the status table in .hash.db, one FileSipper and    *)
(* one AsyncService per upload, the Service that lists and removes files,  *)
(* the server's files and its UserTree table.                              *)
(*                                                                         *)
(* Contents are numbers, one per edit, and a digest is the content itself. *)
(* A file is one sip long besides its metadata.  Files do not depend on    *)
(* each other, so what the code does file after file in one scan is one    *)
(* step here.  SharedQueue is represented by what it implements: sippers   *)
(* are begun in any order (WorkPool).                                      *)
(***************************************************************************)
EXTENDS Integers, FiniteSets

CONSTANTS
    File,        \* names of files
    Above,       \* the names that are folders of a name
    TooLong,     \* names the server cannot open: beyond MAX_LENGTH
    TooDeep,     \* names whose folder the server cannot create
    Slot,        \* 1 .. how many uploads may exist at once (a bound)
    MaxEdits,    \* how often the user may change a file (a bound)
    MaxFaults,   \* connections that break and stops of a side, together (a bound)
    MaxRemovals, \* removals of one file under way at once (a bound)
    Trouble,     \* which of the guards named in TroubleAssumption are lifted
    NoFile, NoRow, NoUpload, NoTime

ASSUME BoundsAssumption ==
    /\ MaxEdits \in Nat /\ MaxFaults \in Nat
    /\ MaxRemovals \in Nat \ {0}
    /\ Slot \subseteq Nat
    /\ IsFiniteSet(Slot)

ASSUME NamesAssumption ==
    /\ Above \in [File -> SUBSET File]
    /\ \A f \in File : f \notin Above[f]
    /\ TooLong \subseteq File
    /\ TooDeep \subseteq File

(* Without any trouble the user changes a file once its last change is      *)
(* backed up ("user": at any time) and no removal of it is on its way       *)
(* ("removal"), not during the first Syncro ("early"), never twice within a *)
(* second ("clock"), and brings a file back with the time of its row only   *)
(* if the row is gone ("back"); a FileSipper connects when the server has   *)
(* finished with the file ("retry"), a client starts when it has finished   *)
(* with every file ("restart"); an error of a connection leaves the socket  *)
(* in a state in which shutdown succeeds ("throw").                         *)
ASSUME TroubleAssumption ==
    Trouble \subseteq {"user", "removal", "early", "clock", "back",
                      "retry", "restart", "throw"}

VARIABLES
    \* the user's folder
    disk,      \* the version of each file: [lmt, data]
    away,      \* the version last moved out of the folder
    now,       \* the clock, in the seconds of st_mtime
    edits,     \* changes made so far; numbers the contents
    \* the client
    up,        \* the process runs
    watching,  \* watcher_.Start has been called
    dirty,     \* the Collector holds events that call Syncro again
    pc,        \* where Syncro is
    stat,      \* InitHash: the modification times read
    ctree,     \* client_treet: name -> modification time
    stree,     \* server_treet: name -> stored modification time
    todo,      \* to_be_sent_vector: names Dispatch has yet to look at
    rows,      \* the table files: [hash, lmt, status]
    \* uploads: a FileSipper, its connection and its AsyncService
    uploads,
    \* the server
    userDir,   \* the account has its folder and its table
    sfile,     \* stored contents; 0 is a content nobody meant to store
    srow,      \* the UserTree table: stored modification times
    removals,  \* removal handlers: [sent, unlinked] for each file
    faults

userVars   == <<disk, away, now, edits>>
syncVars   == <<pc, stat, ctree, stree, todo>>
procVars   == <<up, watching>>
serverVars == <<userDir, sfile, srow, removals>>
vars == <<userVars, procVars, dirty, syncVars, rows, uploads, serverVars, faults>>

Time    == 0 .. MaxEdits
Data    == 0 .. MaxEdits
Status  == {"NEW", "SENDING", "SENT", "NOTSENT"}
Version == [lmt : Time, data : Data]
Row     == [hash : Data, lmt : Time, status : Status]

(* c is the FileSipper: queued, opened (file open, metadata sent), waiting  *)
(* for the answer, done.  s is the AsyncService: nothing read yet, opened   *)
(* (file truncated), refused, deaf (it reads no more and never answers),    *)
(* closed, then one state per outcome of onFinish, gone.  seen is the content when the file was opened, sent what *)
(* went over the wire, linked whether the file the service writes is still  *)
(* the one its path names.                                                  *)
Upload == [file : File, hash : Data, lmt : Time,
           c : {"queued", "opened", "waiting", "done"},
           s : {"none", "opened", "refused", "deaf", "closed", "equal",
                "exists", "differs", "answered", "gone"},
           seen : Data, sent : Data \cup {NoTime}, linked : BOOLEAN,
           answer : 0 .. 2]

ASSUME NothingAssumption ==
    /\ NoFile \notin Version \cup Data
    /\ NoRow \notin Row
    /\ NoUpload \notin Upload
    /\ NoTime \notin Time

Init ==
    /\ disk = [f \in File |-> NoFile]
    /\ away = [f \in File |-> NoFile]
    /\ now = 0
    /\ edits = 0
    /\ up = TRUE
    /\ watching = FALSE
    /\ dirty = FALSE
    /\ pc = "stat"
    /\ stat = [f \in File |-> NoTime]
    /\ ctree = [f \in File |-> NoTime]
    /\ stree = [f \in File |-> NoTime]
    /\ todo = {}
    /\ rows = [f \in File |-> NoRow]
    /\ uploads = [u \in Slot |-> NoUpload]
    /\ userDir = FALSE
    /\ sfile = [f \in File |-> NoFile]
    /\ srow = [f \in File |-> NoTime]
    /\ removals = [f \in File |-> [sent |-> 0, unlinked |-> 0]]
    /\ faults = 0

-----------------------------------------------------------------------------
(* The table files of .hash.db.  Its functions run under one static mutex.  *)

StatusOf(f) == IF rows[f] = NoRow THEN "none" ELSE rows[f].status

AlreadyHashed(f, lmt) == rows[f] # NoRow /\ rows[f].lmt = lmt

(* A bug: a failed upload does not come back to NEW.                        *)
RowsAfterKept(f, answer) ==
    IF StatusOf(f) = "SENDING" /\ answer # 0
      THEN [rows EXCEPT ![f].status = IF answer = 1 THEN "SENT" ELSE "NOTSENT"]
      ELSE rows

(* ChangeStatusToSent, ToNew, ToNotSent: only a row in status SENDING.      *)
RowsAfter(f, answer) ==
    IF StatusOf(f) = "SENDING"
      THEN [rows EXCEPT ![f].status = CASE answer = 1 -> "SENT"
                                        [] answer = 0 -> "NEW"
                                        [] OTHER -> "NOTSENT"]
      ELSE rows

AllSent(table) ==
    \A f \in File : table[f] = NoRow \/ table[f].status \in {"SENT", "NOTSENT"}

(* Writing .hash.db in the watched folder also creates and removes SQLite's *)
(* journal there, so a change of the table is an event the Collector        *)
(* reports and listenerFunction does not ignore.                            *)
NoticeRows == dirty' = (dirty \/ (watching /\ rows' # rows))

(* A bug: writing .hash.db is no event, as if it were in another folder.    *)
UpdateFileStatusQuietly(f, answer) ==
    /\ rows' = RowsAfter(f, answer)
    /\ dirty' = (dirty \/ (watching /\ AllSent(rows')))

(* FileSipper::UpdateFileStatus: when everything is sent, a directory is    *)
(* created and removed to wake the watcher.                                 *)
UpdateFileStatus(f, answer) ==
    /\ rows' = RowsAfter(f, answer)
    /\ dirty' = (dirty \/ (watching /\ (rows' # rows \/ AllSent(rows'))))

-----------------------------------------------------------------------------
(* The user.                                                                *)

UploadsOf(f) == {u \in Slot : uploads[u] # NoUpload /\ uploads[u].file = f}

NoRemoval(f) == removals[f] = [sent |-> 0, unlinked |-> 0]

(* Nothing is under way for f: its last change is backed up, or the client  *)
(* is not running and the server has finished with f.                       *)
Settled(f) ==
    /\ UploadsOf(f) = {}
    /\ "removal" \in Trouble \/ (NoRemoval(f) /\ stree[f] = NoTime)
    /\ \/ ~up
       \/ disk[f] = NoFile /\ rows[f] = NoRow /\ sfile[f] = NoFile
       \/ /\ disk[f] # NoFile
          /\ AlreadyHashed(f, disk[f].lmt)
          /\ StatusOf(f) \in {"SENT", "NOTSENT"}

Below(f) == {g \in File : f \in Above[g]}

Present(g) == disk[g] # NoFile

(* A name is a file or a folder with something in it, not both.             *)
UserMay(f) == /\ edits < MaxEdits
              /\ \A g \in Above[f] \cup Below(f) : ~Present(g)
              /\ \/ "user" \in Trouble
                 \/ \A g \in {f} \cup Above[f] \cup Below(f) : Settled(g)
              /\ ~up \/ watching \/ "early" \in Trouble

UserActs == /\ edits' = edits + 1
            /\ dirty' = (dirty \/ watching)
            /\ UNCHANGED <<procVars, syncVars, rows, uploads, serverVars, faults>>

(* Create or overwrite a file.  Two changes within one second give the same *)
(* st_mtime.                                                                *)
Edit(f) ==
    /\ UserMay(f)
    /\ \E t \in {now, now + 1} :
          /\ t = now + 1 \/ (t > 0 /\ "clock" \in Trouble)
          /\ now' = t
          /\ disk' = [disk EXCEPT ![f] = [lmt |-> t, data |-> edits + 1]]
    /\ UserActs
    /\ UNCHANGED away

(* Delete a file, or move it out of the folder...                           *)
MoveOut(f) ==
    /\ UserMay(f)
    /\ disk[f] # NoFile
    /\ away' = [away EXCEPT ![f] = disk[f]]
    /\ disk' = [disk EXCEPT ![f] = NoFile]
    /\ UserActs
    /\ UNCHANGED now

(* ... and back into it, with the modification time it had.                 *)
MoveBack(f) ==
    /\ UserMay(f)
    /\ disk[f] = NoFile
    /\ away[f] # NoFile
    /\ "back" \in Trouble \/ ~AlreadyHashed(f, away[f].lmt)
    /\ disk' = [disk EXCEPT ![f] = away[f]]
    /\ away' = [away EXCEPT ![f] = NoFile]
    /\ UserActs
    /\ UNCHANGED now

-----------------------------------------------------------------------------
(* Client::Syncro, on the watcher's thread (the first one on main's).       *)

WatcherCalls ==
    /\ up /\ pc = "idle" /\ watching /\ dirty
    /\ pc' = "stat"
    /\ dirty' = FALSE
    /\ UNCHANGED <<userVars, procVars, stat, ctree, stree, todo, rows, uploads>>
    /\ UNCHANGED <<serverVars, faults>>

(* InitHash: stat of every file of the folder ...                           *)
InitHashStat ==
    /\ up /\ pc = "stat"
    /\ stat' = [f \in File |-> IF disk[f] = NoFile THEN NoTime ELSE disk[f].lmt]
    /\ pc' = "hash"
    /\ UNCHANGED <<userVars, procVars, dirty, ctree, stree, todo, rows, uploads>>
    /\ UNCHANGED <<serverVars, faults>>

(* A bug: the row of a file that is gone is written all the same.           *)
InitHashInsertUnread ==
    /\ up /\ pc = "hash"
    /\ rows' = [f \in File |->
          IF ~AlreadyHashed(f, stat[f])
            THEN [hash |-> 0, lmt |-> stat[f], status |-> "NEW"] ELSE rows[f]]
    /\ NoticeRows
    /\ stat' = [f \in File |-> NoTime]
    /\ pc' = "clean"
    /\ UNCHANGED <<userVars, procVars, ctree, stree, todo, uploads, serverVars, faults>>

(* ... then the digest of what the file contains by now, unless the row has *)
(* this time already; a file that cannot be opened is skipped.              *)
InitHashInsert ==
    /\ up /\ pc = "hash"
    /\ rows' = [f \in File |->
          IF stat[f] # NoTime /\ ~AlreadyHashed(f, stat[f]) /\ disk[f] # NoFile
            THEN [hash |-> disk[f].data, lmt |-> stat[f], status |-> "NEW"]
            ELSE rows[f]]
    /\ NoticeRows
    /\ stat' = [f \in File |-> NoTime]
    /\ pc' = "clean"
    /\ UNCHANGED <<userVars, procVars, ctree, stree, todo, uploads, serverVars, faults>>

(* The row of a name that is now a folder stays: it exists.                 *)
CleanOldRows ==
    /\ up /\ pc = "clean"
    /\ rows' = [f \in File |-> IF \A g \in {f} \cup Below(f) : ~Present(g)
                                  THEN NoRow ELSE rows[f]]
    /\ NoticeRows
    /\ pc' = "tree"
    /\ UNCHANGED <<userVars, procVars, stat, ctree, stree, todo, uploads>>
    /\ UNCHANGED <<serverVars, faults>>

(* TreeT of the folder.                                                     *)
ClientTree ==
    /\ up /\ pc = "tree"
    /\ ctree' = [f \in File |-> IF disk[f] = NoFile THEN NoTime ELSE disk[f].lmt]
    /\ pc' = "request"
    /\ UNCHANGED <<userVars, procVars, dirty, stat, stree, todo, rows, uploads>>
    /\ UNCHANGED <<serverVars, faults>>

(* The server's table after createTable, which only a new account needs.    *)
TableCreated == IF userDir THEN srow ELSE [f \in File |-> NoTime]

(* Database::getTimeFromPath: 1 without a row; 0 here, a time no file has.  *)
TimeFromPath(table, f) == IF table[f] = NoTime THEN 0 ELSE table[f]

(* TreeT of the server: the files that exist, each with the time of its row.*)
ServerTree(table) ==
    [f \in File |-> IF sfile[f] = NoFile THEN NoTime ELSE TimeFromPath(table, f)]

(* RequestTree and the server's handler of message 2: create the account's  *)
(* folder and its empty table if there is none, and send the tree.          *)
RequestTree ==
    /\ up /\ pc = "request"
    /\ userDir' = TRUE
    /\ srow' = TableCreated
    /\ stree' = ServerTree(srow')
    /\ pc' = "align"
    /\ UNCHANGED <<userVars, procVars, dirty, stat, ctree, todo, rows, uploads>>
    /\ UNCHANGED <<sfile, removals, faults>>

(* Patch: the differences and the intersection of the two trees, of names   *)
(* (removed_) and of names with their times.                                *)
Removed == {f \in File : stree[f] # NoTime /\ ctree[f] = NoTime}

ToBeSent == {f \in File : ctree[f] # NoTime /\ stree[f] # ctree[f]}

SameFileSameLmt == {f \in File : ctree[f] # NoTime /\ stree[f] = ctree[f]}

(* A bug: the names are compared, not the times.                            *)
AlignStatusByName ==
    /\ up /\ pc = "align"
    /\ rows' = [f \in File |->
          IF ctree[f] # NoTime /\ stree[f] # NoTime /\ AlreadyHashed(f, ctree[f])
            THEN [rows[f] EXCEPT !.status = "SENT"]
            ELSE rows[f]]
    /\ NoticeRows
    /\ pc' = "removal"
    /\ UNCHANGED <<userVars, procVars, stat, ctree, stree, todo, uploads>>
    /\ UNCHANGED <<serverVars, faults>>

(* Patch, then AlignStatus: SENT where both sides have the same name and    *)
(* time and the row has that time too, whatever its status was.             *)
AlignStatus ==
    /\ up /\ pc = "align"
    /\ rows' = [f \in File |->
          IF f \in SameFileSameLmt /\ AlreadyHashed(f, ctree[f])
            THEN [rows[f] EXCEPT !.status = "SENT"]
            ELSE rows[f]]
    /\ NoticeRows
    /\ pc' = "removal"
    /\ UNCHANGED <<userVars, procVars, stat, ctree, stree, todo, uploads>>
    /\ UNCHANGED <<serverVars, faults>>

(* A bug: to_be_elim_vector is sent, which has the changed files too.       *)
SendRemovalOfChanged ==
    LET removed == {f \in File : stree[f] # NoTime /\ stree[f] # ctree[f]}
    IN  /\ up /\ pc = "removal"
        /\ \A f \in removed : removals[f].sent + removals[f].unlinked < MaxRemovals
        /\ removals' = [f \in File |-> IF f \in removed
                                         THEN [removals[f] EXCEPT !.sent = @ + 1]
                                         ELSE removals[f]]
        /\ todo' = ToBeSent
        /\ ctree' = [f \in File |-> NoTime]
        /\ stree' = [f \in File |-> NoTime]
        /\ pc' = "dispatch"
        /\ UNCHANGED <<userVars, procVars, dirty, stat, rows, uploads>>
        /\ UNCHANGED <<userDir, sfile, srow, faults>>

(* SendRemoval: message 3 with the names only the server has; no answer.    *)
(* Then Dispatch starts on the names whose time differs.                    *)
SendRemoval ==
    /\ up /\ pc = "removal"
    /\ \A f \in Removed : removals[f].sent + removals[f].unlinked < MaxRemovals
    /\ removals' = [f \in File |-> IF f \in Removed
                                     THEN [removals[f] EXCEPT !.sent = @ + 1]
                                     ELSE removals[f]]
    /\ todo' = ToBeSent
    /\ ctree' = [f \in File |-> NoTime]
    /\ stree' = [f \in File |-> NoTime]
    /\ pc' = "dispatch"
    /\ UNCHANGED <<userVars, procVars, dirty, stat, rows, uploads>>
    /\ UNCHANGED <<userDir, sfile, srow, faults>>

(* Dispatch: a row in status NEW becomes SENDING and gets a FileSipper with *)
(* the row's hash and time.                                                 *)
Dispatch(f) ==
    /\ up /\ pc = "dispatch"
    /\ f \in todo
    /\ todo' = todo \ {f}
    /\ IF StatusOf(f) = "NEW"
         THEN \E u \in Slot :
              /\ uploads[u] = NoUpload
              /\ \A v \in Slot : v < u => uploads[v] # NoUpload
              /\ uploads' = [uploads EXCEPT ![u] =
                    [file |-> f, hash |-> rows[f].hash, lmt |-> rows[f].lmt,
                     c |-> "queued", s |-> "none", seen |-> 0, sent |-> NoTime,
                     linked |-> FALSE, answer |-> 0]]
              /\ rows' = [rows EXCEPT ![f].status = "SENDING"]
         ELSE UNCHANGED <<rows, uploads>>
    /\ NoticeRows
    /\ UNCHANGED <<userVars, procVars, pc, stat, ctree, stree, serverVars, faults>>

(* Syncro returns; the first time StartWatching starts the watcher, and     *)
(* main the sender.                                                         *)
SyncroEnds ==
    /\ up /\ pc = "dispatch"
    /\ todo = {}
    /\ pc' = "idle"
    /\ watching' = TRUE
    /\ UNCHANGED <<userVars, up, dirty, stat, ctree, stree, todo, rows, uploads>>
    /\ UNCHANGED <<serverVars, faults>>


-----------------------------------------------------------------------------
Fault == faults < MaxFaults /\ faults' = faults + 1

(* FileSipper: one thread of the pool runs Send for one upload.             *)

(* The record of u becomes r; the slot is free when neither side works on   *)
(* the upload any more.                                                     *)
Becomes(u, r) ==
    uploads' = [uploads EXCEPT ![u] =
        IF r.c = "done" /\ r.s \in {"answered", "deaf", "gone"} THEN NoUpload ELSE r]

Sipping(u, step) == up /\ uploads[u] # NoUpload /\ uploads[u].c = step

ServerHasFinished(u) ==
    \A v \in UploadsOf(uploads[u].file) : v = u \/ uploads[v].c = "queued" \/ uploads[v].s = "gone"

(* Connect, OpenFile and FirstSip.  A name that is a folder by now opens,   *)
(* but cannot be read: the metadata are sent and then an end of file.  A    *)
(* file that exists no more leaves the row as it is.  The sender's thread   *)
(* starts after the Client is built.                                        *)
Connect(u) ==
    /\ Sipping(u, "queued")
    /\ watching
    /\ "retry" \in Trouble \/ ServerHasFinished(u)
    /\ LET f == uploads[u].file
           isFolder == \E g \in Below(f) : Present(g)
       IN  IF ~Present(f) /\ isFolder
             THEN /\ Becomes(u, [uploads[u] EXCEPT !.c = "done", !.sent = 0])
                  /\ UpdateFileStatus(f, 0)
             ELSE /\ Becomes(u, IF Present(f)
                        THEN [uploads[u] EXCEPT !.c = "opened", !.seen = disk[f].data]
                        ELSE [uploads[u] EXCEPT !.c = "done", !.s = "gone"])
                  /\ UNCHANGED <<dirty, rows>>
    /\ UNCHANGED <<userVars, procVars, syncVars, serverVars, faults>>

(* The connection is refused, or the file is there and cannot be opened (it *)
(* is locked, or may not be read).                                          *)
ConnectFails(u) ==
    /\ Sipping(u, "queued")
    /\ watching
    /\ Fault
    /\ UpdateFileStatus(uploads[u].file, 0)
    /\ Becomes(u, [uploads[u] EXCEPT !.c = "done", !.s = "gone"])
    /\ UNCHANGED <<userVars, procVars, syncVars, serverVars>>

(* Sip until the end of the file, then WaitOk.  A file overwritten in place *)
(* while it is read goes out with its new content.                          *)
ReadAndSend(u) ==
    /\ Sipping(u, "opened")
    /\ uploads[u].s # "gone"
    /\ \E d \in Data :
          /\ d = uploads[u].seen \/ (Present(uploads[u].file) /\ d = disk[uploads[u].file].data)
          /\ Becomes(u, [uploads[u] EXCEPT !.c = "waiting", !.sent = d])
    /\ UNCHANGED <<userVars, procVars, dirty, syncVars, rows, serverVars, faults>>

ClientGetsAnswer(u) ==
    /\ Sipping(u, "waiting")
    /\ uploads[u].s = "answered"
    /\ UpdateFileStatus(uploads[u].file, uploads[u].answer)
    /\ Becomes(u, [uploads[u] EXCEPT !.c = "done", !.s = "gone"])
    /\ UNCHANGED <<userVars, procVars, syncVars, serverVars, faults>>

(* The error handlers: WriteSip calls shutdown first, which throws when the *)
(* connection was reset, and then the status is not updated; WaitOk does    *)
(* not.                                                                     *)
ClientFails(u) ==
    \/ UpdateFileStatus(uploads[u].file, 0)
    \/ /\ "throw" \in Trouble
       /\ uploads[u].c = "opened"
       /\ UNCHANGED <<rows, dirty>>

(* How the service learns that the other side is gone: an error, and it     *)
(* deletes itself, or the end of what was sent, which it takes for the end  *)
(* of the file.  Once it has closed the file it does not look.              *)
ServiceSees(r, reset) ==
    IF reset /\ r.s \in {"none", "opened"} THEN [r EXCEPT !.s = "gone"]
    ELSE IF r.sent = NoTime THEN [r EXCEPT !.sent = 0]
    ELSE r

(* A connection breaks; or the file cannot be read, after which the client  *)
(* closes the connection as if it had come to its end (reset = FALSE).      *)
Break(u) ==
    /\ up /\ uploads[u] # NoUpload
    /\ uploads[u].c \in {"opened", "waiting"}
    /\ uploads[u].s # "gone"
    /\ Fault
    /\ ClientFails(u)
    /\ \E reset \in BOOLEAN :
          Becomes(u, [ServiceSees(uploads[u], reset) EXCEPT !.c = "done"])
    /\ UNCHANGED <<userVars, procVars, syncVars, serverVars>>

(* The server has stopped during the upload.                                *)
SeesServerGone(u) ==
    /\ up /\ uploads[u] # NoUpload
    /\ uploads[u].c \in {"opened", "waiting"}
    /\ uploads[u].s = "gone"
    /\ ClientFails(u)
    /\ Becomes(u, [uploads[u] EXCEPT !.c = "done"])
    /\ UNCHANGED <<userVars, procVars, syncVars, serverVars, faults>>

-----------------------------------------------------------------------------
(* AsyncService: the handlers of one connection, on a thread of the pool of *)
(* AsyncServer, together with the handlers of every other connection.       *)

Serving(u, step) == uploads[u] # NoUpload /\ uploads[u].s = step

Unlinked(f) == [u \in Slot |-> IF u \in UploadsOf(f)
                                 THEN [uploads[u] EXCEPT !.linked = FALSE]
                                 ELSE uploads[u]]

Stored(f) == sfile[f] # NoFile

(* What two services leave that write the same file: one content over the   *)
(* other, or a mixture.                                                     *)
Merged(old, new) == IF old \in {0, new} THEN {new} ELSE {old, new, 0}

(* onRequestReceived, the first sip: create the folders, open and truncate. *)
(* When the folders cannot be created the handler returns without reading   *)
(* on; where the name is a folder the file does not open and nothing is     *)
(* written.                                                                 *)
ServerOpens(u) ==
    /\ Serving(u, "none")
    /\ uploads[u].c # "queued"
    /\ LET f == uploads[u].file
           folders == f \notin TooDeep /\ \A g \in Above[f] : ~Stored(g)
           isFolder == \E g \in Below(f) : Stored(g)
           opens == folders /\ f \notin TooLong /\ ~isFolder
       IN  /\ Becomes(u, [uploads[u] EXCEPT
                 !.s = IF ~folders THEN "deaf" ELSE IF f \in TooLong THEN "refused" ELSE "opened",
                 !.linked = opens])
           /\ sfile' = IF opens THEN [sfile EXCEPT ![f] = 0] ELSE sfile
    /\ UNCHANGED <<userVars, procVars, dirty, syncVars, rows, userDir, srow, removals, faults>>

(* The sips until the end of what the client sent, and the close.           *)
ServerCloses(u) ==
    LET f == uploads[u].file
    IN  /\ Serving(u, "opened")
        /\ uploads[u].sent # NoTime
        /\ \E d \in IF uploads[u].linked THEN Merged(sfile[f], uploads[u].sent) ELSE {sfile[f]} :
              sfile' = [sfile EXCEPT ![f] = d]
        /\ Becomes(u, [uploads[u] EXCEPT !.s = "closed", !.linked = FALSE])
        /\ UNCHANGED <<userVars, procVars, dirty, syncVars, rows, userDir, srow, removals, faults>>

(* A write fails (the disk is full): the rest is read and not written.      *)
ServerWriteFails(u) ==
    LET f == uploads[u].file
    IN  /\ Serving(u, "opened")
        /\ uploads[u].sent # NoTime /\ uploads[u].linked
        /\ Fault
        /\ \E d \in Merged(sfile[f], 0) : sfile' = [sfile EXCEPT ![f] = d]
        /\ Becomes(u, [uploads[u] EXCEPT !.s = "closed", !.linked = FALSE])
        /\ UNCHANGED <<userVars, procVars, dirty, syncVars, rows, userDir, srow, removals>>

(* onFinish: the digest of whatever the path names by now ...               *)
ServerDigests(u) ==
    /\ Serving(u, "closed")
    /\ Becomes(u, [uploads[u] EXCEPT
           !.s = IF sfile[uploads[u].file] = uploads[u].hash THEN "equal" ELSE "differs"])
    /\ UNCHANGED <<userVars, procVars, dirty, syncVars, rows, serverVars, faults>>

Answers(u, answer) == Becomes(u, [uploads[u] EXCEPT !.s = "answered", !.answer = answer])

(* ... then, in case a removal came between, whether it still exists ...    *)
ServerChecksExists(u) ==
    /\ Serving(u, "equal")
    /\ IF Stored(uploads[u].file)
         THEN Becomes(u, [uploads[u] EXCEPT !.s = "exists"])
         ELSE Answers(u, 0)
    /\ UNCHANGED <<userVars, procVars, dirty, syncVars, rows, serverVars, faults>>

(* A bug: the handler ends without an answer.                               *)
ServerInsertsSilently(u) ==
    /\ Serving(u, "exists")
    /\ srow' = [srow EXCEPT ![uploads[u].file] = uploads[u].lmt]
    /\ Becomes(u, [uploads[u] EXCEPT !.s = "deaf"])
    /\ UNCHANGED <<userVars, procVars, dirty, syncVars, rows, userDir, sfile, removals, faults>>

(* ... then insertFile and the answer 1 ...                                 *)
ServerInserts(u) ==
    /\ Serving(u, "exists")
    /\ srow' = [srow EXCEPT ![uploads[u].file] = uploads[u].lmt]
    /\ Answers(u, 1)
    /\ UNCHANGED <<userVars, procVars, dirty, syncVars, rows, userDir, sfile, removals, faults>>

(* ... or, with another digest, the removal of the file and the answer 0.   *)
ServerRemovesCorrupt(u) ==
    LET f == uploads[u].file
    IN  /\ Serving(u, "differs")
        /\ sfile' = [sfile EXCEPT ![f] = NoFile]
        /\ uploads' = [Unlinked(f) EXCEPT ![u] =
              IF @.c = "done" THEN NoUpload ELSE [@ EXCEPT !.s = "answered", !.answer = 0]]
        /\ UNCHANGED <<userVars, procVars, dirty, syncVars, rows, userDir, srow, removals, faults>>

(* onAbort, at the end of what the client sent.                             *)
ServerRefuses(u) ==
    /\ Serving(u, "refused")
    /\ uploads[u].sent # NoTime
    /\ Answers(u, 2)
    /\ UNCHANGED <<userVars, procVars, dirty, syncVars, rows, serverVars, faults>>

-----------------------------------------------------------------------------
(* Service, message 3: one detached thread per request.                     *)

RemovalUnlinks(f) ==
    /\ removals[f].sent > 0
    /\ removals' = [removals EXCEPT ![f] = [sent |-> @.sent - 1, unlinked |-> @.unlinked + 1]]
    /\ sfile' = [sfile EXCEPT ![f] = NoFile]
    /\ uploads' = Unlinked(f)
    /\ UNCHANGED <<userVars, procVars, dirty, syncVars, rows, userDir, srow, faults>>

RemovalDeletesRow(f) ==
    /\ removals[f].unlinked > 0
    /\ removals' = [removals EXCEPT ![f].unlinked = @ - 1]
    /\ srow' = [srow EXCEPT ![f] = NoTime]
    /\ UNCHANGED <<userVars, procVars, dirty, syncVars, rows, uploads, userDir, sfile, faults>>

-----------------------------------------------------------------------------
(* Stops and starts.                                                        *)

(* The client is killed, or one of its std::exit calls ends it.             *)
ClientStops ==
    /\ up
    /\ Fault
    /\ up' = FALSE
    /\ watching' = FALSE
    /\ dirty' = FALSE
    /\ pc' = "idle"
    /\ stat' = [f \in File |-> NoTime]
    /\ ctree' = [f \in File |-> NoTime]
    /\ stree' = [f \in File |-> NoTime]
    /\ todo' = {}
    /\ \E reset \in SUBSET Slot :
          uploads' = [u \in Slot |->
              IF uploads[u] = NoUpload \/ uploads[u].c = "queued" THEN NoUpload
              ELSE LET r == ServiceSees(uploads[u], u \in reset)
                   IN  IF r.s \in {"answered", "deaf", "gone"} THEN NoUpload
                       ELSE [r EXCEPT !.c = "done"]]
    /\ UNCHANGED <<userVars, rows, serverVars>>

(* A bug: the constructor does not call RecoverSending.                     *)
ClientStartsUnrecovered ==
    /\ ~up
    /\ up' = TRUE
    /\ pc' = "stat"
    /\ UNCHANGED <<userVars, watching, dirty, stat, ctree, stree, todo, rows, uploads>>
    /\ UNCHANGED <<serverVars, faults>>

(* RecoverSending.                                                          *)
RowsRecovered ==
    [f \in File |-> IF StatusOf(f) = "SENDING" THEN [rows[f] EXCEPT !.status = "NEW"]
                    ELSE rows[f]]

(* main and the Client's constructor: Auth, RecoverSending, the first       *)
(* Syncro.                                                                  *)
ClientStarts ==
    /\ ~up
    /\ \/ "restart" \in Trouble
       \/ \A f \in File : UploadsOf(f) = {} /\ NoRemoval(f)
    /\ up' = TRUE
    /\ rows' = RowsRecovered
    /\ pc' = "stat"
    /\ UNCHANGED <<userVars, watching, dirty, stat, ctree, stree, todo, uploads>>
    /\ UNCHANGED <<serverVars, faults>>

(* The server stops and is started again: its connections and the removals  *)
(* it had accepted are gone, the files and tables stay as they are.         *)
ServerStops ==
    /\ Fault
    /\ removals' = [f \in File |-> [sent |-> 0, unlinked |-> 0]]
    /\ uploads' = [u \in Slot |->
          IF uploads[u] = NoUpload \/ uploads[u].c = "queued" THEN uploads[u]
          ELSE IF uploads[u].c = "done" THEN NoUpload
          ELSE [uploads[u] EXCEPT !.s = "gone", !.linked = FALSE]]
    /\ UNCHANGED <<userVars, procVars, dirty, syncVars, rows, userDir, sfile, srow>>

-----------------------------------------------------------------------------
User == \E f \in File : Edit(f) \/ MoveOut(f) \/ MoveBack(f)

Syncro == \/ WatcherCalls \/ InitHashStat \/ InitHashInsert \/ CleanOldRows
          \/ ClientTree \/ RequestTree \/ AlignStatus \/ SendRemoval
          \/ \E f \in File : Dispatch(f)
          \/ SyncroEnds

Sipper(u) == Connect(u) \/ ReadAndSend(u) \/ ClientGetsAnswer(u) \/ SeesServerGone(u)

ServiceStep(u) == \/ ServerOpens(u) \/ ServerCloses(u) \/ ServerDigests(u)
                  \/ ServerChecksExists(u) \/ ServerInserts(u)
                  \/ ServerRemovesCorrupt(u) \/ ServerRefuses(u)

Removal(f) == RemovalUnlinks(f) \/ RemovalDeletesRow(f)

Next ==
    \/ User
    \/ Syncro
    \/ \E u \in Slot : \/ Sipper(u) \/ ServiceStep(u)
                       \/ ConnectFails(u) \/ Break(u) \/ ServerWriteFails(u)
    \/ \E f \in File : Removal(f)
    \/ ClientStops \/ ClientStarts \/ ServerStops

Spec == Init /\ [][Next]_vars

(* Threads that run make progress, and someone starts the client again.     *)
Fairness ==
    /\ WF_vars(Syncro)
    /\ \A u \in Slot : WF_vars(Sipper(u)) /\ WF_vars(ServiceStep(u))
    /\ \A f \in File : WF_vars(Removal(f))
    /\ WF_vars(ClientStarts)

FairSpec == Spec /\ Fairness

-----------------------------------------------------------------------------
OutTimes == Time \cup {NoTime}

TypeOK ==
    /\ disk \in [File -> Version \cup {NoFile}]
    /\ away \in [File -> Version \cup {NoFile}]
    /\ now \in Time /\ edits \in 0 .. MaxEdits
    /\ up \in BOOLEAN /\ watching \in BOOLEAN /\ dirty \in BOOLEAN
    /\ pc \in {"idle", "stat", "hash", "clean", "tree", "request", "align",
               "removal", "dispatch"}
    /\ stat \in [File -> OutTimes]
    /\ ctree \in [File -> OutTimes]
    /\ stree \in [File -> OutTimes]
    /\ todo \subseteq File
    /\ rows \in [File -> Row \cup {NoRow}]
    /\ uploads \in [Slot -> Upload \cup {NoUpload}]
    /\ userDir \in BOOLEAN
    /\ sfile \in [File -> Data \cup {NoFile}]
    /\ srow \in [File -> OutTimes]
    /\ removals \in [File -> [sent : 0 .. MaxRemovals, unlinked : 0 .. MaxRemovals]]
    /\ faults \in 0 .. MaxFaults

(* The promise of the status SENT: as long as the file has the modification *)
(* time of a row marked SENT and nothing is under way for it, the server    *)
(* holds its content and knows it under that time.                          *)
SentIsStored ==
    \A f \in File : (/\ Present(f) /\ StatusOf(f) = "SENT" /\ rows[f].lmt = disk[f].lmt
                     /\ UploadsOf(f) = {} /\ NoRemoval(f))
        => sfile[f] = disk[f].data /\ srow[f] = disk[f].lmt

(* A row in status SENDING is not forgotten: there is a FileSipper that     *)
(* will settle it, or the file is gone or newer and the next Syncro writes  *)
(* the row anew.  Nothing else takes a row out of this status while the     *)
(* client runs.                                                             *)
SendingHasSipper ==
    \A f \in File : (up /\ StatusOf(f) = "SENDING" /\ Present(f) /\ rows[f].lmt = disk[f].lmt)
        => \E u \in UploadsOf(f) : uploads[u].c # "done"

(* The service of u writes the copy of f anew, with the same content.       *)
Rewrites(u, f) ==
    /\ Serving(u, "opened") /\ uploads[u].linked
    /\ \/ uploads[u].sent = disk[f].data
       \/ /\ uploads[u].sent = NoTime /\ uploads[u].c = "opened"
          /\ uploads[u].seen = disk[f].data

(* The server holds what the file contains now and knows it under its time, *)
(* or has truncated this copy for an upload that brings it once more.       *)
Held(f) ==
    /\ Present(f) /\ srow[f] = disk[f].lmt
    /\ \/ sfile[f] = disk[f].data
       \/ \E u \in UploadsOf(f) : Rewrites(u, f)

(* What the server holds it holds until the user changes the file: no late  *)
(* upload truncates, replaces or removes the copy, no late removal takes it *)
(* or its row, and a copy that is sent again needlessly is written whole.   *)
CurrentCopyKept ==
    [][\A f \in File : Held(f) /\ disk'[f] = disk[f] => Held(f)']_vars

(* The backup is complete for f.                                            *)
InSync(f) ==
    IF ~Present(f) THEN ~Stored(f) /\ rows[f] = NoRow
    ELSE IF f \in TooLong THEN StatusOf(f) = "NOTSENT"
    ELSE StatusOf(f) = "SENT" /\ sfile[f] = disk[f].data /\ srow[f] = disk[f].lmt

(* Nobody works on f, but its row says a FileSipper does.                   *)
Stuck(f) == up /\ StatusOf(f) = "SENDING" /\ UploadsOf(f) = {}

Converges == <>[](\A f \in File : InSync(f))

ConvergesOrSticks == <>[](\A f \in File : InSync(f) \/ Stuck(f))

(* Every upload that began ends.                                            *)
EveryUploadEnds ==
    \A u \in Slot : (uploads[u] # NoUpload /\ uploads[u].c = "waiting")
        ~> (uploads[u] = NoUpload \/ uploads[u].c # "waiting")
=============================================================================
