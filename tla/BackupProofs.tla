---------------------------- MODULE BackupProofs ----------------------------
(***************************************************************************)
(* Theorems about Backup for every set of files, every number of uploads,  *)
(* changes, faults and removals, with any of the guards lifted.            *)
(***************************************************************************)
EXTENDS Backup, TLAPS

-----------------------------------------------------------------------------
(* The inductive invariant: the types, in parts, with the two facts they    *)
(* rest on.  The clock does not run ahead of the changes, and the removals  *)
(* of a file, wherever they are, are at most MaxRemovals.                   *)
UserInv == /\ disk \in [File -> Version \cup {NoFile}]
           /\ away \in [File -> Version \cup {NoFile}]
           /\ now \in Nat /\ edits \in Nat
           /\ now <= edits /\ edits <= MaxEdits

ProcInv == up \in BOOLEAN /\ watching \in BOOLEAN /\ dirty \in BOOLEAN

SyncroInv == /\ pc \in {"idle", "stat", "hash", "clean", "tree", "request", "align",
                        "removal", "dispatch"}
             /\ stat \in [File -> OutTimes]
             /\ ctree \in [File -> OutTimes]
             /\ stree \in [File -> OutTimes]
             /\ todo \subseteq File

RowsInv == rows \in [File -> Row \cup {NoRow}]

UploadsInv == uploads \in [Slot -> Upload \cup {NoUpload}]

StoreInv == /\ userDir \in BOOLEAN
            /\ sfile \in [File -> Data \cup {NoFile}]
            /\ srow \in [File -> OutTimes]

RemovalsInv == /\ removals \in [File -> [sent : Nat, unlinked : Nat]]
               /\ \A f \in File : removals[f].sent + removals[f].unlinked <= MaxRemovals

FaultsInv == faults \in 0 .. MaxFaults

IInv == /\ UserInv /\ ProcInv /\ SyncroInv /\ RowsInv
        /\ UploadsInv /\ StoreInv /\ RemovalsInv /\ FaultsInv

(* The invariant has the types of the module.                               *)
LEMMA IInvTypes == IInv => TypeOK
<1> SUFFICES ASSUME IInv PROVE TypeOK
  OBVIOUS
<1> USE DEF IInv
<1>1. now \in Time /\ edits \in 0 .. MaxEdits
  BY BoundsAssumption DEF UserInv, Time
<1>2. removals \in [File -> [sent : 0 .. MaxRemovals, unlinked : 0 .. MaxRemovals]]
  <2>1. ASSUME NEW f \in File
        PROVE  removals[f] \in [sent : 0 .. MaxRemovals, unlinked : 0 .. MaxRemovals]
    <3>1. removals[f] \in [sent : Nat, unlinked : Nat]
      BY DEF RemovalsInv
    <3>2. removals[f].sent \in Nat /\ removals[f].unlinked \in Nat
      BY <3>1
    <3>3. removals[f].sent \in 0 .. MaxRemovals /\ removals[f].unlinked \in 0 .. MaxRemovals
      BY <3>2, BoundsAssumption DEF RemovalsInv
    <3> QED
      BY <3>1, <3>3
  <2> QED
    BY <2>1 DEF RemovalsInv
<1> QED
  BY <1>1, <1>2 DEF TypeOK, UserInv, ProcInv, SyncroInv, RowsInv, UploadsInv,
       StoreInv, FaultsInv

-----------------------------------------------------------------------------
(* Facts about the operators of the model.                                  *)

(* What the service learns of a lost connection leaves it an upload.        *)
LEMMA ServiceSeesUpload ==
    ASSUME NEW r \in Upload, NEW reset \in BOOLEAN
    PROVE  ServiceSees(r, reset) \in Upload
<1>1. 0 \in Data
  BY BoundsAssumption DEF Data
<1> QED
  BY <1>1 DEF ServiceSees, Upload

(* So does the answer of the server.                                        *)
LEMMA AnsweredUpload ==
    ASSUME NEW r \in Upload, NEW a \in 0 .. 2
    PROVE  [r EXCEPT !.s = "answered", !.answer = a] \in Upload
  BY DEF Upload

(* The record that an action writes is an upload, or the slot is free.      *)
LEMMA BecomesUpload ==
    ASSUME UploadsInv, NEW u \in Slot, NEW r \in Upload, Becomes(u, r)
    PROVE  UploadsInv'
  BY DEF UploadsInv, Becomes

(* Removing a file changes only whether its uploads are linked.             *)
LEMMA UnlinkedUploads ==
    ASSUME UploadsInv, NEW f \in File
    PROVE  Unlinked(f) \in [Slot -> Upload \cup {NoUpload}]
<1>1. ASSUME NEW u \in Slot, u \in UploadsOf(f)
      PROVE  [uploads[u] EXCEPT !.linked = FALSE] \in Upload
  <2>1. uploads[u] \in Upload
    BY <1>1 DEF UploadsInv, UploadsOf
  <2> QED
    BY <2>1 DEF Upload
<1> QED
  BY <1>1 DEF Unlinked, UploadsInv

(* UpdateFileStatus writes one of the three statuses into an existing row.  *)
LEMMA StatusUpdate ==
    ASSUME RowsInv, ProcInv, NEW f \in File, NEW a \in 0 .. 2, UpdateFileStatus(f, a)
    PROVE  RowsInv' /\ dirty' \in BOOLEAN
<1>1. CASE StatusOf(f) = "SENDING"
  <2>1. rows[f] \in Row
    BY <1>1 DEF StatusOf, RowsInv
  <2>2. \A s \in Status : [rows[f] EXCEPT !.status = s] \in Row
    BY <2>1 DEF Row
  <2>3. PICK s \in Status : rows' = [rows EXCEPT ![f].status = s]
    <3>1. CASE a = 1
      BY <1>1, <3>1 DEF UpdateFileStatus, RowsAfter, Status
    <3>2. CASE a = 0
      BY <1>1, <3>2 DEF UpdateFileStatus, RowsAfter, Status
    <3>3. CASE a = 2
      BY <1>1, <3>3 DEF UpdateFileStatus, RowsAfter, Status
    <3> QED
      BY <3>1, <3>2, <3>3
  <2> QED
    BY <2>2, <2>3 DEF UpdateFileStatus, RowsInv
<1>2. CASE StatusOf(f) # "SENDING"
  BY <1>2 DEF UpdateFileStatus, RowsAfter, RowsInv
<1> QED
  BY <1>1, <1>2

(* The same, or nothing at all, when a connection fails.                    *)
LEMMA FailureUpdate ==
    ASSUME RowsInv, ProcInv, NEW u \in Slot, uploads[u] \in Upload, ClientFails(u)
    PROVE  RowsInv' /\ dirty' \in BOOLEAN
<1>1. CASE UpdateFileStatus(uploads[u].file, 0)
  <2>1. uploads[u].file \in File
    BY DEF Upload
  <2> QED
    BY <1>1, <2>1, StatusUpdate
<1>2. CASE UNCHANGED <<rows, dirty>>
  BY <1>2 DEF RowsInv, ProcInv
<1> QED
  BY <1>1, <1>2 DEF ClientFails

-----------------------------------------------------------------------------
LEMMA InitIInv == Init => IInv
<1> SUFFICES ASSUME Init PROVE IInv
  OBVIOUS
<1>1. UserInv /\ RowsInv /\ UploadsInv
  BY BoundsAssumption DEF Init, UserInv, RowsInv, UploadsInv
<1>2. ProcInv
  BY DEF Init, ProcInv
<1>3. SyncroInv
  BY DEF Init, SyncroInv, OutTimes
<1>4. StoreInv
  BY DEF Init, StoreInv, OutTimes
<1>5. RemovalsInv /\ FaultsInv
  BY BoundsAssumption DEF Init, RemovalsInv, FaultsInv
<1> QED
  BY <1>1, <1>2, <1>3, <1>4, <1>5 DEF IInv

(* What an action leaves alone keeps its part of the invariant.             *)
LEMMA Frame ==
    ASSUME IInv
    PROVE  /\ UNCHANGED userVars => UserInv'
           /\ UNCHANGED <<procVars, dirty>> => ProcInv'
           /\ UNCHANGED syncVars => SyncroInv'
           /\ UNCHANGED rows => RowsInv'
           /\ UNCHANGED uploads => UploadsInv'
           /\ UNCHANGED <<userDir, sfile, srow>> => StoreInv'
           /\ UNCHANGED removals => RemovalsInv'
           /\ UNCHANGED faults => FaultsInv'
<1>1. /\ UNCHANGED userVars => UserInv'
      /\ UNCHANGED <<procVars, dirty>> => ProcInv'
      /\ UNCHANGED syncVars => SyncroInv'
      /\ UNCHANGED rows => RowsInv'
      /\ UNCHANGED uploads => UploadsInv'
  BY DEF IInv, userVars, procVars, syncVars, UserInv, ProcInv, SyncroInv, RowsInv, UploadsInv
<1>2. /\ UNCHANGED <<userDir, sfile, srow>> => StoreInv'
      /\ UNCHANGED removals => RemovalsInv'
      /\ UNCHANGED faults => FaultsInv'
  BY DEF IInv, StoreInv, RemovalsInv, FaultsInv
<1> QED
  BY <1>1, <1>2

(* The user.                                                                *)
LEMMA UserStep ==
    ASSUME IInv, NEW f \in File, Edit(f) \/ MoveOut(f) \/ MoveBack(f)
    PROVE  IInv'
<1>1. UserActs
  BY DEF Edit, MoveOut, MoveBack
<1>2. SyncroInv' /\ RowsInv' /\ UploadsInv' /\ StoreInv' /\ RemovalsInv' /\ FaultsInv'
  BY <1>1, Frame DEF UserActs, serverVars
<1>3. ProcInv'
  BY <1>1 DEF IInv, UserActs, ProcInv, procVars
<1>4. edits < MaxEdits /\ edits' = edits + 1
  BY <1>1 DEF UserActs, Edit, MoveOut, MoveBack, UserMay
<1>5. edits + 1 \in Data
  BY <1>4, BoundsAssumption DEF IInv, UserInv, Data
<1>6. CASE Edit(f)
  <2>1. PICK t \in {now, now + 1} :
           now' = t /\ disk' = [disk EXCEPT ![f] = [lmt |-> t, data |-> edits + 1]]
    BY <1>6 DEF Edit
  <2>2. t \in Nat /\ t <= edits + 1 /\ t \in Time
    BY <1>4, BoundsAssumption DEF IInv, UserInv, Time
  <2>3. [lmt |-> t, data |-> edits + 1] \in Version
    BY <1>5, <2>2 DEF Version
  <2>4. away' = away
    BY <1>6 DEF Edit
  <2> QED
    BY <1>2, <1>3, <1>4, <2>1, <2>2, <2>3, <2>4, BoundsAssumption DEF IInv, UserInv
<1>7. CASE MoveOut(f) \/ MoveBack(f)
  <2>1. UserInv'
    BY <1>4, <1>7, BoundsAssumption DEF IInv, UserInv, MoveOut, MoveBack
  <2> QED
    BY <1>2, <1>3, <2>1 DEF IInv
<1> QED
  BY <1>6, <1>7

(* Syncro.                                                                  *)

(* The maps that Syncro reads from the folder.                              *)
LEMMA DiskTimes ==
    ASSUME UserInv
    PROVE  [f \in File |-> IF disk[f] = NoFile THEN NoTime ELSE disk[f].lmt]
              \in [File -> OutTimes]
  BY DEF UserInv, Version, OutTimes

LEMMA NoTimes == [f \in File |-> NoTime] \in [File -> OutTimes]
  BY DEF OutTimes

LEMMA NoticeType ==
    ASSUME ProcInv, NoticeRows, UNCHANGED procVars
    PROVE  ProcInv'
  BY DEF ProcInv, NoticeRows, procVars

(* The steps that read: the trees and the modification times.               *)
LEMMA ReadingSteps ==
    ASSUME IInv, WatcherCalls \/ InitHashStat \/ ClientTree \/ SyncroEnds
    PROVE  IInv'
<1>1. /\ UNCHANGED <<userVars, rows, uploads, serverVars, faults>>
      /\ UNCHANGED <<up, ctree, stree, todo, stat>> \/ InitHashStat \/ ClientTree
  BY DEF WatcherCalls, InitHashStat, ClientTree, SyncroEnds, procVars
<1>2. UserInv' /\ RowsInv' /\ UploadsInv' /\ StoreInv' /\ RemovalsInv' /\ FaultsInv'
  BY <1>1, Frame DEF serverVars
<1>3. ProcInv'
  BY DEF IInv, ProcInv, procVars, WatcherCalls, InitHashStat, ClientTree, SyncroEnds
<1>4. SyncroInv'
  <2>1. CASE WatcherCalls \/ SyncroEnds
    BY <2>1 DEF IInv, SyncroInv, WatcherCalls, SyncroEnds
  <2>2. CASE InitHashStat
    BY <2>2, DiskTimes DEF IInv, SyncroInv, InitHashStat
  <2>3. CASE ClientTree
    BY <2>3, DiskTimes DEF IInv, SyncroInv, ClientTree
  <2> QED
    BY <2>1, <2>2, <2>3
<1> QED
  BY <1>2, <1>3, <1>4 DEF IInv

(* The steps that write the status table: a new row has the digest and the  *)
(* time of a version of the file.                                           *)
LEMMA TableSteps ==
    ASSUME IInv, InitHashInsert \/ CleanOldRows \/ AlignStatus
    PROVE  IInv'
<1>1. /\ UNCHANGED <<userVars, procVars, uploads, serverVars, faults>>
      /\ NoticeRows
  BY DEF InitHashInsert, CleanOldRows, AlignStatus, SameFileSameLmt
<1>2. UserInv' /\ UploadsInv' /\ StoreInv' /\ RemovalsInv' /\ FaultsInv'
  BY <1>1, Frame DEF serverVars
<1>3. ProcInv'
  BY <1>1, NoticeType DEF IInv
<1>4. SyncroInv'
  BY NoTimes DEF IInv, SyncroInv, InitHashInsert, CleanOldRows, AlignStatus, SameFileSameLmt
<1>5. RowsInv'
  <2>1. CASE InitHashInsert
    <3>1. ASSUME NEW f \in File, stat[f] # NoTime, disk[f] # NoFile
          PROVE  [hash |-> disk[f].data, lmt |-> stat[f], status |-> "NEW"] \in Row
      <4>1. stat[f] \in Time /\ disk[f] \in Version
        BY <3>1 DEF IInv, SyncroInv, UserInv, OutTimes
      <4> QED
        BY <4>1 DEF Row, Version, Status
    <3> QED
      BY <2>1, <3>1 DEF IInv, RowsInv, InitHashInsert
  <2>2. CASE CleanOldRows
    BY <2>2 DEF IInv, RowsInv, CleanOldRows
  <2>3. CASE AlignStatus
    <3>1. ASSUME NEW f \in File, AlreadyHashed(f, ctree[f])
          PROVE  [rows[f] EXCEPT !.status = "SENT"] \in Row
      <4>1. rows[f] \in Row
        BY <3>1 DEF IInv, RowsInv, AlreadyHashed
      <4> QED
        BY <4>1 DEF Row, Status
    <3> QED
      BY <2>3, <3>1 DEF IInv, RowsInv, AlignStatus, SameFileSameLmt
  <2> QED
    BY <2>1, <2>2, <2>3
<1> QED
  BY <1>2, <1>3, <1>4, <1>5 DEF IInv

LEMMA RequestTreeStep ==
    ASSUME IInv, RequestTree
    PROVE  IInv'
<1>1. UserInv' /\ ProcInv' /\ RowsInv' /\ UploadsInv' /\ RemovalsInv' /\ FaultsInv'
  BY Frame DEF RequestTree
<1>2. srow' \in [File -> OutTimes]
  BY NoTimes DEF IInv, StoreInv, RequestTree, TableCreated, ServerTree, TimeFromPath
<1>3. StoreInv'
  BY <1>2 DEF IInv, StoreInv, RequestTree, TableCreated, ServerTree, TimeFromPath
<1>4. 0 \in OutTimes /\ NoTime \in OutTimes
  BY BoundsAssumption DEF OutTimes, Time
<1>5. stree' \in [File -> OutTimes]
  BY <1>2, <1>4 DEF RequestTree, TableCreated, ServerTree, TimeFromPath
<1>6. SyncroInv'
  BY <1>5 DEF IInv, SyncroInv, RequestTree, TableCreated, ServerTree, TimeFromPath
<1> QED
  BY <1>1, <1>3, <1>6 DEF IInv

(* SendRemoval adds a removal of a file only below the bound.               *)
LEMMA SendRemovalStep ==
    ASSUME IInv, SendRemoval
    PROVE  IInv'
<1>1. UserInv' /\ ProcInv' /\ RowsInv' /\ UploadsInv' /\ StoreInv' /\ FaultsInv'
  BY Frame DEF SendRemoval
<1>2. SyncroInv'
  BY NoTimes DEF IInv, SyncroInv, SendRemoval, Removed, ToBeSent
<1>3. RemovalsInv'
  <2> DEFINE removed == {f \in File : stree[f] # NoTime /\ ctree[f] = NoTime}
  <2>1. /\ \A f \in removed : removals[f].sent + removals[f].unlinked < MaxRemovals
        /\ removals' = [f \in File |-> IF f \in removed
                                          THEN [removals[f] EXCEPT !.sent = @ + 1]
                                          ELSE removals[f]]
    BY DEF SendRemoval, Removed, ToBeSent
  <2>2. ASSUME NEW f \in File
        PROVE  /\ removals'[f] \in [sent : Nat, unlinked : Nat]
               /\ removals'[f].sent + removals'[f].unlinked <= MaxRemovals
    <3>1. /\ removals[f] \in [sent : Nat, unlinked : Nat]
          /\ removals[f].sent \in Nat /\ removals[f].unlinked \in Nat
          /\ removals[f].sent + removals[f].unlinked <= MaxRemovals
      BY DEF IInv, RemovalsInv
    <3>2. CASE f \in removed
      <4>1. removals'[f] = [removals[f] EXCEPT !.sent = @ + 1]
        BY <2>1, <3>2
      <4>2. /\ removals'[f] \in [sent : Nat, unlinked : Nat]
            /\ removals'[f].sent = removals[f].sent + 1
            /\ removals'[f].unlinked = removals[f].unlinked
        BY <3>1, <4>1
      <4>3. removals[f].sent + removals[f].unlinked < MaxRemovals
        BY <2>1, <3>2
      <4> QED
        BY <3>1, <4>2, <4>3, BoundsAssumption
    <3>3. CASE f \notin removed
      BY <2>1, <3>1, <3>3
    <3> QED
      BY <3>2, <3>3
  <2> QED
    BY <2>1, <2>2 DEF RemovalsInv
<1> QED
  BY <1>1, <1>2, <1>3 DEF IInv

LEMMA DispatchStep ==
    ASSUME IInv, NEW f \in File, Dispatch(f)
    PROVE  IInv'
<1>1. UserInv' /\ StoreInv' /\ RemovalsInv' /\ FaultsInv'
  BY Frame DEF Dispatch, serverVars
<1>2. ProcInv'
  BY NoticeType DEF IInv, Dispatch
<1>3. SyncroInv'
  BY DEF IInv, SyncroInv, Dispatch
<1>4. RowsInv' /\ UploadsInv'
  <2>1. CASE StatusOf(f) = "NEW"
    <3>1. rows[f] \in Row
      BY <2>1 DEF IInv, RowsInv, StatusOf
    <3>2. [rows[f] EXCEPT !.status = "SENDING"] \in Row
      BY <3>1 DEF Row, Status
    <3>3. [file |-> f, hash |-> rows[f].hash, lmt |-> rows[f].lmt, c |-> "queued",
           s |-> "none", seen |-> 0, sent |-> NoTime, linked |-> FALSE,
           answer |-> 0] \in Upload
      <4>1. 0 \in Data
        BY BoundsAssumption DEF Data
      <4> QED
        BY <3>1, <4>1 DEF Row, Upload
    <3>4. PICK u \in Slot : uploads' = [uploads EXCEPT ![u] =
             [file |-> f, hash |-> rows[f].hash, lmt |-> rows[f].lmt, c |-> "queued",
              s |-> "none", seen |-> 0, sent |-> NoTime, linked |-> FALSE,
              answer |-> 0]]
      BY <2>1 DEF Dispatch
    <3>5. UploadsInv'
      BY <3>3, <3>4 DEF IInv, UploadsInv
    <3>6. rows' = [rows EXCEPT ![f].status = "SENDING"]
      BY <2>1 DEF Dispatch
    <3> QED
      BY <3>2, <3>5, <3>6 DEF IInv, RowsInv
  <2>2. CASE StatusOf(f) # "NEW"
    BY <2>2, Frame DEF Dispatch
  <2> QED
    BY <2>1, <2>2
<1> QED
  BY <1>1, <1>2, <1>3, <1>4 DEF IInv

-----------------------------------------------------------------------------
(* The uploads.                                                             *)

(* An upload in progress is an Upload.                                      *)
LEMMA Existing ==
    ASSUME UploadsInv, NEW u \in Slot, uploads[u] # NoUpload
    PROVE  uploads[u] \in Upload
  BY DEF UploadsInv

(* The name of the file is a folder by now.                                 *)
FolderInstead(f) == ~Present(f) /\ \E g \in Below(f) : Present(g)

ConnectsToFile(u) == Connect(u) /\ ~FolderInstead(uploads[u].file)

ConnectsToFolder(u) == Connect(u) /\ FolderInstead(uploads[u].file)

LEMMA FolderUpload ==
    ASSUME NEW r \in Upload
    PROVE  [r EXCEPT !.c = "done", !.sent = 0] \in Upload
<1>1. 0 \in Data
  BY BoundsAssumption DEF Data
<1> QED
  BY <1>1 DEF Upload

LEMMA ConnectsTo ==
    ASSUME NEW u \in Slot, Connect(u)
    PROVE  ConnectsToFile(u) \/ ConnectsToFolder(u)
  BY DEF ConnectsToFile, ConnectsToFolder

(* The steps of the FileSipper that do not write the table.                 *)
LEMMA SipperSends ==
    ASSUME IInv, NEW u \in Slot, ConnectsToFile(u) \/ ReadAndSend(u)
    PROVE  IInv'
<1> USE DEF ConnectsToFile, FolderInstead
<1>1. /\ UserInv' /\ ProcInv' /\ SyncroInv' /\ RowsInv'
      /\ StoreInv' /\ RemovalsInv' /\ FaultsInv'
  BY Frame DEF Connect, ReadAndSend, serverVars
<1>2. uploads[u] \in Upload
  BY Existing DEF IInv, Connect, ReadAndSend, Sipping
<1>3. uploads[u].file \in File
  BY <1>2 DEF Upload
<1>4. PICK r \in Upload : Becomes(u, r)
  <2>1. CASE ConnectsToFile(u) /\ Present(uploads[u].file)
    <3>1. disk[uploads[u].file].data \in Data
      BY <1>3, <2>1 DEF IInv, UserInv, Version, Present
    <3>2. [uploads[u] EXCEPT !.c = "opened", !.seen = disk[uploads[u].file].data] \in Upload
      BY <1>2, <3>1 DEF Upload
    <3> QED
      BY <2>1, <3>2 DEF Connect
  <2>2. CASE ConnectsToFile(u) /\ ~Present(uploads[u].file)
    <3>1. [uploads[u] EXCEPT !.c = "done", !.s = "gone"] \in Upload
      BY <1>2 DEF Upload
    <3> QED
      BY <2>2, <3>1 DEF Connect
  <2>3. CASE ReadAndSend(u)
    <3>1. PICK d \in Data : Becomes(u, [uploads[u] EXCEPT !.c = "waiting", !.sent = d])
      BY <2>3 DEF ReadAndSend
    <3>2. [uploads[u] EXCEPT !.c = "waiting", !.sent = d] \in Upload
      BY <1>2 DEF Upload
    <3> QED
      BY <3>1, <3>2
  <2> QED
    BY <2>1, <2>2, <2>3
<1>5. UploadsInv'
  BY <1>4, BecomesUpload DEF IInv
<1> QED
  BY <1>1, <1>5 DEF IInv

(* The steps of the FileSipper that settle the row, and broken connections. *)
LEMMA SipperSettles ==
    ASSUME IInv, NEW u \in Slot,
           \/ ConnectsToFolder(u) \/ ConnectFails(u) \/ ClientGetsAnswer(u)
           \/ Break(u) \/ SeesServerGone(u)
    PROVE  IInv'
<1> USE DEF ConnectsToFolder, FolderInstead
<1>1. UserInv' /\ SyncroInv' /\ StoreInv' /\ RemovalsInv'
  BY Frame DEF Connect, ConnectFails, ClientGetsAnswer, Break, SeesServerGone, serverVars
<1>2. uploads[u] \in Upload
  BY Existing DEF IInv, Connect, ConnectFails, ClientGetsAnswer, Break, SeesServerGone, Sipping
<1>3. uploads[u].file \in File /\ uploads[u].answer \in 0 .. 2
  BY <1>2 DEF Upload
<1>4. FaultsInv'
  BY BoundsAssumption DEF IInv, FaultsInv, Fault, Connect, ConnectFails, ClientGetsAnswer, Break,
       SeesServerGone
<1>5. RowsInv' /\ dirty' \in BOOLEAN
  <2>1. CASE ConnectsToFolder(u) \/ ConnectFails(u) \/ ClientGetsAnswer(u)
    BY <1>3, <2>1, StatusUpdate DEF IInv, Connect, ConnectFails, ClientGetsAnswer
  <2>2. CASE Break(u) \/ SeesServerGone(u)
    BY <1>2, <2>2, FailureUpdate DEF IInv, Break, SeesServerGone
  <2> QED
    BY <2>1, <2>2
<1>6. ProcInv'
  BY <1>5 DEF IInv, ProcInv, procVars, Connect, ConnectFails, ClientGetsAnswer, Break,
       SeesServerGone
<1>7. PICK r \in Upload : Becomes(u, r)
  <2>1. CASE ConnectFails(u) \/ ClientGetsAnswer(u)
    <3>1. [uploads[u] EXCEPT !.c = "done", !.s = "gone"] \in Upload
      BY <1>2 DEF Upload
    <3> QED
      BY <2>1, <3>1 DEF ConnectFails, ClientGetsAnswer
  <2>2. CASE Break(u)
    <3>1. PICK reset \in BOOLEAN :
             Becomes(u, [ServiceSees(uploads[u], reset) EXCEPT !.c = "done"])
      BY <2>2 DEF Break
    <3>2. ServiceSees(uploads[u], reset) \in Upload
      BY <1>2, ServiceSeesUpload
    <3>3. [ServiceSees(uploads[u], reset) EXCEPT !.c = "done"] \in Upload
      BY <3>2 DEF Upload
    <3> QED
      BY <3>1, <3>3
  <2>3. CASE SeesServerGone(u)
    <3>1. [uploads[u] EXCEPT !.c = "done"] \in Upload
      BY <1>2 DEF Upload
    <3> QED
      BY <2>3, <3>1 DEF SeesServerGone
  <2>4. CASE ConnectsToFolder(u)
    <3>1. [uploads[u] EXCEPT !.c = "done", !.sent = 0] \in Upload
      BY <1>2, FolderUpload
    <3> QED
      BY <2>4, <3>1 DEF Connect
  <2> QED
    BY <2>1, <2>2, <2>3, <2>4
<1>8. UploadsInv'
  BY <1>7, BecomesUpload DEF IInv
<1> QED
  BY <1>1, <1>4, <1>5, <1>6, <1>8 DEF IInv

(* The steps of the AsyncService that concern its own upload only.          *)
LEMMA ServiceSteps ==
    ASSUME IInv, NEW u \in Slot,
           \/ ServerOpens(u) \/ ServerCloses(u) \/ ServerDigests(u)
           \/ ServerChecksExists(u) \/ ServerInserts(u) \/ ServerRefuses(u)
    PROVE  IInv'
<1> USE DEF Serving
<1>1. /\ UserInv' /\ ProcInv' /\ SyncroInv' /\ RowsInv'
      /\ RemovalsInv' /\ FaultsInv'
  BY Frame DEF ServerOpens, ServerCloses, ServerDigests, ServerChecksExists,
       ServerInserts, ServerRefuses, serverVars
<1>2. uploads[u] \in Upload
  BY Existing DEF IInv, ServerOpens, ServerCloses, ServerDigests, ServerChecksExists,
       ServerInserts, ServerRefuses
<1>3. uploads[u].file \in File /\ uploads[u].lmt \in Time
      /\ uploads[u].sent \in Data \cup {NoTime} /\ 0 \in Data
  BY <1>2, BoundsAssumption DEF Upload, Data
<1>4. StoreInv'
  <2>1. CASE ServerOpens(u)
    BY <1>3, <2>1 DEF IInv, StoreInv, ServerOpens
  <2>2. CASE ServerCloses(u)
    <3>1. PICK d \in IF uploads[u].linked
                       THEN Merged(sfile[uploads[u].file], uploads[u].sent)
                       ELSE {sfile[uploads[u].file]} :
             sfile' = [sfile EXCEPT ![uploads[u].file] = d]
      BY <2>2 DEF ServerCloses
    <3>2. uploads[u].sent \in Data
      BY <1>3, <2>2 DEF ServerCloses
    <3>3. d \in Data \cup {NoFile}
      BY <1>3, <3>1, <3>2 DEF Merged, IInv, StoreInv
    <3> QED
      BY <2>2, <3>1, <3>3 DEF IInv, StoreInv, ServerCloses
  <2>3. CASE ServerInserts(u)
    BY <1>3, <2>3 DEF IInv, StoreInv, ServerInserts, OutTimes
  <2>4. CASE ServerDigests(u) \/ ServerChecksExists(u) \/ ServerRefuses(u)
    BY <2>4, Frame DEF ServerDigests, ServerChecksExists, ServerRefuses, serverVars
  <2> QED
    BY <2>1, <2>2, <2>3, <2>4
<1>5. PICK r \in Upload : Becomes(u, r)
  <2>1. \A s \in {"deaf", "refused", "opened", "closed", "equal", "differs", "exists"} :
           \A b \in BOOLEAN : /\ [uploads[u] EXCEPT !.s = s] \in Upload
                             /\ [uploads[u] EXCEPT !.s = s, !.linked = b] \in Upload
    BY <1>2 DEF Upload
  <2>2. ASSUME NEW a \in 0 .. 2, Answers(u, a) PROVE \E r \in Upload : Becomes(u, r)
    BY <1>2, <2>2, AnsweredUpload DEF Answers
  <2>3. CASE ServerOpens(u)
    <3>1. \E p, b : Becomes(u, [uploads[u] EXCEPT
                      !.s = IF ~p THEN "deaf"
                            ELSE IF uploads[u].file \in TooLong THEN "refused" ELSE "opened",
                      !.linked = b])
                /\ b \in BOOLEAN
      BY <2>3 DEF ServerOpens
    <3> QED
      BY <2>1, <3>1
  <2>4. CASE ServerCloses(u)
    BY <2>1, <2>4 DEF ServerCloses
  <2>5. CASE ServerDigests(u)
    <3>1. \E s \in {"equal", "differs"} : Becomes(u, [uploads[u] EXCEPT !.s = s])
      BY <2>5 DEF ServerDigests
    <3> QED
      BY <2>1, <3>1
  <2>6. CASE ServerChecksExists(u) \/ ServerInserts(u) \/ ServerRefuses(u)
    <3>1. \/ Becomes(u, [uploads[u] EXCEPT !.s = "exists"])
          \/ \E a \in 0 .. 2 : Answers(u, a)
      BY <2>6 DEF ServerChecksExists, ServerInserts, ServerRefuses
    <3> QED
      BY <2>1, <2>2, <3>1
  <2> QED
    BY <2>3, <2>4, <2>5, <2>6
<1>6. UploadsInv'
  BY <1>5, BecomesUpload DEF IInv
<1> QED
  BY <1>1, <1>4, <1>6 DEF IInv

(* A write fails.                                                           *)
LEMMA WriteFailsStep ==
    ASSUME IInv, NEW u \in Slot, ServerWriteFails(u)
    PROVE  IInv'
<1>1. /\ UserInv' /\ ProcInv' /\ SyncroInv' /\ RowsInv' /\ RemovalsInv'
  BY Frame DEF ServerWriteFails
<1>2. uploads[u] \in Upload
  BY Existing DEF IInv, ServerWriteFails, Serving
<1>3. uploads[u].file \in File /\ 0 \in Data
  BY <1>2, BoundsAssumption DEF Upload, Data
<1>4. StoreInv'
  <2>1. PICK d \in Merged(sfile[uploads[u].file], 0) :
           sfile' = [sfile EXCEPT ![uploads[u].file] = d]
    BY DEF ServerWriteFails
  <2>2. d \in Data \cup {NoFile}
    BY <1>3, <2>1 DEF Merged, IInv, StoreInv
  <2>3. userDir' = userDir /\ srow' = srow
    BY DEF ServerWriteFails
  <2> QED
    BY <2>1, <2>2, <2>3 DEF IInv, StoreInv
<1>5. UploadsInv'
  <2>1. [uploads[u] EXCEPT !.s = "closed", !.linked = FALSE] \in Upload
    BY <1>2 DEF Upload
  <2> QED
    BY <2>1, BecomesUpload DEF IInv, ServerWriteFails
<1>6. FaultsInv'
  BY BoundsAssumption DEF IInv, FaultsInv, Fault, ServerWriteFails
<1> QED
  BY <1>1, <1>4, <1>5, <1>6 DEF IInv

(* A file removed by one service loses its name for every other.            *)
LEMMA RemovesCorruptStep ==
    ASSUME IInv, NEW u \in Slot, ServerRemovesCorrupt(u)
    PROVE  IInv'
<1>1. /\ UserInv' /\ ProcInv' /\ SyncroInv' /\ RowsInv'
      /\ RemovalsInv' /\ FaultsInv'
  BY Frame DEF ServerRemovesCorrupt
<1>2. uploads[u] \in Upload
  BY Existing DEF IInv, ServerRemovesCorrupt, Serving
<1>3. uploads[u].file \in File
  BY <1>2 DEF Upload
<1>4. StoreInv'
  BY <1>3 DEF IInv, StoreInv, ServerRemovesCorrupt
<1>5. UploadsInv'
  <2> DEFINE w == Unlinked(uploads[u].file)
  <2>1. w \in [Slot -> Upload \cup {NoUpload}]
    BY <1>3, UnlinkedUploads DEF IInv
  <2>2. w[u] \in Upload
    <3>1. u \in UploadsOf(uploads[u].file)
      BY DEF UploadsOf, ServerRemovesCorrupt, Serving
    <3>2. w[u] = [uploads[u] EXCEPT !.linked = FALSE]
      BY <3>1 DEF Unlinked
    <3> QED
      BY <1>2, <3>2 DEF Upload
  <2>3. [w[u] EXCEPT !.s = "answered", !.answer = 0] \in Upload
    <3>1. 0 \in 0 .. 2
      OBVIOUS
    <3> QED
      BY <2>2, <3>1, AnsweredUpload, Zenon
  <2>4. uploads' = [w EXCEPT ![u] = IF w[u].c = "done" THEN NoUpload
                                     ELSE [w[u] EXCEPT !.s = "answered", !.answer = 0]]
    BY <2>1 DEF ServerRemovesCorrupt
  <2> HIDE DEF w
  <2> QED
    BY <2>1, <2>3, <2>4 DEF UploadsInv
<1> QED
  BY <1>1, <1>4, <1>5 DEF IInv

-----------------------------------------------------------------------------
(* Removals, stops and starts.                                              *)

(* A removal that goes on stays counted; one that ends is not any more.     *)
LEMMA RemovalStep ==
    ASSUME IInv, NEW f \in File, RemovalUnlinks(f) \/ RemovalDeletesRow(f)
    PROVE  IInv'
<1>1. /\ UserInv' /\ ProcInv' /\ SyncroInv' /\ RowsInv' /\ FaultsInv'
  BY Frame DEF RemovalUnlinks, RemovalDeletesRow
<1>2. UploadsInv'
  BY UnlinkedUploads DEF IInv, UploadsInv, RemovalUnlinks, RemovalDeletesRow
<1>3. StoreInv'
  BY DEF IInv, StoreInv, OutTimes, RemovalUnlinks, RemovalDeletesRow
<1>4. RemovalsInv'
  <2>1. /\ removals[f] \in [sent : Nat, unlinked : Nat]
        /\ removals[f].sent \in Nat /\ removals[f].unlinked \in Nat
        /\ removals[f].sent + removals[f].unlinked <= MaxRemovals
    BY DEF IInv, RemovalsInv
  <2>2. PICK r \in [sent : Nat, unlinked : Nat] :
           /\ removals' = [removals EXCEPT ![f] = r]
           /\ r.sent + r.unlinked <= MaxRemovals
    <3>1. CASE RemovalUnlinks(f)
      <4> DEFINE r == [sent |-> removals[f].sent - 1, unlinked |-> removals[f].unlinked + 1]
      <4>1. removals[f].sent > 0 /\ removals' = [removals EXCEPT ![f] = r]
        BY <3>1 DEF RemovalUnlinks
      <4>2. r \in [sent : Nat, unlinked : Nat] /\ r.sent + r.unlinked <= MaxRemovals
        BY <2>1, <4>1, BoundsAssumption
      <4> QED
        BY <4>1, <4>2
    <3>2. CASE RemovalDeletesRow(f)
      <4> DEFINE r == [removals[f] EXCEPT !.unlinked = @ - 1]
      <4>1. removals[f].unlinked > 0 /\ removals' = [removals EXCEPT ![f] = r]
        BY <3>2 DEF RemovalDeletesRow
      <4>2. /\ r \in [sent : Nat, unlinked : Nat]
            /\ r.sent = removals[f].sent /\ r.unlinked = removals[f].unlinked - 1
        BY <2>1, <4>1
      <4>3. r.sent + r.unlinked <= MaxRemovals
        BY <2>1, <4>2, BoundsAssumption
      <4> QED
        BY <4>1, <4>2, <4>3
    <3> QED
      BY <3>1, <3>2
  <2> QED
    BY <2>2 DEF IInv, RemovalsInv
<1> QED
  BY <1>1, <1>2, <1>3, <1>4 DEF IInv

LEMMA ClientStopsStep ==
    ASSUME IInv, ClientStops
    PROVE  IInv'
<1>1. UserInv' /\ RowsInv' /\ StoreInv' /\ RemovalsInv'
  BY Frame DEF ClientStops, serverVars
<1>2. ProcInv' /\ SyncroInv'
  BY NoTimes DEF IInv, ProcInv, SyncroInv, ClientStops
<1>3. FaultsInv'
  BY BoundsAssumption DEF IInv, FaultsInv, Fault, ClientStops
<1>4. UploadsInv'
  <2>1. PICK reset \in SUBSET Slot :
           uploads' = [u \in Slot |->
              IF uploads[u] = NoUpload \/ uploads[u].c = "queued" THEN NoUpload
              ELSE LET r == ServiceSees(uploads[u], u \in reset)
                   IN  IF r.s \in {"answered", "deaf", "gone"} THEN NoUpload
                       ELSE [r EXCEPT !.c = "done"]]
    BY DEF ClientStops
  <2>2. ASSUME NEW u \in Slot, uploads[u] # NoUpload
        PROVE  [ServiceSees(uploads[u], u \in reset) EXCEPT !.c = "done"] \in Upload
    <3>1. uploads[u] \in Upload
      BY <2>2, Existing DEF IInv
    <3>2. (u \in reset) \in BOOLEAN
      OBVIOUS
    <3>3. ServiceSees(uploads[u], u \in reset) \in Upload
      BY <3>1, <3>2, ServiceSeesUpload
    <3> QED
      BY <3>3 DEF Upload
  <2> QED
    BY <2>1, <2>2 DEF UploadsInv
<1> QED
  BY <1>1, <1>2, <1>3, <1>4 DEF IInv

LEMMA ClientStartsStep ==
    ASSUME IInv, ClientStarts
    PROVE  IInv'
<1>1. UserInv' /\ UploadsInv' /\ StoreInv' /\ RemovalsInv' /\ FaultsInv'
  BY Frame DEF ClientStarts, serverVars
<1>2. ProcInv' /\ SyncroInv'
  BY DEF IInv, ProcInv, SyncroInv, ClientStarts, RowsRecovered
<1>3. RowsInv'
  <2>1. ASSUME NEW f \in File, StatusOf(f) = "SENDING"
        PROVE  [rows[f] EXCEPT !.status = "NEW"] \in Row
    <3>1. rows[f] \in Row
      BY <2>1 DEF IInv, RowsInv, StatusOf
    <3> QED
      BY <3>1 DEF Row, Status
  <2> QED
    BY <2>1 DEF IInv, RowsInv, ClientStarts, RowsRecovered
<1> QED
  BY <1>1, <1>2, <1>3 DEF IInv

LEMMA ServerStopsStep ==
    ASSUME IInv, ServerStops
    PROVE  IInv'
<1>1. UserInv' /\ ProcInv' /\ SyncroInv' /\ RowsInv' /\ StoreInv'
  BY Frame DEF ServerStops
<1>2. FaultsInv'
  <2>1. faults < MaxFaults /\ faults' = faults + 1
    BY DEF ServerStops, Fault
  <2> QED
    BY <2>1, BoundsAssumption DEF IInv, FaultsInv
<1>3. RemovalsInv'
  <2>1. removals' = [f \in File |-> [sent |-> 0, unlinked |-> 0]]
    BY DEF ServerStops
  <2>2. \A f \in File : /\ removals'[f] \in [sent : Nat, unlinked : Nat]
                        /\ removals'[f].sent = 0 /\ removals'[f].unlinked = 0
    BY <2>1
  <2> QED
    BY <2>1, <2>2, BoundsAssumption DEF RemovalsInv
<1>4. UploadsInv'
  <2>1. ASSUME NEW u \in Slot, uploads[u] # NoUpload
        PROVE  [uploads[u] EXCEPT !.s = "gone", !.linked = FALSE] \in Upload
    <3>1. uploads[u] \in Upload
      BY <2>1, Existing DEF IInv
    <3> QED
      BY <3>1 DEF Upload
  <2> QED
    BY <2>1 DEF IInv, UploadsInv, ServerStops
<1> QED
  BY <1>1, <1>2, <1>3, <1>4 DEF IInv

-----------------------------------------------------------------------------
LEMMA NextIInv == IInv /\ [Next]_vars => IInv'
<1> SUFFICES ASSUME IInv, [Next]_vars PROVE IInv'
  OBVIOUS
<1>1. CASE User
  BY <1>1, UserStep DEF User
<1>2. CASE Syncro
  BY <1>2, ReadingSteps, TableSteps, RequestTreeStep, SendRemovalStep, DispatchStep
     DEF Syncro
<1>3. ASSUME NEW u \in Slot, Sipper(u) \/ ConnectFails(u) \/ Break(u) PROVE IInv'
  BY <1>3, ConnectsTo, SipperSends, SipperSettles DEF Sipper
<1>4. ASSUME NEW u \in Slot, ServiceStep(u) \/ ServerWriteFails(u) PROVE IInv'
  BY <1>4, ServiceSteps, RemovesCorruptStep, WriteFailsStep DEF ServiceStep
<1>5. ASSUME NEW f \in File, Removal(f) PROVE IInv'
  BY <1>5, RemovalStep DEF Removal
<1>6. CASE ClientStops \/ ClientStarts \/ ServerStops
  BY <1>6, ClientStopsStep, ClientStartsStep, ServerStopsStep
<1>7. CASE UNCHANGED vars
  <2>1. /\ UNCHANGED <<userVars, procVars, dirty, syncVars, rows, uploads>>
        /\ UNCHANGED <<userDir, sfile, srow, removals, faults>>
    BY <1>7 DEF vars, serverVars
  <2> QED
    BY <2>1, Frame DEF IInv
<1> QED
  BY <1>1, <1>2, <1>3, <1>4, <1>5, <1>6, <1>7 DEF Next

(* Whatever the user, the threads, the connections and the two processes    *)
(* do, the invariant holds.                                                 *)
THEOREM Invariance == Spec => []IInv
  BY InitIInv, NextIInv, PTL DEF Spec

(* Every table, map and record of the backup keeps its type: among others,  *)
(* a row written from a file has the time and the digest of a version of    *)
(* it, a file of the server has a content that was sent or that truncation  *)
(* and interleaved writes can leave, and removals stay within their bound.  *)
THEOREM TypeCorrect == Spec => []TypeOK
  BY Invariance, IInvTypes, PTL

-----------------------------------------------------------------------------
(* A row in SENDING is not forgotten.  This needs honest modification times *)
(* (none equal to that of an older version) and a shutdown that does not    *)
(* throw; everything else may go wrong.                                     *)

(* No version, and no time read or written of one, is in the future.        *)
TimesInv ==
    /\ \A f \in File : disk[f] # NoFile => disk[f].lmt <= now
    /\ \A f \in File : away[f] # NoFile => away[f].lmt <= now
    /\ \A f \in File : rows[f] # NoRow => rows[f].lmt <= now
    /\ \A f \in File : stat[f] # NoTime => stat[f] <= now

(* No row appears and none has another time.                                *)
SameRows ==
    \A f \in File : rows'[f] # NoRow => rows[f] # NoRow /\ rows'[f].lmt = rows[f].lmt

(* A step that neither reads nor makes a version keeps the times in order.  *)
LEMMA TimesKept ==
    ASSUME TimesInv, SameRows, UNCHANGED userVars,
           UNCHANGED stat \/ stat' = [f \in File |-> NoTime]
    PROVE  TimesInv'
  BY DEF TimesInv, SameRows, userVars

(* Writing a status changes neither which rows there are nor their times.   *)
LEMMA StatusKeepsRows ==
    ASSUME RowsInv, NEW f \in File, rows[f] # NoRow, NEW s \in Status,
           rows' = [rows EXCEPT ![f].status = s]
    PROVE  SameRows
<1>1. rows[f] \in Row
  BY DEF RowsInv
<1>2. rows'[f].lmt = rows[f].lmt
  BY <1>1 DEF RowsInv, Row
<1>3. \A g \in File \ {f} : rows'[g] = rows[g]
  BY DEF RowsInv
<1> QED
  BY <1>2, <1>3 DEF SameRows

(* What UpdateFileStatus does to the row of a file and to the others: its   *)
(* row is not in SENDING afterwards.                                        *)
LEMMA StatusSettles ==
    ASSUME RowsInv, NEW f \in File, NEW a \in 0 .. 2, rows' = RowsAfter(f, a)
    PROVE  /\ SameRows
           /\ StatusOf(f)' # "SENDING"
           /\ \A g \in File \ {f} : rows'[g] = rows[g]
<1>1. CASE StatusOf(f) = "SENDING"
  <2>1. rows[f] \in Row /\ rows[f] # NoRow
    BY <1>1 DEF StatusOf, RowsInv
  <2>2. PICK s \in Status \ {"SENDING"} : rows' = [rows EXCEPT ![f].status = s]
    <3>1. CASE a = 1
      BY <1>1, <3>1 DEF RowsAfter, Status
    <3>2. CASE a = 0
      BY <1>1, <3>2 DEF RowsAfter, Status
    <3>3. CASE a = 2
      BY <1>1, <3>3 DEF RowsAfter, Status
    <3> QED
      BY <3>1, <3>2, <3>3
  <2>3. rows'[f].status = s
    BY <2>1, <2>2 DEF RowsInv, Row
  <2>4. SameRows
    BY <2>1, <2>2, StatusKeepsRows
  <2>5. StatusOf(f)' # "SENDING"
    BY <2>2, <2>3 DEF StatusOf
  <2>6. \A g \in File \ {f} : rows'[g] = rows[g]
    BY <2>2 DEF RowsInv
  <2> QED
    BY <2>4, <2>5, <2>6
<1>2. CASE StatusOf(f) # "SENDING"
  <2>1. rows' = rows
    BY <1>2 DEF RowsAfter
  <2> QED
    BY <1>2, <2>1 DEF SameRows, StatusOf
<1> QED
  BY <1>1, <1>2

LEMMA TimesOfUser ==
    ASSUME IInv, TimesInv, NEW f \in File, Edit(f) \/ MoveOut(f) \/ MoveBack(f)
    PROVE  TimesInv'
<1>1. rows' = rows /\ stat' = stat
  BY DEF Edit, MoveOut, MoveBack, UserActs, syncVars
<1>2. now \in Nat
  BY DEF IInv, UserInv
<1>3. CASE Edit(f)
  <2>1. PICK t \in {now, now + 1} :
           now' = t /\ disk' = [disk EXCEPT ![f] = [lmt |-> t, data |-> edits + 1]]
    BY <1>3 DEF Edit
  <2>2. away' = away
    BY <1>3 DEF Edit
  <2>3. now <= now' /\ now' \in Nat
    BY <1>2, <2>1
  <2>4. \A g \in File : disk'[g] # NoFile => disk'[g].lmt <= now'
    <3>1. disk'[f].lmt = now'
      BY <2>1 DEF IInv, UserInv
    <3>2. \A g \in File \ {f} : disk'[g] = disk[g]
      BY <2>1 DEF IInv, UserInv
    <3>3. \A g \in File : disk[g] # NoFile => disk[g].lmt \in Nat
      BY DEF IInv, UserInv, Version, Time
    <3> QED
      BY <1>2, <2>3, <3>1, <3>2, <3>3 DEF TimesInv
  <2>5. /\ \A g \in File : away[g] # NoFile => away[g].lmt \in Nat
        /\ \A g \in File : rows[g] # NoRow => rows[g].lmt \in Nat
        /\ \A g \in File : stat[g] # NoTime => stat[g] \in Nat
    BY DEF IInv, UserInv, RowsInv, SyncroInv, Version, Row, Time, OutTimes
  <2> QED
    BY <1>1, <1>2, <2>2, <2>3, <2>4, <2>5 DEF TimesInv
<1>4. CASE MoveOut(f)
  <2>1. disk' = [disk EXCEPT ![f] = NoFile] /\ away' = [away EXCEPT ![f] = disk[f]]
        /\ now' = now
    BY <1>4 DEF MoveOut
  <2> QED
    BY <1>1, <2>1 DEF IInv, UserInv, TimesInv
<1>5. CASE MoveBack(f)
  <2>1. disk' = [disk EXCEPT ![f] = away[f]] /\ away' = [away EXCEPT ![f] = NoFile]
        /\ now' = now
    BY <1>5 DEF MoveBack
  <2> QED
    BY <1>1, <2>1 DEF IInv, UserInv, TimesInv
<1> QED
  BY <1>3, <1>4, <1>5

LEMMA TimesOfSyncro ==
    ASSUME IInv, TimesInv, Syncro
    PROVE  TimesInv'
<1>1. UNCHANGED userVars
  BY DEF Syncro, WatcherCalls, InitHashStat, InitHashInsert, CleanOldRows, ClientTree,
     RequestTree, AlignStatus, SendRemoval, Dispatch, SyncroEnds
<1>2. CASE InitHashStat
  BY <1>1, <1>2 DEF InitHashStat, TimesInv, userVars
<1>3. CASE InitHashInsert
  <2>1. \A f \in File : rows'[f] # NoRow => rows'[f].lmt <= now
    <3>1. ASSUME NEW f \in File, rows'[f] # NoRow PROVE rows'[f].lmt <= now
      <4>1. \/ rows'[f] = rows[f]
            \/ /\ stat[f] # NoTime
               /\ rows'[f] = [hash |-> disk[f].data, lmt |-> stat[f], status |-> "NEW"]
        BY <1>3 DEF InitHashInsert
      <4> QED
        BY <3>1, <4>1 DEF TimesInv
    <3> QED
      BY <3>1
  <2> QED
    BY <1>1, <1>3, <2>1 DEF InitHashInsert, TimesInv, userVars
<1>4. CASE CleanOldRows
  <2>1. SameRows
    BY <1>4 DEF CleanOldRows, SameRows
  <2> QED
    BY <1>1, <1>4, <2>1, TimesKept DEF CleanOldRows
<1>5. CASE AlignStatus
  <2>1. SameRows
    <3>1. ASSUME NEW f \in File, rows'[f] # NoRow
          PROVE  rows[f] # NoRow /\ rows'[f].lmt = rows[f].lmt
      <4>1. \/ rows'[f] = rows[f]
            \/ rows[f] # NoRow /\ rows'[f] = [rows[f] EXCEPT !.status = "SENT"]
        BY <1>5 DEF AlignStatus, SameFileSameLmt, AlreadyHashed
      <4>2. CASE rows[f] # NoRow /\ rows'[f] = [rows[f] EXCEPT !.status = "SENT"]
        <5>1. rows[f] \in Row
          BY <4>2 DEF IInv, RowsInv
        <5> QED
          BY <4>2, <5>1 DEF Row
      <4> QED
        BY <3>1, <4>1, <4>2
    <3> QED
      BY <3>1 DEF SameRows
  <2> QED
    BY <1>1, <1>5, <2>1, TimesKept DEF AlignStatus, SameFileSameLmt
<1>6. ASSUME NEW f \in File, Dispatch(f) PROVE TimesInv'
  <2>1. CASE StatusOf(f) = "NEW"
    <3>1. rows[f] # NoRow /\ rows' = [rows EXCEPT ![f].status = "SENDING"]
      BY <1>6, <2>1 DEF Dispatch, StatusOf
    <3>2. SameRows
      BY <3>1, StatusKeepsRows DEF IInv, Status
    <3> QED
      BY <1>1, <1>6, <3>2, TimesKept DEF Dispatch
  <2>2. CASE StatusOf(f) # "NEW"
    BY <1>1, <1>6, <2>2, TimesKept DEF Dispatch, SameRows
  <2> QED
    BY <2>1, <2>2
<1>7. CASE WatcherCalls \/ ClientTree \/ RequestTree \/ SendRemoval \/ SyncroEnds
  <2>1. rows' = rows /\ stat' = stat
    BY <1>7 DEF WatcherCalls, ClientTree, RequestTree, SendRemoval, SyncroEnds
  <2> QED
    BY <1>1, <2>1, TimesKept DEF SameRows
<1> QED
  BY <1>2, <1>3, <1>4, <1>5, <1>6, <1>7 DEF Syncro

(* Uploads write at most statuses.                                         *)
LEMMA TimesOfOthers ==
    ASSUME IInv, TimesInv, NEW u \in Slot,
           Sipper(u) \/ ConnectFails(u) \/ Break(u) \/ ServiceStep(u) \/ ServerWriteFails(u)
    PROVE  TimesInv'
<1>1. UNCHANGED userVars /\ UNCHANGED stat
  BY DEF Sipper, Connect, ReadAndSend, ClientGetsAnswer, SeesServerGone, ConnectFails,
     Break, ServiceStep, ServerOpens, ServerCloses, ServerDigests, ServerChecksExists,
     ServerInserts, ServerRemovesCorrupt, ServerRefuses, ServerWriteFails, syncVars
<1>2. SameRows
  <2>1. CASE rows' = rows
    BY <2>1 DEF SameRows
  <2>2. ASSUME uploads[u] \in Upload, NEW a \in 0 .. 2,
               UpdateFileStatus(uploads[u].file, a)
        PROVE  SameRows
    <3>1. uploads[u].file \in File
      BY <2>2 DEF Upload
    <3> QED
      BY <2>2, <3>1, StatusSettles DEF IInv, UpdateFileStatus
  <2>3. CASE Connect(u) \/ ConnectFails(u) \/ ClientGetsAnswer(u)
    <3>1. uploads[u] \in Upload
      BY <2>3, Existing DEF IInv, Connect, ConnectFails, ClientGetsAnswer, Sipping
    <3>2. uploads[u].answer \in 0 .. 2
      BY <3>1 DEF Upload
    <3>3. rows' = rows \/ \E a \in 0 .. 2 : UpdateFileStatus(uploads[u].file, a)
      BY <2>3, <3>2 DEF Connect, ConnectFails, ClientGetsAnswer
    <3> QED
      BY <2>1, <2>2, <3>1, <3>3
  <2>4. CASE Break(u) \/ SeesServerGone(u)
    <3>1. uploads[u] \in Upload
      BY <2>4, Existing DEF IInv, Break, SeesServerGone
    <3> QED
      BY <2>1, <2>2, <2>4, <3>1 DEF Break, SeesServerGone, ClientFails
  <2>5. CASE ReadAndSend(u) \/ ServiceStep(u) \/ ServerWriteFails(u)
    <3>1. rows' = rows
      BY <2>5 DEF ReadAndSend, ServiceStep, ServerOpens, ServerCloses,
         ServerDigests, ServerChecksExists, ServerInserts, ServerRemovesCorrupt,
         ServerRefuses, ServerWriteFails
    <3> QED
      BY <2>1, <3>1
  <2> QED
    BY <2>3, <2>4, <2>5 DEF Sipper
<1> QED
  BY <1>1, <1>2, TimesKept

LEMMA TimesOfStops ==
    ASSUME IInv, TimesInv, ClientStops \/ ClientStarts \/ ServerStops
    PROVE  TimesInv'
<1>1. UNCHANGED userVars /\ (UNCHANGED stat \/ stat' = [f \in File |-> NoTime])
  BY DEF ClientStops, ClientStarts, ServerStops, syncVars
<1>2. SameRows
  <2>1. CASE ClientStarts
    <3>1. ASSUME NEW f \in File, rows'[f] # NoRow
          PROVE  rows[f] # NoRow /\ rows'[f].lmt = rows[f].lmt
      <4>1. CASE StatusOf(f) = "SENDING"
        <5>1. rows[f] \in Row /\ rows[f] # NoRow
          BY <4>1 DEF IInv, RowsInv, StatusOf
        <5>2. rows'[f] = [rows[f] EXCEPT !.status = "NEW"]
          BY <2>1, <4>1 DEF ClientStarts, RowsRecovered
        <5> QED
          BY <5>1, <5>2 DEF Row
      <4>2. CASE StatusOf(f) # "SENDING"
        BY <2>1, <3>1, <4>2 DEF ClientStarts, RowsRecovered
      <4> QED
        BY <4>1, <4>2
    <3> QED
      BY <3>1 DEF SameRows
  <2>2. CASE ClientStops \/ ServerStops
    BY <2>2 DEF ClientStops, ServerStops, SameRows
  <2> QED
    BY <2>1, <2>2
<1> QED
  BY <1>1, <1>2, TimesKept

LEMMA TimesNext == IInv /\ TimesInv /\ [Next]_vars => TimesInv'
<1> SUFFICES ASSUME IInv, TimesInv, [Next]_vars PROVE TimesInv'
  OBVIOUS
<1>1. CASE User
  BY <1>1, TimesOfUser DEF User
<1>2. CASE Syncro
  BY <1>2, TimesOfSyncro
<1>3. ASSUME NEW u \in Slot,
             Sipper(u) \/ ConnectFails(u) \/ Break(u) \/ ServiceStep(u) \/ ServerWriteFails(u)
      PROVE  TimesInv'
  BY <1>3, TimesOfOthers
<1>4. ASSUME NEW f \in File, Removal(f) PROVE TimesInv'
  <2>1. UNCHANGED userVars /\ UNCHANGED stat /\ UNCHANGED rows
    BY <1>4 DEF Removal, RemovalUnlinks, RemovalDeletesRow, syncVars
  <2> QED
    BY <2>1, TimesKept DEF SameRows
<1>5. CASE ClientStops \/ ClientStarts \/ ServerStops
  BY <1>5, TimesOfStops
<1>6. CASE UNCHANGED vars
  <2>1. UNCHANGED userVars /\ UNCHANGED stat /\ UNCHANGED rows
    BY <1>6 DEF vars, syncVars
  <2> QED
    BY <2>1, TimesKept DEF SameRows
<1> QED
  BY <1>1, <1>2, <1>3, <1>4, <1>5, <1>6 DEF Next

(* A FileSipper that has not ended.                                         *)
Live(u) == uploads[u] # NoUpload /\ uploads[u].c # "done"

(* What SendingHasSipper says of one file.                                  *)
Remembered(f) ==
    (up /\ StatusOf(f) = "SENDING" /\ Present(f) /\ rows[f].lmt = disk[f].lmt)
        => \E u \in UploadsOf(f) : uploads[u].c # "done"

(* The live FileSippers go on and work for the same file.                   *)
LiveKept(u) == Live(u) => Live(u)' /\ uploads'[u].file = uploads[u].file

(* A row and its file stay as they are, or the row leaves SENDING.          *)
RowKeptOrSettled(f) ==
    \/ rows'[f] = rows[f] /\ disk'[f] = disk[f]
    \/ StatusOf(f)' # "SENDING"

(* A step that ends no FileSipper, and puts no row into SENDING, forgets    *)
(* none.                                                                    *)
LEMMA NoneForgotten ==
    ASSUME SendingHasSipper, up' => up,
           NEW F \in SUBSET File,
           \A f \in F : RowKeptOrSettled(f),
           \A f \in F : \A u \in UploadsOf(f) : LiveKept(u)
    PROVE  \A f \in F : Remembered(f)'
<1> SUFFICES ASSUME NEW f \in F,
                    (up /\ StatusOf(f) = "SENDING" /\ Present(f) /\ rows[f].lmt = disk[f].lmt)'
             PROVE  \E u \in UploadsOf(f)' : uploads'[u].c # "done"
  BY DEF Remembered
<1>1. rows'[f] = rows[f] /\ disk'[f] = disk[f]
  BY DEF RowKeptOrSettled
<1>2. up /\ StatusOf(f) = "SENDING" /\ Present(f) /\ rows[f].lmt = disk[f].lmt
  BY <1>1 DEF StatusOf, Present
<1>3. PICK u \in UploadsOf(f) : uploads[u].c # "done"
  BY <1>2 DEF SendingHasSipper
<1>4. Live(u) /\ u \in Slot /\ uploads[u].file = f
  BY <1>3 DEF Live, UploadsOf
<1>5. Live(u)' /\ uploads'[u].file = f
  BY <1>3, <1>4 DEF LiveKept
<1> QED
  BY <1>4, <1>5 DEF Live, UploadsOf

(* The same for every file.                                                 *)
LEMMA NoneForgottenAtAll ==
    ASSUME SendingHasSipper, up' => up,
           \A f \in File : RowKeptOrSettled(f),
           \A u \in Slot : LiveKept(u)
    PROVE  SendingHasSipper'
<1>1. \A f \in File : \A u \in UploadsOf(f) : LiveKept(u)
  BY DEF UploadsOf
<1> QED
  BY <1>1, NoneForgotten DEF SendingHasSipper, Remembered

(* An action that writes the record of one upload keeps its FileSipper      *)
(* alive if the record does, and every other.                               *)
LEMMA BecomesKeepsOthers ==
    ASSUME UploadsInv, NEW u \in Slot, NEW r \in Upload, Becomes(u, r)
    PROVE  \A v \in Slot \ {u} : LiveKept(v)
  BY DEF UploadsInv, Becomes, Live, LiveKept

LEMMA BecomesKeepsAll ==
    ASSUME UploadsInv, NEW u \in Slot, uploads[u] # NoUpload, NEW r \in Upload, Becomes(u, r),
           r.file = uploads[u].file, r.c # "done" \/ r.c = uploads[u].c
    PROVE  \A v \in Slot : LiveKept(v)
<1>1. ASSUME Live(u) PROVE Live(u)' /\ uploads'[u].file = uploads[u].file
  <2>1. r.c # "done"
    BY <1>1 DEF Live
  <2>2. uploads'[u] = r
    BY <2>1 DEF UploadsInv, Becomes
  <2> QED
    BY <2>1, <2>2, NothingAssumption DEF Live
<1> QED
  BY <1>1, BecomesKeepsOthers DEF LiveKept

LEMMA UnlinkedKeepsAll ==
    ASSUME UploadsInv, NEW f \in File, NEW u \in Slot
    PROVE  /\ uploads[u] # NoUpload => /\ Unlinked(f)[u] \in Upload
                                      /\ Unlinked(f)[u].c = uploads[u].c
                                      /\ Unlinked(f)[u].file = uploads[u].file
           /\ uploads[u] = NoUpload => Unlinked(f)[u] = NoUpload
<1>1. CASE u \in UploadsOf(f)
  <2>1. uploads[u] \in Upload /\ uploads[u] # NoUpload
    BY <1>1 DEF UploadsInv, UploadsOf
  <2>2. Unlinked(f)[u] = [uploads[u] EXCEPT !.linked = FALSE]
    BY <1>1 DEF Unlinked
  <2> QED
    BY <2>1, <2>2 DEF Upload
<1>2. CASE u \notin UploadsOf(f)
  BY <1>2 DEF Unlinked, UploadsInv
<1> QED
  BY <1>1, <1>2

(* A change of the user makes the file newer than its row, or takes it away.*)
LEMMA UserForgetsNone ==
    ASSUME IInv, TimesInv, SendingHasSipper, Trouble \cap {"clock", "back"} = {},
           NEW f \in File, Edit(f) \/ MoveOut(f) \/ MoveBack(f)
    PROVE  SendingHasSipper'
<1>1. rows' = rows /\ uploads' = uploads /\ up' = up
  BY DEF Edit, MoveOut, MoveBack, UserActs, procVars
<1>2. \A g \in File \ {f} : disk'[g] = disk[g]
  BY DEF IInv, UserInv, Edit, MoveOut, MoveBack
<1>3. \A g \in File \ {f} : Remembered(g)'
  <2>1. \A g \in File \ {f} : RowKeptOrSettled(g)
    BY <1>1, <1>2 DEF RowKeptOrSettled
  <2>2. \A g \in File \ {f} : \A u \in UploadsOf(g) : LiveKept(u)
    BY <1>1 DEF LiveKept, Live
  <2>3. File \ {f} \in SUBSET File
    OBVIOUS
  <2> QED
    BY <1>1, <2>1, <2>2, <2>3, NoneForgotten
<1>4. ~(StatusOf(f) = "SENDING" /\ Present(f) /\ rows[f].lmt = disk[f].lmt)'
  <2> SUFFICES ASSUME rows[f] # NoRow, disk'[f] # NoFile, rows[f].lmt = disk'[f].lmt
               PROVE  FALSE
    BY <1>1 DEF StatusOf, Present
  <2>1. rows[f].lmt \in Nat /\ now \in Nat /\ rows[f].lmt <= now
    BY DEF IInv, RowsInv, UserInv, Row, Time, TimesInv
  <2>2. CASE Edit(f)
    <3>1. disk' = [disk EXCEPT ![f] = [lmt |-> now + 1, data |-> edits + 1]]
      BY <2>2 DEF Edit
    <3>2. disk'[f].lmt = now + 1
      BY <3>1 DEF IInv, UserInv
    <3> QED
      BY <2>1, <3>2
  <2>3. CASE MoveOut(f)
    BY <2>3 DEF IInv, UserInv, MoveOut
  <2>4. CASE MoveBack(f)
    <3>1. disk'[f] = away[f] /\ ~AlreadyHashed(f, away[f].lmt)
      BY <2>4 DEF IInv, UserInv, MoveBack
    <3> QED
      BY <3>1 DEF AlreadyHashed
  <2> QED
    BY <2>2, <2>3, <2>4
<1> QED
  BY <1>3, <1>4 DEF SendingHasSipper, Remembered

(* The steps of Syncro write no SENDING except for a new FileSipper.        *)
LEMMA SyncroForgetsNone ==
    ASSUME IInv, SendingHasSipper, Syncro
    PROVE  SendingHasSipper'
<1>1. up' = up /\ disk' = disk
  BY DEF Syncro, WatcherCalls, InitHashStat, InitHashInsert, CleanOldRows, ClientTree,
     RequestTree, AlignStatus, SendRemoval, Dispatch, SyncroEnds, procVars, userVars
<1>2. CASE /\ uploads' = uploads
           /\ \A f \in File : rows'[f] = rows[f] \/ StatusOf(f)' # "SENDING"
  <2>1. \A f \in File : RowKeptOrSettled(f)
    BY <1>1, <1>2 DEF RowKeptOrSettled
  <2>2. \A u \in Slot : LiveKept(u)
    BY <1>2 DEF LiveKept, Live
  <2> QED
    BY <1>1, <2>1, <2>2, NoneForgottenAtAll
<1>3. CASE WatcherCalls \/ InitHashStat \/ ClientTree \/ RequestTree \/ SendRemoval
           \/ SyncroEnds
  <2>1. uploads' = uploads /\ rows' = rows
    BY <1>3 DEF WatcherCalls, InitHashStat, ClientTree, RequestTree, SendRemoval, SyncroEnds
  <2> QED
    BY <1>2, <2>1
<1>4. CASE InitHashInsert
  <2>1. uploads' = uploads
    BY <1>4 DEF InitHashInsert
  <2>2. ASSUME NEW f \in File PROVE rows'[f] = rows[f] \/ StatusOf(f)' # "SENDING"
    <3>1. \/ rows'[f] = rows[f]
          \/ rows'[f] = [hash |-> disk[f].data, lmt |-> stat[f], status |-> "NEW"]
      BY <1>4 DEF InitHashInsert
    <3> QED
      BY <3>1 DEF StatusOf
  <2> QED
    BY <1>2, <2>1, <2>2
<1>5. CASE CleanOldRows
  <2>1. uploads' = uploads
    BY <1>5 DEF CleanOldRows
  <2>2. ASSUME NEW f \in File PROVE rows'[f] = rows[f] \/ StatusOf(f)' # "SENDING"
    BY <1>5 DEF CleanOldRows, StatusOf
  <2> QED
    BY <1>2, <2>1, <2>2
<1>6. CASE AlignStatus
  <2>1. uploads' = uploads
    BY <1>6 DEF AlignStatus, SameFileSameLmt
  <2>2. ASSUME NEW f \in File PROVE rows'[f] = rows[f] \/ StatusOf(f)' # "SENDING"
    <3>1. \/ rows'[f] = rows[f]
          \/ rows[f] # NoRow /\ rows'[f] = [rows[f] EXCEPT !.status = "SENT"]
      BY <1>6 DEF AlignStatus, SameFileSameLmt, AlreadyHashed
    <3>2. CASE rows[f] # NoRow /\ rows'[f] = [rows[f] EXCEPT !.status = "SENT"]
      <4>1. rows[f] \in Row
        BY <3>2 DEF IInv, RowsInv
      <4>2. rows'[f].status = "SENT"
        BY <3>2, <4>1 DEF Row
      <4> QED
        BY <4>2 DEF StatusOf
    <3> QED
      BY <3>1, <3>2
  <2> QED
    BY <1>2, <2>1, <2>2
<1>7. ASSUME NEW f \in File, Dispatch(f) PROVE SendingHasSipper'
  <2>1. CASE StatusOf(f) # "NEW"
    <3>1. uploads' = uploads /\ rows' = rows
      BY <1>7, <2>1 DEF Dispatch
    <3> QED
      BY <1>2, <3>1
  <2>2. CASE StatusOf(f) = "NEW"
    <3> DEFINE new == [file |-> f, hash |-> rows[f].hash, lmt |-> rows[f].lmt,
                       c |-> "queued", s |-> "none", seen |-> 0, sent |-> NoTime,
                       linked |-> FALSE, answer |-> 0]
    <3>1. PICK u \in Slot : uploads[u] = NoUpload /\ uploads' = [uploads EXCEPT ![u] = new]
      BY <1>7, <2>2 DEF Dispatch
    <3>2. rows' = [rows EXCEPT ![f].status = "SENDING"]
      BY <1>7, <2>2 DEF Dispatch
    <3>3. new \in Upload
      <4>1. rows[f] \in Row
        BY <2>2 DEF IInv, RowsInv, StatusOf
      <4>2. 0 \in Data
        BY BoundsAssumption DEF Data
      <4> QED
        BY <4>1, <4>2 DEF Row, Upload
    <3>4. uploads'[u] = new /\ \A v \in Slot \ {u} : uploads'[v] = uploads[v]
      BY <3>1 DEF IInv, UploadsInv
    <3>5. u \in UploadsOf(f)' /\ uploads'[u].c # "done"
      BY <3>3, <3>4, NothingAssumption DEF UploadsOf
    <3>6. \A g \in File \ {f} : Remembered(g)'
      <4>1. \A g \in File \ {f} : RowKeptOrSettled(g)
        BY <1>1, <3>2 DEF IInv, RowsInv, RowKeptOrSettled
      <4>2. \A g \in File \ {f} : \A v \in UploadsOf(g) : LiveKept(v)
        BY <3>1, <3>4 DEF LiveKept, Live, UploadsOf
      <4> QED
        BY <1>1, <4>1, <4>2, NoneForgotten
    <3> QED
      BY <3>5, <3>6 DEF SendingHasSipper, Remembered
  <2> QED
    BY <2>1, <2>2
<1> QED
  BY <1>3, <1>4, <1>5, <1>6, <1>7 DEF Syncro

(* A FileSipper that ends has settled its row, or its file is gone.         *)
LEMMA SippersForgetNone ==
    ASSUME IInv, SendingHasSipper, "throw" \notin Trouble, NEW u \in Slot,
           Sipper(u) \/ ConnectFails(u) \/ Break(u)
    PROVE  SendingHasSipper'
<1>1. up' = up /\ disk' = disk
  BY DEF Sipper, Connect, ReadAndSend, ClientGetsAnswer, SeesServerGone, ConnectFails, Break,
     procVars, userVars
<1>2. uploads[u] \in Upload /\ uploads[u] # NoUpload
  BY Existing DEF IInv, Sipper, Connect, ReadAndSend, ClientGetsAnswer, SeesServerGone,
     ConnectFails, Break, Sipping
<1>3. uploads[u].file \in File /\ uploads[u].answer \in 0 .. 2
  BY <1>2 DEF Upload
<1>4. PICK f \in File : f = uploads[u].file
  BY <1>3
<1>5. ASSUME NEW r \in Upload, Becomes(u, r),
             \A g \in File \ {f} : rows'[g] = rows[g], Remembered(f)'
      PROVE  SendingHasSipper'
  <2>1. \A g \in File \ {f} : RowKeptOrSettled(g)
    BY <1>1, <1>5 DEF RowKeptOrSettled
  <2>2. \A g \in File \ {f} : \A v \in UploadsOf(g) : LiveKept(v)
    <3>1. \A v \in Slot \ {u} : LiveKept(v)
      BY <1>5, BecomesKeepsOthers DEF IInv
    <3> QED
      BY <3>1, <1>4 DEF UploadsOf
  <2>3. \A g \in File \ {f} : Remembered(g)'
    BY <1>1, <2>1, <2>2, NoneForgotten
  <2> QED
    BY <1>5, <2>3 DEF SendingHasSipper, Remembered
<1>6. ASSUME NEW a \in 0 .. 2, UpdateFileStatus(f, a)
      PROVE  Remembered(f)' /\ \A g \in File \ {f} : rows'[g] = rows[g]
  <2>1. rows' = RowsAfter(f, a)
    BY <1>6 DEF UpdateFileStatus
  <2>2. StatusOf(f)' # "SENDING" /\ \A g \in File \ {f} : rows'[g] = rows[g]
    BY <2>1, StatusSettles DEF IInv
  <2> QED
    BY <2>2 DEF Remembered
<1>7. ASSUME NEW r \in Upload, Becomes(u, r), r.file = f, r.c # "done", rows' = rows
      PROVE  SendingHasSipper'
  <2>1. \A v \in Slot : LiveKept(v)
    BY <1>4, <1>2, <1>7, BecomesKeepsAll DEF IInv
  <2>2. \A g \in File : RowKeptOrSettled(g)
    BY <1>1, <1>7 DEF RowKeptOrSettled
  <2> QED
    BY <1>1, <2>1, <2>2, NoneForgottenAtAll
<1>8. CASE Connect(u)
  <2>0. CASE FolderInstead(f)
    <3>1. UpdateFileStatus(f, 0) /\ Becomes(u, [uploads[u] EXCEPT !.c = "done", !.sent = 0])
      BY <1>4, <1>8, <2>0 DEF Connect, FolderInstead
    <3>2. [uploads[u] EXCEPT !.c = "done", !.sent = 0] \in Upload
      BY <1>2, FolderUpload
    <3>3. Remembered(f)' /\ \A g \in File \ {f} : rows'[g] = rows[g]
      BY <1>6, <3>1
    <3> QED
      BY <1>5, <3>1, <3>2, <3>3
  <2> SUFFICES ASSUME ~FolderInstead(f) PROVE SendingHasSipper'
    BY <2>0
  <2>1. rows' = rows
    BY <1>4, <1>8 DEF Connect, FolderInstead
  <2>2. CASE Present(f)
    <3>1. Becomes(u, [uploads[u] EXCEPT !.c = "opened", !.seen = disk[f].data])
      BY <1>4, <1>8, <2>2 DEF Connect
    <3>2. disk[f].data \in Data
      BY <2>2 DEF IInv, UserInv, Version, Present
    <3>3. /\ [uploads[u] EXCEPT !.c = "opened", !.seen = disk[f].data] \in Upload
          /\ [uploads[u] EXCEPT !.c = "opened", !.seen = disk[f].data].file = f
          /\ [uploads[u] EXCEPT !.c = "opened", !.seen = disk[f].data].c = "opened"
      BY <1>4, <1>2, <3>2 DEF Upload
    <3> QED
      BY <1>7, <2>1, <3>1, <3>3
  <2>3. CASE ~Present(f)
    <3>1. Becomes(u, [uploads[u] EXCEPT !.c = "done", !.s = "gone"])
      BY <1>4, <1>8, <2>3 DEF Connect, FolderInstead
    <3>2. [uploads[u] EXCEPT !.c = "done", !.s = "gone"] \in Upload
      BY <1>2 DEF Upload
    <3>3. disk'[f] = NoFile
      BY <1>1, <2>3 DEF Present
    <3>4. Remembered(f)'
      BY <3>3 DEF Remembered, Present
    <3> QED
      BY <1>5, <2>1, <3>1, <3>2, <3>4
  <2> QED
    BY <2>2, <2>3
<1>9. CASE ReadAndSend(u)
  <2>1. PICK d \in Data : Becomes(u, [uploads[u] EXCEPT !.c = "waiting", !.sent = d])
    BY <1>9 DEF ReadAndSend
  <2>2. /\ [uploads[u] EXCEPT !.c = "waiting", !.sent = d] \in Upload
        /\ [uploads[u] EXCEPT !.c = "waiting", !.sent = d].file = f
        /\ [uploads[u] EXCEPT !.c = "waiting", !.sent = d].c = "waiting"
    BY <1>4, <1>2 DEF Upload
  <2>3. rows' = rows
    BY <1>9 DEF ReadAndSend
  <2> QED
    BY <1>7, <2>1, <2>2, <2>3
<1>10. CASE ConnectFails(u) \/ ClientGetsAnswer(u)
  <2>1. Becomes(u, [uploads[u] EXCEPT !.c = "done", !.s = "gone"])
    BY <1>10 DEF ConnectFails, ClientGetsAnswer
  <2>2. [uploads[u] EXCEPT !.c = "done", !.s = "gone"] \in Upload
    BY <1>2 DEF Upload
  <2>3. \E a \in 0 .. 2 : UpdateFileStatus(f, a)
    BY <1>4, <1>3, <1>10 DEF ConnectFails, ClientGetsAnswer
  <2> QED
    BY <1>5, <1>6, <2>1, <2>2, <2>3
<1>11. CASE Break(u) \/ SeesServerGone(u)
  <2>1. UpdateFileStatus(f, 0)
    BY <1>4, <1>11 DEF Break, SeesServerGone, ClientFails
  <2>2. PICK r \in Upload : Becomes(u, r)
    <3>1. CASE Break(u)
      <4>1. PICK reset \in BOOLEAN :
               Becomes(u, [ServiceSees(uploads[u], reset) EXCEPT !.c = "done"])
        BY <3>1 DEF Break
      <4>2. ServiceSees(uploads[u], reset) \in Upload
        BY <1>2, ServiceSeesUpload
      <4>3. [ServiceSees(uploads[u], reset) EXCEPT !.c = "done"] \in Upload
        BY <4>2 DEF Upload
      <4> QED
        BY <4>1, <4>3
    <3>2. CASE SeesServerGone(u)
      <4>1. [uploads[u] EXCEPT !.c = "done"] \in Upload
        BY <1>2 DEF Upload
      <4> QED
        BY <3>2, <4>1 DEF SeesServerGone
    <3> QED
      BY <1>11, <3>1, <3>2
  <2>3. Remembered(f)' /\ \A g \in File \ {f} : rows'[g] = rows[g]
    BY <1>6, <2>1
  <2> QED
    BY <1>5, <2>2, <2>3
<1> QED
  BY <1>8, <1>9, <1>10, <1>11 DEF Sipper

(* The server ends no FileSipper: it answers.                               *)
LEMMA ServerForgetsNone ==
    ASSUME IInv, SendingHasSipper, UNCHANGED <<rows, disk, up>>,
           \A u \in Slot : LiveKept(u)
    PROVE  SendingHasSipper'
<1>1. \A f \in File : RowKeptOrSettled(f)
  BY DEF RowKeptOrSettled
<1> QED
  BY <1>1, NoneForgottenAtAll

LEMMA ServicesForgetNone ==
    ASSUME IInv, SendingHasSipper, NEW u \in Slot, ServiceStep(u) \/ ServerWriteFails(u)
    PROVE  SendingHasSipper'
<1> USE DEF Serving
<1>1. UNCHANGED <<rows, disk, up>>
  BY DEF ServiceStep, ServerOpens, ServerCloses, ServerDigests, ServerChecksExists,
     ServerInserts, ServerRemovesCorrupt, ServerRefuses, ServerWriteFails, userVars, procVars
<1>2. uploads[u] \in Upload /\ uploads[u] # NoUpload
  BY Existing DEF IInv, ServiceStep, ServerOpens, ServerCloses, ServerDigests,
     ServerChecksExists, ServerInserts, ServerRemovesCorrupt, ServerRefuses, ServerWriteFails
<1>3. ASSUME NEW r \in Upload, Becomes(u, r), r.file = uploads[u].file, r.c = uploads[u].c
      PROVE  SendingHasSipper'
  <2>1. \A v \in Slot : LiveKept(v)
    BY <1>2, <1>3, BecomesKeepsAll DEF IInv
  <2> QED
    BY <1>1, <2>1, ServerForgetsNone
<1>4. \A s \in {"deaf", "refused", "opened", "closed", "equal", "differs", "exists"} :
         \A b \in BOOLEAN :
            /\ Becomes(u, [uploads[u] EXCEPT !.s = s, !.linked = b]) => SendingHasSipper'
            /\ Becomes(u, [uploads[u] EXCEPT !.s = s]) => SendingHasSipper'
  <2> SUFFICES ASSUME NEW s \in {"deaf", "refused", "opened", "closed", "equal", "differs",
                                 "exists"},
                      NEW b \in BOOLEAN
               PROVE  /\ Becomes(u, [uploads[u] EXCEPT !.s = s, !.linked = b])
                            => SendingHasSipper'
                      /\ Becomes(u, [uploads[u] EXCEPT !.s = s]) => SendingHasSipper'
    OBVIOUS
  <2>1. /\ [uploads[u] EXCEPT !.s = s, !.linked = b] \in Upload
        /\ [uploads[u] EXCEPT !.s = s, !.linked = b].file = uploads[u].file
        /\ [uploads[u] EXCEPT !.s = s, !.linked = b].c = uploads[u].c
    BY <1>2 DEF Upload
  <2>2. /\ [uploads[u] EXCEPT !.s = s] \in Upload
        /\ [uploads[u] EXCEPT !.s = s].file = uploads[u].file
        /\ [uploads[u] EXCEPT !.s = s].c = uploads[u].c
    BY <1>2 DEF Upload
  <2> QED
    BY <1>3, <2>1, <2>2
<1>5. ASSUME NEW a \in 0 .. 2, Answers(u, a) PROVE SendingHasSipper'
  <2>1. /\ [uploads[u] EXCEPT !.s = "answered", !.answer = a] \in Upload
        /\ [uploads[u] EXCEPT !.s = "answered", !.answer = a].file = uploads[u].file
        /\ [uploads[u] EXCEPT !.s = "answered", !.answer = a].c = uploads[u].c
    BY <1>2 DEF Upload
  <2> QED
    BY <1>3, <1>5, <2>1 DEF Answers
<1>6. CASE ServerOpens(u)
  <2>1. \E s \in {"deaf", "refused", "opened"}, b \in BOOLEAN :
           Becomes(u, [uploads[u] EXCEPT !.s = s, !.linked = b])
    <3>1. \E p, b : Becomes(u, [uploads[u] EXCEPT
                      !.s = IF ~p THEN "deaf"
                            ELSE IF uploads[u].file \in TooLong THEN "refused" ELSE "opened",
                      !.linked = b])
                /\ b \in BOOLEAN
      BY <1>6 DEF ServerOpens
    <3> QED
      BY <3>1
  <2> QED
    BY <1>4, <2>1
<1>7. CASE ServerCloses(u) \/ ServerWriteFails(u)
  BY <1>4, <1>7 DEF ServerCloses, ServerWriteFails
<1>8. CASE ServerDigests(u)
  <2>1. \E s \in {"equal", "differs"} : Becomes(u, [uploads[u] EXCEPT !.s = s])
    BY <1>8 DEF ServerDigests
  <2> QED
    BY <1>4, <2>1
<1>9. CASE ServerChecksExists(u) \/ ServerInserts(u) \/ ServerRefuses(u)
  <2>1. \/ Becomes(u, [uploads[u] EXCEPT !.s = "exists"])
        \/ \E a \in 0 .. 2 : Answers(u, a)
    BY <1>9 DEF ServerChecksExists, ServerInserts, ServerRefuses
  <2> QED
    BY <1>4, <1>5, <2>1
<1>10. CASE ServerRemovesCorrupt(u)
  <2>1. PICK f \in File : f = uploads[u].file
    BY <1>2 DEF Upload
  <2>2. PICK w : w = Unlinked(f)
    OBVIOUS
  <2>3. w \in [Slot -> Upload \cup {NoUpload}]
    BY <2>2, UnlinkedUploads DEF IInv
  <2>4. uploads' = [w EXCEPT ![u] = IF w[u].c = "done" THEN NoUpload
                                     ELSE [w[u] EXCEPT !.s = "answered", !.answer = 0]]
    BY <1>10, <2>1, <2>2 DEF ServerRemovesCorrupt
  <2>5. \A v \in Slot : uploads[v] # NoUpload => /\ w[v] \in Upload
                                               /\ w[v].c = uploads[v].c
                                               /\ w[v].file = uploads[v].file
    BY <2>2, UnlinkedKeepsAll DEF IInv
  <2>6. \A v \in Slot \ {u} : LiveKept(v)
    BY <2>3, <2>4, <2>5, NothingAssumption DEF LiveKept, Live
  <2>7. LiveKept(u)
    <3> SUFFICES ASSUME Live(u) PROVE Live(u)' /\ uploads'[u].file = uploads[u].file
      BY DEF LiveKept
    <3>1. w[u] \in Upload /\ w[u].c # "done" /\ w[u].file = uploads[u].file
      BY <1>2, <2>5 DEF Live
    <3>2. uploads'[u] = [w[u] EXCEPT !.s = "answered", !.answer = 0]
      BY <2>3, <2>4, <3>1
    <3>3. uploads'[u] \in Upload
      <4>1. 0 \in 0 .. 2
        OBVIOUS
      <4> QED
        BY <3>1, <3>2, <4>1, AnsweredUpload, Zenon
    <3>4. uploads'[u].c = w[u].c /\ uploads'[u].file = w[u].file
      <4>1. \A r \in Upload :
              /\ [r EXCEPT !.s = "answered", !.answer = 0].c = r.c
              /\ [r EXCEPT !.s = "answered", !.answer = 0].file = r.file
        BY DEF Upload
      <4> QED
        BY <3>1, <3>2, <4>1, Zenon
    <3> QED
      BY <3>1, <3>3, <3>4, NothingAssumption DEF Live
  <2> QED
    BY <1>1, <2>6, <2>7, ServerForgetsNone
<1> QED
  BY <1>6, <1>7, <1>8, <1>9, <1>10 DEF ServiceStep

LEMMA RemovalsForgetNone ==
    ASSUME IInv, SendingHasSipper, NEW f \in File, Removal(f)
    PROVE  SendingHasSipper'
<1>1. UNCHANGED <<rows, disk, up>>
  BY DEF Removal, RemovalUnlinks, RemovalDeletesRow, userVars, procVars
<1>2. uploads' = uploads \/ uploads' = Unlinked(f)
  BY DEF Removal, RemovalUnlinks, RemovalDeletesRow
<1>3. \A u \in Slot : LiveKept(u)
  BY <1>2, UnlinkedKeepsAll, NothingAssumption DEF IInv, LiveKept, Live
<1> QED
  BY <1>1, <1>3, ServerForgetsNone

(* A client that starts has turned every SENDING into NEW; one that stops   *)
(* has nothing to settle.                                                   *)
LEMMA StopsForgetNone ==
    ASSUME IInv, SendingHasSipper, ClientStops \/ ClientStarts \/ ServerStops
    PROVE  SendingHasSipper'
<1>1. CASE ClientStops
  BY <1>1 DEF ClientStops, SendingHasSipper
<1>2. CASE ClientStarts
  <2>1. ASSUME NEW f \in File PROVE StatusOf(f)' # "SENDING"
    <3>1. CASE StatusOf(f) = "SENDING"
      <4>1. rows[f] \in Row
        BY <3>1 DEF IInv, RowsInv, StatusOf
      <4>2. rows'[f] = [rows[f] EXCEPT !.status = "NEW"]
        BY <1>2, <3>1 DEF ClientStarts, RowsRecovered
      <4>3. rows'[f].status = "NEW"
        BY <4>1, <4>2 DEF Row
      <4> QED
        BY <4>3 DEF StatusOf
    <3>2. CASE StatusOf(f) # "SENDING"
      <4>1. rows'[f] = rows[f]
        BY <1>2, <3>2 DEF ClientStarts, RowsRecovered
      <4> QED
        BY <3>2, <4>1 DEF StatusOf
    <3> QED
      BY <3>1, <3>2
  <2> QED
    BY <2>1 DEF SendingHasSipper
<1>3. CASE ServerStops
  <2>1. UNCHANGED <<rows, disk, up>>
    BY <1>3 DEF ServerStops, userVars, procVars
  <2>2. ASSUME NEW u \in Slot, Live(u)
        PROVE  Live(u)' /\ uploads'[u].file = uploads[u].file
    <3>1. uploads[u] \in Upload
      BY <2>2, Existing DEF IInv, Live
    <3>2. \/ uploads'[u] = uploads[u]
          \/ uploads'[u] = [uploads[u] EXCEPT !.s = "gone", !.linked = FALSE]
      BY <1>3, <2>2 DEF ServerStops, Live
    <3>3. uploads'[u] \in Upload /\ uploads'[u].c = uploads[u].c
          /\ uploads'[u].file = uploads[u].file
      BY <3>1, <3>2 DEF Upload
    <3> QED
      BY <2>2, <3>3, NothingAssumption DEF Live
  <2> QED
    BY <2>1, <2>2, ServerForgetsNone DEF LiveKept
<1> QED
  BY <1>1, <1>2, <1>3

(* For any files, uploads, changes at any moment, faults, and removals: as  *)
(* long as modification times tell versions apart and shutdown does not     *)
(* throw, no row stays in SENDING with nobody to settle it.                 *)
THEOREM NoRowForgotten ==
    ASSUME Trouble \cap {"clock", "back", "throw"} = {}
    PROVE  Spec => []SendingHasSipper
<1>1. Init => TimesInv /\ SendingHasSipper
  BY DEF Init, TimesInv, SendingHasSipper, StatusOf
<1>2. IInv /\ TimesInv /\ SendingHasSipper /\ [Next]_vars => SendingHasSipper'
  <2> SUFFICES ASSUME IInv, TimesInv, SendingHasSipper, [Next]_vars
               PROVE  SendingHasSipper'
    OBVIOUS
  <2>1. CASE User
    BY <2>1, UserForgetsNone DEF User
  <2>2. CASE Syncro
    BY <2>2, SyncroForgetsNone
  <2>3. ASSUME NEW u \in Slot, Sipper(u) \/ ConnectFails(u) \/ Break(u)
        PROVE  SendingHasSipper'
    BY <2>3, SippersForgetNone
  <2>4. ASSUME NEW u \in Slot, ServiceStep(u) \/ ServerWriteFails(u) PROVE SendingHasSipper'
    BY <2>4, ServicesForgetNone
  <2>5. ASSUME NEW f \in File, Removal(f) PROVE SendingHasSipper'
    BY <2>5, RemovalsForgetNone
  <2>6. CASE ClientStops \/ ClientStarts \/ ServerStops
    BY <2>6, StopsForgetNone
  <2>7. CASE UNCHANGED vars
    <3>1. UNCHANGED <<rows, disk, up, uploads>>
      BY <2>7 DEF vars, userVars, procVars
    <3> QED
      BY <3>1, ServerForgetsNone DEF LiveKept, Live
  <2> QED
    BY <2>1, <2>2, <2>3, <2>4, <2>5, <2>6, <2>7 DEF Next
<1> QED
  BY <1>1, <1>2, InitIInv, NextIInv, TimesNext, PTL DEF Spec
=============================================================================
