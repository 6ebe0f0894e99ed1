---------------------------- MODULE BackupStored ----------------------------
(***************************************************************************)
(* What the status SENT promises and what the server keeps, for every set  *)
(* of files and folders, every number of uploads, changes and removals.    *)
(***************************************************************************)
EXTENDS BackupProofs

(* The user changes what is backed up, modification times tell versions     *)
(* apart, and a FileSipper waits for the server.                            *)
Orderly == Trouble \cap {"user", "removal", "clock", "retry"} = {}

(* At most one connection breaks or one side stops, and no file comes back  *)
(* while its row is kept.  Two faults may leave a row SENT whose file is    *)
(* being sent again, and one a row SENT whose file was removed.             *)
Single == MaxFaults <= 1 /\ "back" \notin Trouble

-----------------------------------------------------------------------------
(* The inductive invariant.                                                 *)

(* The row of f is the row of what f contains now.                          *)
Current(f) == Present(f) /\ AlreadyHashed(f, disk[f].lmt)

(* The server lists f with the time it has now.                             *)
Listed(f) == sfile[f] # NoFile /\ srow[f] = disk[f].lmt

Unsent(f) == StatusOf(f) \in {"NEW", "SENDING"}

(* The server may be working on the upload.                                 *)
Begun(r) == r.c # "queued" /\ r.s # "gone"

(* The service will write the whole file.                                   *)
Rewriting(r) == r.s = "opened" /\ r.linked /\ r.sent # 0

RunsInv ==
    /\ faults = 0 => up
    /\ ~up => pc = "idle"
    /\ pc # "dispatch" => todo = {}
    /\ pc \in {"align", "removal", "dispatch"} => userDir

(* Edits are numbered from 1, and so are the seconds.                       *)
VersionInv(f) ==
    /\ Present(f) => disk[f].lmt \in 1 .. now /\ disk[f].data > 0
    /\ away[f] # NoFile => away[f].lmt \in 1 .. now /\ away[f].data > 0
    /\ Present(f) /\ away[f] # NoFile => away[f].lmt < disk[f].lmt
    /\ srow[f] # NoTime => srow[f] <= now /\ userDir /\ f \notin TooLong

(* A row that fits a file that was moved out fits it when it comes back.    *)
AwayFits(f) == away[f] # NoFile /\ AlreadyHashed(f, away[f].lmt) => rows[f].hash = away[f].data

RowInv(f) ==
    /\ Current(f) => rows[f].hash = disk[f].data
    /\ AwayFits(f)
    /\ StatusOf(f) = "NOTSENT" => f \in TooLong

(* What InitHash has read is still so, or the user has changed a file whose *)
(* row was settled.                                                         *)
StatInv(f) ==
    pc = "hash" =>
        /\ stat[f] = NoTime /\ Present(f) => rows[f] = NoRow
        /\ stat[f] # NoTime => \/ Present(f) /\ disk[f].lmt = stat[f]
                               \/ AlreadyHashed(f, stat[f]) /\ ~Unsent(f)

(* A row that is not settled is up to date once InitHash has run, and what  *)
(* the trees say of its file stays so.                                      *)
UnsentInv(f) ==
    Unsent(f) =>
        /\ pc \notin {"idle", "stat", "hash"} /\ Present(f) => Current(f)
        /\ f \in todo \/ (pc \in {"request", "align", "removal"} /\ ctree[f] # NoTime)
              => Present(f)

(* No file that exists is removed, nor will be.                             *)
GoneInv(f) ==
    Present(f) =>
        /\ NoRemoval(f)
        /\ pc = "request" /\ ctree[f] = NoTime => sfile[f] = NoFile /\ UploadsOf(f) = {}
        /\ pc \in {"align", "removal"} /\ ctree[f] = NoTime => stree[f] = NoTime

(* An upload sends what the file contains, or nothing at all.               *)
UploadFits(f, r) ==
    /\ Current(f) /\ r.lmt = disk[f].lmt /\ r.hash = disk[f].data /\ userDir
    /\ r.c = "queued" => r.s = "none" /\ r.sent = NoTime
    /\ r.c = "opened" => r.seen = r.hash
    /\ r.sent = NoTime => r.c \in {"queued", "opened"}
    /\ r.c = "done" => r.s \notin {"answered", "deaf", "gone"} /\ faults > 0
    /\ r.s = "gone" => faults > 0
    /\ r.sent \in {NoTime, 0, r.hash}
    /\ r.sent = 0 => r.c = "done" /\ (Single => srow[f] # r.lmt)
    /\ r.s = "opened" /\ r.linked => sfile[f] = 0
    /\ r.s \in {"equal", "exists"} => sfile[f] = r.hash
    /\ r.s = "differs" => sfile[f] # r.hash
    /\ r.s = "answered" /\ r.answer = 1 => sfile[f] = r.hash /\ srow[f] = r.lmt
    /\ r.s = "refused" \/ (r.s = "answered" /\ r.answer = 2) => f \in TooLong
    /\ r.s \in {"opened", "closed", "equal", "exists"} => f \notin TooLong

(* And the server works on one of them only.                                *)
UploadsFit(f) ==
    /\ \A u \in UploadsOf(f) : UploadFits(f, uploads[u])
    /\ \A u, v \in UploadsOf(f) : Begun(uploads[u]) /\ Begun(uploads[v]) => u = v

(* What the server lists with the time of the file has its content, or will *)
(* have it; a tree or a status that says so is right.                       *)
ListedInv(f) ==
    /\ Present(f) /\ Listed(f) =>
          sfile[f] = disk[f].data \/ \E u \in UploadsOf(f) : Rewriting(uploads[u])
    /\ ~Present(f) /\ away[f] # NoFile /\ sfile[f] # NoFile /\ srow[f] = away[f].lmt =>
          sfile[f] = away[f].data
    /\ Current(f) /\ StatusOf(f) = "SENT" => Listed(f)
    /\ pc = "align" /\ Present(f) /\ stree[f] = disk[f].lmt => Listed(f)

(* Before the first fault nothing is sent twice.                            *)
FirstInv(f) ==
    faults = 0 =>
        /\ \A u \in UploadsOf(f) : UploadsOf(f) = {u} /\ StatusOf(f) \in {"SENDING", "SENT"}
        /\ Present(f) /\ srow[f] = disk[f].lmt =>
              /\ sfile[f] = disk[f].data /\ Current(f) /\ StatusOf(f) # "NEW"
              /\ \A u \in UploadsOf(f) : uploads[u].s = "answered" /\ uploads[u].answer = 1
        /\ ~Present(f) /\ sfile[f] = NoFile => srow[f] = NoTime \/ removals[f].unlinked > 0

(* All of it, for one file.                                                 *)
FileInv(f) == /\ VersionInv(f) /\ RowInv(f) /\ StatInv(f) /\ UnsentInv(f)
              /\ GoneInv(f) /\ UploadsFit(f)
              /\ Single => ListedInv(f) /\ FirstInv(f)

SInv == RunsInv /\ \A f \in File : FileInv(f)

-----------------------------------------------------------------------------
(* What a step leaves alone.                                                *)

(* What Syncro and the user know of f.                                      *)
SameView(f) ==
    /\ disk'[f] = disk[f] /\ away'[f] = away[f] /\ now' \in {now, now + 1}
    /\ UNCHANGED <<up, pc>>
    /\ stat'[f] = stat[f] /\ ctree'[f] = ctree[f] /\ stree'[f] = stree[f]
    /\ f \in todo' => f \in todo

SameRow(f) == rows'[f] = rows[f]

SameUploads(f) ==
    /\ UploadsOf(f)' = UploadsOf(f)
    /\ \A u \in UploadsOf(f) : uploads'[u] = uploads[u]

SameStore(f) ==
    /\ sfile'[f] = sfile[f] /\ srow'[f] = srow[f] /\ removals'[f] = removals[f]
    /\ userDir' = userDir

(* Faults are counted up.                                                   *)
SameFaults == faults' = faults \/ faults' = faults + 1

(* A file that a step does not touch.                                       *)
LEMMA Untouched ==
    ASSUME IInv, NEW f \in File, FileInv(f), SameView(f), SameRow(f), SameUploads(f),
           SameStore(f), SameFaults
    PROVE  FileInv(f)'
<1> USE DEF SameView, SameRow, SameStore
<1>1. VersionInv(f)'
  <2>1. now \in Nat /\ srow[f] \in Nat \cup {NoTime}
    BY BoundsAssumption DEF IInv, UserInv, StoreInv, OutTimes, Time
  <2>2. Present(f) => disk[f] \in Version
    BY DEF IInv, UserInv, Present
  <2>3. away[f] # NoFile => away[f] \in Version
    BY DEF IInv, UserInv
  <2>4. \A v \in Version : v.lmt \in Nat
    BY BoundsAssumption DEF Version, Time
  <2> QED
    BY <2>1, <2>2, <2>3, <2>4 DEF FileInv, VersionInv, Present
<1>2. StatusOf(f)' = StatusOf(f) /\ Current(f)' = Current(f) /\ Present(f)' = Present(f)
  BY DEF StatusOf, Current, Present, AlreadyHashed
<1>3. faults \in Nat /\ (faults' = 0 => faults = 0) /\ (faults > 0 => faults' > 0)
  BY BoundsAssumption DEF IInv, FaultsInv, SameFaults
<1>4. RowInv(f)' /\ StatInv(f)' /\ UnsentInv(f)'
  BY <1>2 DEF FileInv, RowInv, StatInv, UnsentInv, Unsent, AwayFits, AlreadyHashed
<1>5. GoneInv(f)'
  BY <1>2 DEF FileInv, GoneInv, NoRemoval, SameUploads
<1>6. UploadsFit(f)'
  <2>1. \A u \in UploadsOf(f) : UploadFits(f, uploads[u])'
    BY <1>2, <1>3 DEF FileInv, UploadsFit, UploadFits, SameUploads
  <2> QED
    BY <2>1 DEF FileInv, UploadsFit, Begun, SameUploads
<1>7. Single => ListedInv(f)'
  BY <1>2 DEF FileInv, ListedInv, Listed, Rewriting, SameUploads
<1>8. Single => FirstInv(f)'
  BY <1>2, <1>3 DEF FileInv, FirstInv, SameUploads
<1> QED
  BY <1>1, <1>4, <1>5, <1>6, <1>7, <1>8 DEF FileInv

(* A step that leaves every file alone, but may touch f.                    *)
LEMMA OneFile ==
    ASSUME IInv, SInv, NEW f \in File, RunsInv', FileInv(f)', SameFaults,
           \A g \in File \ {f} : SameView(g) /\ SameRow(g) /\ SameUploads(g) /\ SameStore(g)
    PROVE  SInv'
  BY Untouched DEF SInv

-----------------------------------------------------------------------------
(* The user.                                                                *)

(* What the user finds where a change of f is allowed.                      *)
LEMMA UserFinds ==
    ASSUME IInv, SInv, Orderly, NEW f \in File, UserMay(f)
    PROVE  /\ UploadsOf(f) = {} /\ NoRemoval(f) /\ stree[f] = NoTime
           /\ \/ ~up
              \/ ~Present(f) /\ rows[f] = NoRow /\ sfile[f] = NoFile
              \/ Present(f) /\ Current(f) /\ StatusOf(f) \in {"SENT", "NOTSENT"}
           /\ ~Unsent(f) \/ ~up
<1>1. Settled(f)
  BY DEF UserMay, Orderly
<1> QED
  BY <1>1 DEF Settled, Orderly, Present, Current, Unsent, StatusOf

(* A change of one file leaves the others alone.                            *)
LEMMA UserOthers ==
    ASSUME IInv, SInv, NEW f \in File, UserActs, now' \in {now, now + 1},
           \A g \in File \ {f} : disk'[g] = disk[g] /\ away'[g] = away[g],
           FileInv(f)'
    PROVE  SInv'
<1> USE DEF UserActs, procVars, syncVars, serverVars
<1>1. RunsInv'
  BY DEF SInv, RunsInv
<1>2. SameFaults
  BY DEF SameFaults
<1>3. \A g \in File : UploadsOf(g)' = UploadsOf(g)
  BY DEF UploadsOf
<1>4. \A g \in File \ {f} : SameView(g) /\ SameRow(g) /\ SameUploads(g) /\ SameStore(g)
  BY <1>3 DEF SameView, SameRow, SameUploads, SameStore
<1> QED
  BY <1>1, <1>2, <1>4, OneFile

LEMMA EditKeeps ==
    ASSUME IInv, TimesInv, SInv, Orderly, NEW f \in File, Edit(f)
    PROVE  SInv'
<1> USE DEF UserActs, procVars, syncVars, serverVars
<1>1. UserActs /\ away' = away /\ UploadsOf(f)' = UploadsOf(f)
  BY DEF Edit, UploadsOf
<1>2. /\ UploadsOf(f) = {} /\ NoRemoval(f) /\ stree[f] = NoTime
      /\ \/ ~up
         \/ ~Present(f) /\ rows[f] = NoRow /\ sfile[f] = NoFile
         \/ Present(f) /\ Current(f) /\ StatusOf(f) \in {"SENT", "NOTSENT"}
      /\ ~Unsent(f) \/ ~up
  BY UserFinds DEF Edit
<1>3. /\ now' = now + 1
      /\ disk' = [disk EXCEPT ![f] = [lmt |-> now + 1, data |-> edits + 1]]
  BY DEF Edit, Orderly
<1>4. disk'[f] = [lmt |-> now + 1, data |-> edits + 1]
      /\ \A g \in File \ {f} : disk'[g] = disk[g]
  BY <1>3 DEF IInv, UserInv
<1>5. now \in Nat /\ edits \in Nat /\ now + 1 \in Nat /\ NoFile # disk'[f]
  <2>1. IInv'
    BY UserStep
  <2>2. edits + 1 \in 0 .. MaxEdits /\ now + 1 \in 0 .. MaxEdits
    BY <1>1, <1>3, <2>1, BoundsAssumption DEF IInv, UserInv
  <2>3. disk'[f] \in Version
    BY <1>4, <2>2 DEF Version, Time, Data
  <2> QED
    BY <2>2, <2>3, NothingAssumption DEF IInv, UserInv
<1>6. Present(f)' /\ disk'[f].lmt = now + 1 /\ disk'[f].data = edits + 1
  BY <1>4, <1>5 DEF Present
<1>7. ~Current(f)'
  <2>1. rows[f] # NoRow => rows[f].lmt <= now /\ rows[f].lmt \in Nat
    BY BoundsAssumption DEF TimesInv, IInv, RowsInv, Row, Time
  <2> QED
    BY <1>1, <1>5, <1>6, <2>1 DEF Current, AlreadyHashed
<1>8. srow[f] # now + 1 /\ stree[f] # now + 1 /\ NoTime # now + 1
  <2>1. srow[f] # NoTime => srow[f] <= now /\ srow[f] \in Nat
    BY BoundsAssumption DEF SInv, FileInv, VersionInv, IInv, StoreInv, OutTimes, Time
  <2>2. now + 1 \in Time
    BY <1>1, <1>3, UserStep, BoundsAssumption DEF IInv, UserInv, Time
  <2> QED
    BY <1>2, <1>5, <2>1, <2>2, NothingAssumption
<1> USE <1>1
<1>9. VersionInv(f)'
  <2>1. srow[f] # NoTime => srow[f] \in Nat
    BY BoundsAssumption DEF IInv, StoreInv, OutTimes, Time
  <2>2. away[f] # NoFile => away[f].lmt \in Nat
    BY BoundsAssumption DEF IInv, UserInv, Version, Time
  <2> QED
    BY <1>3, <1>5, <1>6, <2>1, <2>2 DEF SInv, FileInv, VersionInv
<1>10. RowInv(f)'
  BY <1>3, <1>7 DEF SInv, FileInv, RowInv, StatusOf, AwayFits, AlreadyHashed
<1>11. StatInv(f)'
  BY <1>2 DEF SInv, RunsInv, FileInv, StatInv, Present, Current, AlreadyHashed, Unsent, StatusOf
<1>12. UnsentInv(f)'
  BY <1>2, <1>6 DEF SInv, RunsInv, FileInv, UnsentInv, Unsent, StatusOf
<1>13. GoneInv(f)'
  BY <1>2 DEF SInv, RunsInv, FileInv, GoneInv, NoRemoval
<1>14. UploadsFit(f)' /\ ListedInv(f)' /\ FirstInv(f)'
  BY <1>2, <1>6, <1>7, <1>8 DEF UploadsFit, ListedInv, Listed, FirstInv
<1> QED
  BY <1>3, <1>4, <1>9, <1>10, <1>11, <1>12, <1>13, <1>14, UserOthers DEF FileInv

LEMMA MoveOutKeeps ==
    ASSUME IInv, SInv, Orderly, NEW f \in File, MoveOut(f)
    PROVE  SInv'
<1> USE DEF UserActs, procVars, syncVars, serverVars
<1>1. UserActs /\ now' = now /\ UploadsOf(f)' = UploadsOf(f) /\ Present(f)
  BY DEF MoveOut, UploadsOf, Present
<1>2. /\ UploadsOf(f) = {} /\ NoRemoval(f)
      /\ ~up \/ (Current(f) /\ StatusOf(f) \in {"SENT", "NOTSENT"})
      /\ ~Unsent(f) \/ ~up
  BY <1>1, UserFinds DEF MoveOut
<1>3. /\ disk'[f] = NoFile /\ away'[f] = disk[f]
      /\ \A g \in File \ {f} : disk'[g] = disk[g] /\ away'[g] = away[g]
  BY DEF MoveOut, IInv, UserInv
<1> USE <1>1
<1>4. ~Present(f)' /\ ~Current(f)'
  BY <1>3 DEF Present, Current
<1>5. VersionInv(f)' /\ RowInv(f)'
  BY <1>3, <1>4 DEF SInv, FileInv, VersionInv, RowInv, StatusOf, Present, Current,
     AwayFits, AlreadyHashed
<1>6. StatInv(f)' /\ UnsentInv(f)' /\ GoneInv(f)'
  BY <1>2, <1>4 DEF SInv, RunsInv, FileInv, StatInv, UnsentInv, GoneInv, Current,
     AlreadyHashed, Unsent, StatusOf
<1>7. UploadsFit(f)' /\ (Single => ListedInv(f)')
  BY <1>2, <1>3, <1>4 DEF SInv, FileInv, UploadsFit, ListedInv, Listed
<1>8. Single => FirstInv(f)'
  <2>1. Single /\ faults = 0 => sfile[f] # NoFile \/ srow[f] = NoTime
    BY <1>2 DEF SInv, RunsInv, FileInv, VersionInv, RowInv, ListedInv, Listed
  <2> QED
    BY <1>2, <1>4, <2>1 DEF FirstInv
<1> QED
  BY <1>3, <1>5, <1>6, <1>7, <1>8, UserOthers DEF FileInv

LEMMA MoveBackKeeps ==
    ASSUME IInv, SInv, Orderly, NEW f \in File, MoveBack(f)
    PROVE  SInv'
<1> USE DEF UserActs, procVars, syncVars, serverVars
<1>1. UserActs /\ now' = now /\ UploadsOf(f)' = UploadsOf(f)
      /\ ~Present(f) /\ away[f] # NoFile /\ (Single => ~AlreadyHashed(f, away[f].lmt))
  BY DEF MoveBack, UploadsOf, Present, Single
<1>2. /\ UploadsOf(f) = {} /\ NoRemoval(f) /\ stree[f] = NoTime
      /\ ~up \/ (rows[f] = NoRow /\ sfile[f] = NoFile)
      /\ ~Unsent(f) \/ ~up
  BY <1>1, UserFinds DEF MoveBack
<1>3. /\ disk'[f] = away[f] /\ away'[f] = NoFile
      /\ \A g \in File \ {f} : disk'[g] = disk[g] /\ away'[g] = away[g]
  BY DEF MoveBack, IInv, UserInv
<1>4. disk'[f].lmt # NoTime
  <2>1. away[f] \in Version
    BY <1>1 DEF IInv, UserInv
  <2> QED
    BY <1>3, <2>1, NothingAssumption DEF Version
<1> USE <1>1
<1>5. Present(f)' /\ (Current(f)' <=> AlreadyHashed(f, away[f].lmt))
  BY <1>3 DEF Present, Current, AlreadyHashed
<1>6. VersionInv(f)' /\ RowInv(f)'
  BY <1>3, <1>5 DEF SInv, FileInv, VersionInv, RowInv, StatusOf, AwayFits, AlreadyHashed
<1>7. StatInv(f)' /\ UnsentInv(f)' /\ GoneInv(f)'
  BY <1>2, <1>5 DEF SInv, RunsInv, FileInv, StatInv, UnsentInv, GoneInv, NoRemoval,
     AlreadyHashed, Unsent, StatusOf
<1>8. UploadsFit(f)' /\ (Single => ListedInv(f)')
  BY <1>2, <1>3, <1>4, <1>5 DEF SInv, FileInv, UploadsFit, ListedInv, Listed
<1>9. Single => FirstInv(f)'
  <2>1. Single /\ faults = 0 => srow[f] = NoTime
    BY <1>2 DEF SInv, RunsInv, FileInv, FirstInv, NoRemoval
  <2> QED
    BY <1>2, <1>4, <1>5, <2>1 DEF FirstInv
<1> QED
  BY <1>3, <1>6, <1>7, <1>8, <1>9, UserOthers DEF FileInv

-----------------------------------------------------------------------------
(* Syncro.                                                                  *)

(* What depends on neither Syncro nor the removals that are on their way.   *)
LEMMA Reading ==
    ASSUME IInv, SInv, NEW f \in File, UNCHANGED <<userVars, rows, uploads, sfile, faults>>,
           srow'[f] = srow[f], userDir => userDir', removals'[f].unlinked = removals[f].unlinked
    PROVE  /\ VersionInv(f)' /\ RowInv(f)' /\ UploadsFit(f)' /\ (Single => FirstInv(f)')
           /\ UploadsOf(f)' = UploadsOf(f) /\ Present(f)' = Present(f)
           /\ Current(f)' = Current(f) /\ Listed(f)' = Listed(f) /\ StatusOf(f)' = StatusOf(f)
           /\ (pc' = "align" /\ Present(f) /\ stree'[f] = disk[f].lmt => Listed(f))
                 => (Single => ListedInv(f)')
<1> USE DEF userVars
<1>1. /\ UploadsOf(f)' = UploadsOf(f) /\ Present(f)' = Present(f)
      /\ Current(f)' = Current(f) /\ Listed(f)' = Listed(f) /\ StatusOf(f)' = StatusOf(f)
  BY DEF UploadsOf, Present, Current, AlreadyHashed, Listed, StatusOf
<1>2. VersionInv(f)' /\ RowInv(f)'
  BY <1>1 DEF SInv, FileInv, VersionInv, RowInv, AwayFits, AlreadyHashed
<1>3. UploadsFit(f)'
  <2>1. \A u \in UploadsOf(f) : UploadFits(f, uploads[u])'
    BY <1>1 DEF SInv, FileInv, UploadsFit, UploadFits
  <2> QED
    BY <1>1, <2>1 DEF SInv, FileInv, UploadsFit, Begun
<1>4. Single => FirstInv(f)'
  BY <1>1 DEF SInv, FileInv, FirstInv
<1>5. (pc' = "align" /\ Present(f) /\ stree'[f] = disk[f].lmt => Listed(f))
         => (Single => ListedInv(f)')
  BY <1>1 DEF SInv, FileInv, ListedInv, Rewriting
<1> QED
  BY <1>1, <1>2, <1>3, <1>4, <1>5

(* The time of a file is a number.                                          *)
LEMMA HasTime ==
    ASSUME IInv, SInv, NEW f \in File, Present(f)
    PROVE  disk[f].lmt # NoTime /\ disk[f].lmt # 0 /\ disk[f].lmt \in Nat
<1>1. disk[f] \in Version
  BY DEF IInv, UserInv, Present
<1> QED
  BY <1>1, NothingAssumption, BoundsAssumption DEF Version, Time, SInv, FileInv, VersionInv

LEMMA ReadingKeeps ==
    ASSUME IInv, SInv, WatcherCalls \/ InitHashStat \/ ClientTree \/ SyncroEnds
    PROVE  SInv'
<1>1. /\ UNCHANGED <<userVars, rows, uploads, serverVars, faults>>
      /\ up /\ up' /\ todo' = todo /\ stree' = stree
  BY DEF WatcherCalls, InitHashStat, ClientTree, SyncroEnds, procVars
<1>2. RunsInv'
  BY <1>1 DEF SInv, RunsInv, WatcherCalls, InitHashStat, ClientTree, SyncroEnds, serverVars
<1>3. ASSUME NEW f \in File PROVE FileInv(f)'
  <2>1. pc' # "align"
    BY DEF WatcherCalls, InitHashStat, ClientTree, SyncroEnds
  <2>2. /\ VersionInv(f)' /\ RowInv(f)' /\ UploadsFit(f)'
        /\ (Single => ListedInv(f)' /\ FirstInv(f)')
        /\ UploadsOf(f)' = UploadsOf(f) /\ Present(f)' = Present(f)
        /\ Current(f)' = Current(f) /\ StatusOf(f)' = StatusOf(f)
    BY <1>1, <2>1, Reading DEF serverVars
  <2>3. Present(f) => disk[f].lmt # NoTime
    BY HasTime
  <2>4. StatInv(f)'
    BY <1>1, <2>2, <2>3 DEF StatInv, WatcherCalls, InitHashStat, ClientTree, SyncroEnds,
       Present, userVars
  <2>5. UnsentInv(f)'
    BY <1>1, <2>2 DEF SInv, RunsInv, FileInv, UnsentInv, Unsent, Present, WatcherCalls,
       InitHashStat, ClientTree, SyncroEnds
  <2>6. GoneInv(f)'
    BY <1>1, <2>2, <2>3 DEF SInv, FileInv, GoneInv, NoRemoval, Present, WatcherCalls,
       InitHashStat, ClientTree, SyncroEnds, serverVars
  <2> QED
    BY <2>2, <2>4, <2>5, <2>6 DEF FileInv
<1> QED
  BY <1>2, <1>3 DEF SInv

LEMMA RequestTreeKeeps ==
    ASSUME IInv, SInv, RequestTree
    PROVE  SInv'
<1>1. /\ UNCHANGED <<userVars, rows, uploads, sfile, faults, removals, up, todo, ctree, stat>>
      /\ up /\ pc = "request" /\ pc' = "align" /\ userDir'
  BY DEF RequestTree, procVars
<1>2. RunsInv'
  BY <1>1 DEF SInv, RunsInv
<1>3. ASSUME NEW f \in File PROVE srow'[f] = srow[f]
  BY DEF RequestTree, TableCreated, SInv, FileInv, VersionInv
<1>4. ASSUME NEW f \in File
      PROVE  stree'[f] = IF sfile[f] = NoFile THEN NoTime
                         ELSE IF srow[f] = NoTime THEN 0 ELSE srow[f]
  BY <1>3 DEF RequestTree, ServerTree, TimeFromPath
<1>5. ASSUME NEW f \in File PROVE FileInv(f)'
  <2>1. Present(f) => disk[f].lmt # NoTime /\ disk[f].lmt # 0
    BY HasTime
  <2>2. Present(f) /\ stree'[f] = disk[f].lmt => Listed(f)
    BY <1>4, <2>1 DEF Listed
  <2>3. /\ VersionInv(f)' /\ RowInv(f)' /\ UploadsFit(f)'
        /\ (Single => ListedInv(f)' /\ FirstInv(f)')
        /\ UploadsOf(f)' = UploadsOf(f) /\ Present(f)' = Present(f)
        /\ Current(f)' = Current(f) /\ StatusOf(f)' = StatusOf(f)
    BY <1>1, <1>3, <2>2, Reading
  <2>4. StatInv(f)' /\ UnsentInv(f)'
    BY <1>1, <2>3 DEF SInv, RunsInv, FileInv, StatInv, UnsentInv, Unsent
  <2>5. GoneInv(f)'
    BY <1>1, <1>4, <2>3 DEF SInv, FileInv, GoneInv, NoRemoval
  <2> QED
    BY <2>3, <2>4, <2>5 DEF FileInv
<1> QED
  BY <1>2, <1>5 DEF SInv

LEMMA SendRemovalKeeps ==
    ASSUME IInv, SInv, SendRemoval
    PROVE  SInv'
<1>1. /\ UNCHANGED <<userVars, rows, uploads, sfile, srow, faults, up, stat, userDir>>
      /\ up /\ pc = "removal" /\ pc' = "dispatch"
      /\ \A f \in todo' : f \in File /\ ctree[f] # NoTime
  BY DEF SendRemoval, procVars, ToBeSent
<1>2. RunsInv'
  BY <1>1 DEF SInv, RunsInv
<1>3. ASSUME NEW f \in File
      PROVE  /\ removals'[f].unlinked = removals[f].unlinked
             /\ stree[f] = NoTime \/ ctree[f] # NoTime => removals'[f] = removals[f]
  <2>1. removals[f] \in [sent : Nat, unlinked : Nat]
    BY DEF IInv, RemovalsInv
  <2>2. removals'[f] = IF f \in Removed THEN [removals[f] EXCEPT !.sent = @ + 1]
                       ELSE removals[f]
    BY DEF SendRemoval
  <2> QED
    BY <2>1, <2>2 DEF Removed
<1>4. ASSUME NEW f \in File PROVE FileInv(f)'
  <2>1. /\ VersionInv(f)' /\ RowInv(f)' /\ UploadsFit(f)'
        /\ (Single => ListedInv(f)' /\ FirstInv(f)')
        /\ UploadsOf(f)' = UploadsOf(f) /\ Present(f)' = Present(f)
        /\ Current(f)' = Current(f) /\ StatusOf(f)' = StatusOf(f)
    BY <1>1, <1>3, Reading
  <2>2. StatInv(f)' /\ UnsentInv(f)'
    BY <1>1, <2>1 DEF SInv, FileInv, StatInv, UnsentInv, Unsent
  <2>3. GoneInv(f)'
    BY <1>1, <1>3, <2>1 DEF SInv, FileInv, GoneInv, NoRemoval
  <2> QED
    BY <2>1, <2>2, <2>3 DEF FileInv
<1> QED
  BY <1>2, <1>4 DEF SInv

(* A step that writes the table keeps the uploads of a file in order when   *)
(* its row stays current.                                                   *)
LEMMA TableKeepsUploads ==
    ASSUME SInv, NEW f \in File, UNCHANGED <<userVars, uploads, serverVars, faults>>,
           Current(f) => Current(f)'
    PROVE  /\ UploadsOf(f)' = UploadsOf(f) /\ UploadsFit(f)'
           /\ Present(f)' = Present(f) /\ Listed(f)' = Listed(f) /\ VersionInv(f)'
<1> USE DEF userVars, serverVars
<1>1. UploadsOf(f)' = UploadsOf(f) /\ Present(f)' = Present(f) /\ Listed(f)' = Listed(f)
  BY DEF UploadsOf, Present, Listed
<1>2. \A u \in UploadsOf(f) : UploadFits(f, uploads[u])'
  BY DEF SInv, FileInv, UploadsFit, UploadFits
<1>3. UploadsFit(f)'
  BY <1>1, <1>2 DEF SInv, FileInv, UploadsFit, Begun
<1>4. VersionInv(f)'
  BY <1>1 DEF SInv, FileInv, VersionInv
<1> QED
  BY <1>1, <1>3, <1>4

(* A row that keeps its hash and its time fits the file that was moved out. *)
LEMMA AwayKept ==
    ASSUME SInv, NEW f \in File, away'[f] = away[f],
           \/ rows'[f] = NoRow
           \/ rows[f] # NoRow /\ rows'[f].hash = rows[f].hash /\ rows'[f].lmt = rows[f].lmt
           \/ rows'[f] = rows[f]
    PROVE  AwayFits(f)'
  BY DEF SInv, FileInv, RowInv, AwayFits, AlreadyHashed

LEMMA InitHashInsertKeeps ==
    ASSUME IInv, SInv, InitHashInsert
    PROVE  SInv'
<1>1. /\ UNCHANGED <<userVars, uploads, serverVars, faults, up, todo, ctree, stree>>
      /\ up /\ pc = "hash" /\ pc' = "clean"
  BY DEF InitHashInsert, procVars
<1>2. RunsInv'
  BY <1>1 DEF SInv, RunsInv, serverVars
<1>3. ASSUME NEW f \in File PROVE FileInv(f)'
  <2>1. CASE stat[f] # NoTime /\ ~AlreadyHashed(f, stat[f]) /\ disk[f] # NoFile
    <3>1. Present(f) /\ disk[f].lmt = stat[f] /\ ~Current(f)
      BY <1>1, <2>1 DEF SInv, FileInv, StatInv, Present, Current
    <3> DEFINE new == [hash |-> disk[f].data, lmt |-> stat[f], status |-> "NEW"]
    <3>2. rows'[f] = new
      BY <2>1 DEF InitHashInsert
    <3>3. new # NoRow
      <4>1. disk[f] \in Version /\ stat[f] \in Time
        BY <2>1 DEF IInv, UserInv, SyncroInv, OutTimes
      <4>2. new \in Row
        BY <4>1 DEF Row, Version, Status
      <4> QED
        BY <4>2, NothingAssumption
    <3>4. StatusOf(f)' = "NEW" /\ AlreadyHashed(f, disk[f].lmt)' /\ rows'[f].hash = disk[f].data
      BY <1>1, <3>1, <3>2, <3>3 DEF StatusOf, AlreadyHashed, userVars
    <3>5. Current(f)'
      BY <1>1, <3>1, <3>4 DEF Current, Present, userVars
    <3>6. /\ UploadsOf(f)' = UploadsOf(f) /\ UploadsFit(f)'
          /\ Present(f)' = Present(f) /\ Listed(f)' = Listed(f) /\ VersionInv(f)'
      BY <1>1, <3>1, TableKeepsUploads
    <3>7. UploadsOf(f) = {}
      BY <3>1 DEF SInv, FileInv, UploadsFit, UploadFits
    <3>away. AwayFits(f)'
      <4>1. away[f] # NoFile => away[f].lmt # stat[f]
        <5>1. away[f] # NoFile => away[f].lmt < disk[f].lmt /\ away[f].lmt \in Nat
          BY <3>1, BoundsAssumption DEF SInv, FileInv, VersionInv, IInv, UserInv, Version, Time
        <5> QED
          BY <3>1, <5>1
      <4> QED
        BY <1>1, <3>2, <4>1 DEF AwayFits, AlreadyHashed, userVars
    <3>8. RowInv(f)' /\ StatInv(f)' /\ UnsentInv(f)' /\ GoneInv(f)'
      BY <1>1, <3>4, <3>5, <3>6, <3>away DEF SInv, RunsInv, FileInv, RowInv, StatInv,
         UnsentInv, Unsent, GoneInv, NoRemoval, userVars, serverVars
    <3>9. Single => ListedInv(f)'
      BY <1>1, <3>1, <3>4, <3>6, <3>7 DEF SInv, FileInv, ListedInv, userVars, serverVars
    <3>10. Single => FirstInv(f)'
      BY <1>1, <3>1, <3>6, <3>7 DEF SInv, FileInv, FirstInv, userVars, serverVars
    <3> QED
      BY <3>6, <3>8, <3>9, <3>10 DEF FileInv
  <2>2. CASE ~(stat[f] # NoTime /\ ~AlreadyHashed(f, stat[f]) /\ disk[f] # NoFile)
    <3>1. rows'[f] = rows[f]
      BY <2>2 DEF InitHashInsert
    <3>2. /\ Current(f)' = Current(f) /\ StatusOf(f)' = StatusOf(f)
      BY <1>1, <3>1 DEF Current, Present, AlreadyHashed, StatusOf, userVars
    <3>3. /\ UploadsOf(f)' = UploadsOf(f) /\ UploadsFit(f)'
          /\ Present(f)' = Present(f) /\ Listed(f)' = Listed(f) /\ VersionInv(f)'
      BY <1>1, <3>2, TableKeepsUploads
    <3>4. Unsent(f) /\ Present(f) => Current(f)
      BY <1>1, <2>2 DEF SInv, FileInv, StatInv, Unsent, StatusOf, Current, Present
    <3>away. AwayFits(f)'
      BY <1>1, <3>1, AwayKept DEF userVars
    <3>5. RowInv(f)' /\ StatInv(f)' /\ UnsentInv(f)' /\ GoneInv(f)'
      BY <1>1, <3>1, <3>2, <3>3, <3>4, <3>away DEF SInv, RunsInv, FileInv, RowInv, StatInv,
         UnsentInv, Unsent, GoneInv, NoRemoval, userVars, serverVars
    <3>6. Single => ListedInv(f)' /\ FirstInv(f)'
      BY <1>1, <3>2, <3>3 DEF SInv, FileInv, ListedInv, FirstInv, Rewriting, userVars,
         serverVars
    <3> QED
      BY <3>3, <3>5, <3>6 DEF FileInv
  <2> QED
    BY <2>1, <2>2
<1> QED
  BY <1>2, <1>3 DEF SInv

LEMMA CleanOldRowsKeeps ==
    ASSUME IInv, SInv, CleanOldRows
    PROVE  SInv'
<1>1. /\ UNCHANGED <<userVars, uploads, serverVars, faults, up, todo, ctree, stree>>
      /\ up /\ pc = "clean" /\ pc' = "tree"
  BY DEF CleanOldRows, procVars
<1>2. RunsInv'
  BY <1>1 DEF SInv, RunsInv, serverVars
<1>3. ASSUME NEW f \in File PROVE FileInv(f)'
  <2>1. rows'[f] = rows[f] \/ (~Present(f) /\ rows'[f] = NoRow)
    BY DEF CleanOldRows
  <2>2. /\ Current(f)' = Current(f)
        /\ StatusOf(f)' = StatusOf(f) \/ (StatusOf(f)' = "none" /\ ~Present(f))
    BY <1>1, <2>1 DEF Current, Present, AlreadyHashed, StatusOf, userVars
  <2>3. /\ UploadsOf(f)' = UploadsOf(f) /\ UploadsFit(f)'
        /\ Present(f)' = Present(f) /\ Listed(f)' = Listed(f) /\ VersionInv(f)'
    BY <1>1, <2>2, TableKeepsUploads
  <2>4. ~Present(f) => UploadsOf(f) = {} /\ ~Current(f)
    BY DEF SInv, FileInv, UploadsFit, UploadFits, Current
  <2>5. Current(f) => rows'[f] = rows[f]
    BY <2>1, <2>4
  <2>away. AwayFits(f)'
    BY <1>1, <2>1, AwayKept DEF userVars
  <2>6. RowInv(f)' /\ StatInv(f)' /\ UnsentInv(f)' /\ GoneInv(f)'
    BY <1>1, <2>2, <2>3, <2>5, <2>away DEF SInv, RunsInv, FileInv, RowInv, StatInv, UnsentInv,
       Unsent, GoneInv, NoRemoval, userVars, serverVars
  <2>7. Single => ListedInv(f)' /\ FirstInv(f)'
    BY <1>1, <2>2, <2>3, <2>4 DEF SInv, FileInv, ListedInv, FirstInv, Rewriting, userVars,
       serverVars
  <2> QED
    BY <2>3, <2>6, <2>7 DEF FileInv
<1> QED
  BY <1>2, <1>3 DEF SInv

(* The status of a row, and nothing else of it, becomes s.                  *)
LEMMA StatusWritten ==
    ASSUME IInv, NEW f \in File, rows[f] # NoRow, NEW s \in Status,
           rows'[f] = [rows[f] EXCEPT !.status = s]
    PROVE  /\ rows'[f] # NoRow /\ StatusOf(f)' = s
           /\ rows'[f].hash = rows[f].hash /\ rows'[f].lmt = rows[f].lmt
<1>1. rows[f] \in Row
  BY DEF IInv, RowsInv
<1>2. rows'[f] \in Row /\ rows'[f].status = s
      /\ rows'[f].hash = rows[f].hash /\ rows'[f].lmt = rows[f].lmt
  BY <1>1 DEF Row
<1> QED
  BY <1>2, NothingAssumption DEF StatusOf

LEMMA AlignStatusKeeps ==
    ASSUME IInv, SInv, AlignStatus
    PROVE  SInv'
<1>1. /\ UNCHANGED <<userVars, uploads, serverVars, faults, up, todo, ctree, stree>>
      /\ up /\ pc = "align" /\ pc' = "removal"
  BY DEF AlignStatus, procVars
<1>2. RunsInv'
  BY <1>1 DEF SInv, RunsInv, serverVars
<1>3. ASSUME NEW f \in File PROVE FileInv(f)'
  <2>1. CASE stree[f] = ctree[f] /\ AlreadyHashed(f, ctree[f]) /\ f \in SameFileSameLmt
    <3>1. rows'[f] = [rows[f] EXCEPT !.status = "SENT"]
      BY <2>1 DEF AlignStatus
    <3>2. rows[f] # NoRow /\ "SENT" \in Status
      BY <2>1 DEF AlreadyHashed, Status
    <3>3. /\ rows'[f] # NoRow /\ StatusOf(f)' = "SENT"
          /\ rows'[f].hash = rows[f].hash /\ rows'[f].lmt = rows[f].lmt
      BY <3>1, <3>2, StatusWritten
    <3>4. Current(f)' = Current(f)
      BY <1>1, <3>2, <3>3 DEF Current, Present, AlreadyHashed, userVars
    <3>5. /\ UploadsOf(f)' = UploadsOf(f) /\ UploadsFit(f)'
          /\ Present(f)' = Present(f) /\ Listed(f)' = Listed(f) /\ VersionInv(f)'
      BY <1>1, <3>4, TableKeepsUploads
    <3>6. Single /\ Current(f) => Listed(f)
      BY <1>1, <2>1 DEF SInv, FileInv, ListedInv, Current, AlreadyHashed
    <3>away. AwayFits(f)'
      BY <1>1, <3>2, <3>3, AwayKept DEF userVars
    <3>7. RowInv(f)' /\ StatInv(f)' /\ UnsentInv(f)' /\ GoneInv(f)'
      BY <1>1, <3>3, <3>4, <3>5, <3>away DEF SInv, RunsInv, FileInv, RowInv, StatInv,
         UnsentInv, Unsent, GoneInv, NoRemoval, userVars, serverVars
    <3>8. Single => ListedInv(f)' /\ FirstInv(f)'
      BY <1>1, <3>3, <3>4, <3>5, <3>6 DEF SInv, FileInv, ListedInv, FirstInv, Rewriting,
         userVars, serverVars
    <3> QED
      BY <3>5, <3>7, <3>8 DEF FileInv
  <2>2. CASE ~(AlreadyHashed(f, ctree[f]) /\ f \in SameFileSameLmt)
    <3>1. rows'[f] = rows[f]
      BY <2>2 DEF AlignStatus
    <3>2. Current(f)' = Current(f) /\ StatusOf(f)' = StatusOf(f)
      BY <1>1, <3>1 DEF Current, Present, AlreadyHashed, StatusOf, userVars
    <3>3. /\ UploadsOf(f)' = UploadsOf(f) /\ UploadsFit(f)'
          /\ Present(f)' = Present(f) /\ Listed(f)' = Listed(f) /\ VersionInv(f)'
      BY <1>1, <3>2, TableKeepsUploads
    <3>away. AwayFits(f)'
      BY <1>1, <3>1, AwayKept DEF userVars
    <3>4. RowInv(f)' /\ StatInv(f)' /\ UnsentInv(f)' /\ GoneInv(f)'
      BY <1>1, <3>1, <3>2, <3>3, <3>away DEF SInv, RunsInv, FileInv, RowInv, StatInv,
         UnsentInv, Unsent, GoneInv, NoRemoval, userVars, serverVars
    <3>5. Single => ListedInv(f)' /\ FirstInv(f)'
      BY <1>1, <3>2, <3>3 DEF SInv, FileInv, ListedInv, FirstInv, Rewriting, userVars,
         serverVars
    <3> QED
      BY <3>3, <3>4, <3>5 DEF FileInv
  <2> QED
    BY <2>1, <2>2 DEF SameFileSameLmt
<1> QED
  BY <1>2, <1>3 DEF SInv

LEMMA DispatchKeeps ==
    ASSUME IInv, SInv, NEW f \in File, Dispatch(f)
    PROVE  SInv'
<1>1. /\ UNCHANGED <<userVars, serverVars, faults, up, pc, stat, ctree, stree>>
      /\ up /\ pc = "dispatch" /\ f \in todo /\ todo' = todo \ {f}
  BY DEF Dispatch, procVars
<1>2. RunsInv' /\ SameFaults /\ userDir
  BY <1>1 DEF SInv, RunsInv, SameFaults, serverVars
<1>3. \A g \in File : SameView(g) /\ SameStore(g)
  BY <1>1 DEF SameView, SameStore, userVars, serverVars
<1>4. CASE StatusOf(f) # "NEW"
  <2>1. rows' = rows /\ uploads' = uploads
    BY <1>4 DEF Dispatch
  <2>2. \A g \in File : SameRow(g) /\ SameUploads(g)
    BY <2>1 DEF SameRow, SameUploads, UploadsOf
  <2> QED
    BY <1>2, <1>3, <2>2, Untouched DEF SInv
<1>5. CASE StatusOf(f) = "NEW"
  <2>1. Present(f) /\ Current(f)
    BY <1>1, <1>5 DEF SInv, FileInv, UnsentInv, Unsent
  <2> DEFINE new == [file |-> f, hash |-> rows[f].hash, lmt |-> rows[f].lmt, c |-> "queued",
                     s |-> "none", seen |-> 0, sent |-> NoTime, linked |-> FALSE,
                     answer |-> 0]
  <2>2. PICK u \in Slot : uploads[u] = NoUpload /\ uploads' = [uploads EXCEPT ![u] = new]
    BY <1>5 DEF Dispatch
  <2>3. rows' = [rows EXCEPT ![f].status = "SENDING"]
    BY <1>5 DEF Dispatch
  <2>4. rows[f] # NoRow /\ rows[f] \in Row
    BY <2>1 DEF Current, AlreadyHashed, IInv, RowsInv
  <2>5. \A g \in File \ {f} : SameRow(g)
    BY <2>3 DEF IInv, RowsInv, SameRow
  <2>6. /\ StatusOf(f)' = "SENDING" /\ rows'[f] # NoRow
        /\ rows'[f].hash = rows[f].hash /\ rows'[f].lmt = rows[f].lmt
    <3>1. rows'[f] = [rows[f] EXCEPT !.status = "SENDING"] /\ "SENDING" \in Status
      BY <2>3 DEF IInv, RowsInv, Status
    <3> QED
      BY <2>4, <3>1, StatusWritten
  <2>7. /\ new.file = f /\ new.hash = rows[f].hash /\ new.lmt = rows[f].lmt
        /\ new.c = "queued" /\ new.s = "none" /\ new.sent = NoTime
    OBVIOUS
  <2>8. new # NoUpload
    <3>1. 0 \in Data
      BY BoundsAssumption DEF Data
    <3>2. new \in Upload
      BY <2>4, <3>1 DEF Row, Upload
    <3> QED
      BY <3>2, NothingAssumption
  <2> HIDE DEF new
  <2>9. uploads'[u] = new /\ \A v \in Slot \ {u} : uploads'[v] = uploads[v]
    BY <2>2 DEF IInv, UploadsInv
  <2>10. \A g \in File \ {f} : SameUploads(g)
    BY <2>2, <2>7, <2>9 DEF SameUploads, UploadsOf
  <2>11. /\ UploadsOf(f)' = UploadsOf(f) \cup {u} /\ u \notin UploadsOf(f)
         /\ \A v \in UploadsOf(f) : uploads'[v] = uploads[v]
    BY <2>2, <2>7, <2>8, <2>9 DEF UploadsOf
  <2>12. Current(f)' /\ Present(f)' /\ Listed(f)' = Listed(f)
    BY <1>1, <2>1, <2>6 DEF Current, Present, AlreadyHashed, Listed, userVars, serverVars
  <2>13. rows[f].hash = disk[f].data /\ rows[f].lmt = disk[f].lmt
    BY <2>1 DEF SInv, FileInv, RowInv, Current, AlreadyHashed
  <2>14. /\ VersionInv(f)' /\ RowInv(f)' /\ StatInv(f)' /\ UnsentInv(f)' /\ GoneInv(f)'
    <3>1. VersionInv(f)'
      BY <1>1, <2>1, <2>12 DEF SInv, FileInv, VersionInv, userVars, serverVars
    <3>2. RowInv(f)'
      <4>1. AwayFits(f)'
        BY <1>1, <2>4, <2>6, AwayKept DEF userVars
      <4> QED
        BY <1>1, <2>6, <2>13, <4>1 DEF RowInv, userVars
    <3>3. StatInv(f)' /\ GoneInv(f)'
      BY <1>1, <2>1, <2>12 DEF SInv, FileInv, StatInv, GoneInv, NoRemoval, serverVars
    <3>4. UnsentInv(f)'
      BY <1>1, <2>12 DEF UnsentInv
    <3> QED
      BY <3>1, <3>2, <3>3, <3>4
  <2>15. UploadsFit(f)'
    <3>1. UploadFits(f, uploads[u])'
      BY <1>1, <1>2, <2>7, <2>9, <2>12, <2>13, NothingAssumption, BoundsAssumption
      DEF UploadFits, userVars, serverVars, Time
    <3>2. ASSUME NEW v \in UploadsOf(f) PROVE UploadFits(f, uploads[v])'
      BY <1>1, <2>11, <2>12 DEF SInv, FileInv, UploadsFit, UploadFits, userVars, serverVars
    <3>3. ~Begun(uploads'[u])
      BY <2>7, <2>9 DEF Begun
    <3> QED
      BY <2>11, <3>1, <3>2, <3>3 DEF SInv, FileInv, UploadsFit, Begun
  <2>16. Single => ListedInv(f)'
    BY <1>1, <2>1, <2>6, <2>11, <2>12 DEF SInv, FileInv, ListedInv, Rewriting, userVars, serverVars
  <2>17. Single => FirstInv(f)'
    BY <1>1, <1>5, <2>1, <2>6, <2>11, <2>12 DEF SInv, FileInv, FirstInv, userVars, serverVars
  <2>18. FileInv(f)'
    BY <2>14, <2>15, <2>16, <2>17 DEF FileInv
  <2> QED
    BY <1>2, <1>3, <2>5, <2>10, <2>18, OneFile
<1> QED
  BY <1>4, <1>5

-----------------------------------------------------------------------------
(* Uploads.                                                                 *)

(* The slot is free again.                                                  *)
Freed(r) == r.c = "done" /\ r.s \in {"answered", "deaf", "gone"}

(* One upload becomes r, the others stay.                                   *)
LEMMA OneBecomes ==
    ASSUME IInv, NEW u \in Slot, uploads[u] # NoUpload, NEW f \in File, uploads[u].file = f,
           NEW r \in Upload, r.file = f, Becomes(u, r)
    PROVE  /\ \A g \in File \ {f} : SameUploads(g)
           /\ u \in UploadsOf(f)
           /\ UploadsOf(f)' = IF Freed(r) THEN UploadsOf(f) \ {u} ELSE UploadsOf(f)
           /\ ~Freed(r) => uploads'[u] = r
           /\ \A v \in UploadsOf(f) \ {u} : uploads'[v] = uploads[v]
<1>1. /\ uploads'[u] = IF Freed(r) THEN NoUpload ELSE r
      /\ \A v \in Slot \ {u} : uploads'[v] = uploads[v]
  BY DEF Becomes, Freed, IInv, UploadsInv
<1>2. r # NoUpload
  BY NothingAssumption
<1>3. \A g \in File \ {f} : SameUploads(g)
  BY <1>1, <1>2 DEF SameUploads, UploadsOf
<1>4. UploadsOf(f)' = IF Freed(r) THEN UploadsOf(f) \ {u} ELSE UploadsOf(f)
  BY <1>1, <1>2 DEF UploadsOf
<1> QED
  BY <1>1, <1>3, <1>4 DEF UploadsOf

(* What the server does for one upload does not concern the others of the   *)
(* file: it has not begun them, or has forgotten them.                      *)
LEMMA OthersFit ==
    ASSUME IInv, SInv, NEW u \in Slot, NEW f \in File, u \in UploadsOf(f), SameFaults,
           disk' = disk, userDir' = userDir, Current(f)',
           \/ sfile'[f] = sfile[f] /\ srow'[f] = srow[f]
           \/ Begun(uploads[u]),
           NEW v \in UploadsOf(f), v # u, uploads'[v] = uploads[v]
    PROVE  UploadFits(f, uploads[v])'
<1>1. UploadFits(f, uploads[v])
  BY DEF SInv, FileInv, UploadsFit
<1>2. faults > 0 => faults' > 0
  BY BoundsAssumption DEF SameFaults, IInv, FaultsInv
<1>3. CASE sfile'[f] = sfile[f] /\ srow'[f] = srow[f]
  BY <1>1, <1>2, <1>3 DEF UploadFits
<1>4. CASE Begun(uploads[u])
  <2>1. ~Begun(uploads[v])
    BY <1>4 DEF SInv, FileInv, UploadsFit
  <2>2. uploads[v].s \in {"none", "gone"} /\ uploads[v].sent # 0
    <3>1. 0 \in Time
      BY BoundsAssumption DEF Time
    <3> QED
      BY <1>1, <2>1, <3>1, NothingAssumption DEF UploadFits, Begun
  <2> QED
    BY <1>1, <1>2, <2>2 DEF UploadFits
<1> QED
  BY <1>3, <1>4

(* How an upload may leave the row of its file: as it was, or settled.      *)
RowSettled(f) ==
    \/ rows'[f] = rows[f]
    \/ /\ StatusOf(f) = "SENDING" /\ StatusOf(f)' \in {"NEW", "SENT", "NOTSENT"}
       /\ rows[f] # NoRow /\ rows'[f] # NoRow
       /\ rows'[f].hash = rows[f].hash /\ rows'[f].lmt = rows[f].lmt
       /\ StatusOf(f)' = "NOTSENT" => f \in TooLong

(* What is the same for every step of an upload.                            *)
LEMMA OneUpload ==
    ASSUME IInv, SInv, NEW u \in Slot, uploads[u] # NoUpload, NEW f \in File,
           uploads[u].file = f, NEW r \in Upload, r.file = f, Becomes(u, r),
           UNCHANGED <<userVars, procVars, syncVars, userDir, removals>>, SameFaults,
           \A g \in File \ {f} : rows'[g] = rows[g] /\ sfile'[g] = sfile[g] /\ srow'[g] = srow[g],
           RowSettled(f),
           srow'[f] = srow[f] \/ (srow'[f] = disk[f].lmt /\ f \notin TooLong),
           (sfile'[f] = sfile[f] /\ srow'[f] = srow[f]) \/ Begun(uploads[u]),
           Freed(r) \/ (Current(f)' => UploadFits(f, r)'),
           Begun(r) => Begun(uploads[u]) \/ \A v \in UploadsOf(f) \ {u} : ~Begun(uploads[v]),
           Single => ListedInv(f)' /\ FirstInv(f)'
    PROVE  SInv'
<1> USE DEF userVars, procVars, syncVars
<1>1. /\ \A g \in File \ {f} : SameUploads(g)
      /\ u \in UploadsOf(f)
      /\ UploadsOf(f)' = IF Freed(r) THEN UploadsOf(f) \ {u} ELSE UploadsOf(f)
      /\ ~Freed(r) => uploads'[u] = r
      /\ \A v \in UploadsOf(f) \ {u} : uploads'[v] = uploads[v]
  BY OneBecomes
<1>2. UploadFits(f, uploads[u])
  BY <1>1 DEF SInv, FileInv, UploadsFit
<1>3. Current(f) /\ Present(f) /\ userDir
  BY <1>2 DEF UploadFits, Current
<1>4. Current(f)' /\ Present(f)' /\ (Unsent(f)' => Unsent(f)) /\ (rows'[f].hash = rows[f].hash)
  BY <1>3 DEF RowSettled, Current, Present, AlreadyHashed, Unsent, StatusOf
<1>5. VersionInv(f)'
  <2>1. disk[f].lmt <= now
    BY <1>3 DEF SInv, FileInv, VersionInv, Present, IInv, UserInv, Version
  <2> QED
    BY <1>3, <2>1 DEF SInv, FileInv, VersionInv, Present
<1>6. RowInv(f)'
  BY <1>3, <1>4 DEF SInv, FileInv, RowInv, RowSettled, StatusOf, AwayFits, AlreadyHashed
<1>7. StatInv(f)' /\ UnsentInv(f)'
  <2>1. StatInv(f)'
    BY <1>3, <1>4 DEF SInv, FileInv, StatInv, RowSettled, AlreadyHashed
  <2>2. UnsentInv(f)'
    BY <1>3, <1>4 DEF SInv, FileInv, UnsentInv
  <2> QED
    BY <2>1, <2>2
<1>8. GoneInv(f)'
  <2>1. ~(pc = "request" /\ ctree[f] = NoTime)
    BY <1>1, <1>3 DEF SInv, FileInv, GoneInv
  <2> QED
    BY <1>3, <2>1 DEF SInv, FileInv, GoneInv, NoRemoval
<1>9. UploadsFit(f)'
  <2>1. \A v \in UploadsOf(f) \ {u} : UploadFits(f, uploads[v])'
    BY <1>1, <1>4, OthersFit
  <2>2. ~Freed(r) => UploadFits(f, uploads[u])'
    <3>1. UploadFits(f, r)' /\ ~Freed(r) => UploadFits(f, uploads[u])'
      BY <1>1 DEF UploadFits
    <3> QED
      BY <1>4, <3>1
  <2>3. \A v, w \in UploadsOf(f)' : Begun(uploads'[v]) /\ Begun(uploads'[w]) => v = w
    BY <1>1 DEF SInv, FileInv, UploadsFit
  <2> QED
    BY <1>1, <2>1, <2>2, <2>3 DEF UploadsFit, Begun
<1>10. FileInv(f)'
  BY <1>5, <1>6, <1>7, <1>8, <1>9 DEF FileInv
<1>11. RunsInv'
  <2>1. faults' = 0 => faults = 0
    BY BoundsAssumption DEF SameFaults, IInv, FaultsInv
  <2> QED
    BY <2>1 DEF SInv, RunsInv
<1>12. \A g \in File \ {f} : SameView(g) /\ SameRow(g) /\ SameUploads(g) /\ SameStore(g)
  BY <1>1 DEF SameView, SameRow, SameStore
<1> QED
  BY <1>10, <1>11, <1>12, OneFile

(* What is known of an upload that one of its sides works on.               *)
LEMMA AtUpload ==
    ASSUME IInv, SInv, NEW u \in Slot, uploads[u] # NoUpload
    PROVE  /\ uploads[u] \in Upload /\ uploads[u].file \in File
           /\ u \in UploadsOf(uploads[u].file)
           /\ UploadFits(uploads[u].file, uploads[u])
           /\ Present(uploads[u].file)
<1>1. uploads[u] \in Upload /\ uploads[u].file \in File /\ u \in UploadsOf(uploads[u].file)
  BY Existing DEF IInv, Upload, UploadsOf
<1>2. UploadFits(uploads[u].file, uploads[u])
  BY <1>1 DEF SInv, FileInv, UploadsFit
<1> QED
  BY <1>1, <1>2 DEF UploadFits, Current

(* The stored files and their rows stay; SENT appears only on a listed      *)
(* file, and a file that was to be written whole still is.                  *)
LEMMA ListedKept ==
    ASSUME IInv, SInv, NEW u \in Slot, uploads[u] # NoUpload, NEW f \in File,
           uploads[u].file = f, NEW r \in Upload, r.file = f, Becomes(u, r),
           UNCHANGED <<disk, away, pc, stree>>, sfile'[f] = sfile[f], srow'[f] = srow[f],
           RowSettled(f),
           \/ Rewriting(uploads[u]) => Rewriting(r) /\ ~Freed(r)
           \/ Single => faults = 0,
           StatusOf(f)' = "SENT" => StatusOf(f) = "SENT" \/ Listed(f)
    PROVE  Single => ListedInv(f)'
<1> SUFFICES ASSUME Single PROVE ListedInv(f)'
  OBVIOUS
<1>1. /\ u \in UploadsOf(f)
      /\ UploadsOf(f)' = IF Freed(r) THEN UploadsOf(f) \ {u} ELSE UploadsOf(f)
      /\ ~Freed(r) => uploads'[u] = r
      /\ \A v \in UploadsOf(f) \ {u} : uploads'[v] = uploads[v]
  BY OneBecomes
<1>2. Present(f) /\ Current(f)
  BY AtUpload DEF UploadFits
<1>3. Present(f)' /\ Listed(f)' = Listed(f) /\ Current(f)'
  BY <1>2 DEF Present, Listed, Current, RowSettled, AlreadyHashed
<1>4. Listed(f) => sfile[f] = disk[f].data \/ \E v \in UploadsOf(f)' : Rewriting(uploads'[v])
  <2>1. CASE faults = 0
    BY <1>2, <2>1 DEF SInv, FileInv, FirstInv, Listed
  <2>2. CASE Rewriting(uploads[u]) => Rewriting(r) /\ ~Freed(r)
    <3>1. Listed(f) => sfile[f] = disk[f].data \/ \E v \in UploadsOf(f) : Rewriting(uploads[v])
      BY <1>2 DEF SInv, FileInv, ListedInv
    <3> QED
      BY <1>1, <2>2, <3>1
  <2> QED
    BY <2>1, <2>2
<1> QED
  BY <1>2, <1>3, <1>4 DEF SInv, FileInv, ListedInv, Rewriting

(* Nothing changes for a file that is sent for the first time: the upload   *)
(* is not answered yet, or ends with its answer.                            *)
LEMMA FirstKept ==
    ASSUME IInv, SInv, NEW u \in Slot, uploads[u] # NoUpload, NEW f \in File,
           uploads[u].file = f, NEW r \in Upload, r.file = f, Becomes(u, r),
           UNCHANGED <<disk, faults>>, srow'[f] = srow[f], RowSettled(f),
           \/ sfile'[f] = sfile[f]
           \/ uploads[u].s # "answered",
           \/ rows'[f] = rows[f] /\ (uploads[u].s # "answered" \/ Freed(r))
           \/ Freed(r) /\ (StatusOf(f)' # "SENT" => uploads[u].s # "answered"
                                                   \/ uploads[u].answer # 1)
    PROVE  Single => FirstInv(f)'
<1> SUFFICES ASSUME Single PROVE FirstInv(f)'
  OBVIOUS
<1>1. /\ u \in UploadsOf(f)
      /\ UploadsOf(f)' = IF Freed(r) THEN UploadsOf(f) \ {u} ELSE UploadsOf(f)
      /\ ~Freed(r) => uploads'[u] = r
      /\ \A v \in UploadsOf(f) \ {u} : uploads'[v] = uploads[v]
  BY OneBecomes
<1>2. Present(f) /\ Current(f)
  BY AtUpload DEF UploadFits
<1>3. Present(f)' /\ Current(f)'
  BY <1>2 DEF Present, Current, RowSettled, AlreadyHashed
<1> SUFFICES ASSUME faults = 0 PROVE FirstInv(f)'
  BY DEF FirstInv
<1>4. UploadsOf(f) = {u}
  BY <1>1 DEF SInv, FileInv, FirstInv
<1>5. srow[f] = disk[f].lmt =>
         /\ sfile[f] = disk[f].data /\ StatusOf(f) # "NEW"
         /\ uploads[u].s = "answered" /\ uploads[u].answer = 1
  BY <1>1, <1>2 DEF SInv, FileInv, FirstInv
<1>6. StatusOf(f) \in {"SENDING", "SENT"}
  BY <1>1 DEF SInv, FileInv, FirstInv
<1>7. rows'[f] = rows[f] => StatusOf(f)' = StatusOf(f)
  BY DEF StatusOf
<1> QED
  BY <1>1, <1>3, <1>4, <1>5, <1>6, <1>7 DEF FirstInv

(* UpdateFileStatus settles the row, if a FileSipper was to.                *)
LEMMA UpdateSettles ==
    ASSUME IInv, NEW f \in File, NEW a \in 0 .. 2, a = 2 => f \in TooLong,
           UpdateFileStatus(f, a)
    PROVE  /\ \A g \in File \ {f} : rows'[g] = rows[g]
           /\ RowSettled(f)
           /\ StatusOf(f)' = "SENT" => StatusOf(f) = "SENT" \/ a = 1
           /\ a = 1 /\ StatusOf(f) \in {"SENDING", "SENT"} => StatusOf(f)' = "SENT"
<1>1. CASE StatusOf(f) = "SENDING"
  <2>1. rows[f] # NoRow
    BY <1>1 DEF StatusOf
  <2>2. PICK s \in {"NEW", "SENT", "NOTSENT"} :
           /\ rows' = [rows EXCEPT ![f].status = s]
           /\ (s = "SENT" <=> a = 1) /\ (s = "NOTSENT" => a = 2)
    <3>1. CASE a = 1
      BY <1>1, <3>1 DEF UpdateFileStatus, RowsAfter
    <3>2. CASE a = 0
      BY <1>1, <3>2 DEF UpdateFileStatus, RowsAfter
    <3>3. CASE a = 2
      BY <1>1, <3>3 DEF UpdateFileStatus, RowsAfter
    <3> QED
      BY <3>1, <3>2, <3>3
  <2>3. /\ rows'[f] = [rows[f] EXCEPT !.status = s]
        /\ \A g \in File \ {f} : rows'[g] = rows[g]
    BY <2>2 DEF IInv, RowsInv
  <2>4. s \in Status
    BY DEF Status
  <2>5. /\ rows'[f] # NoRow /\ StatusOf(f)' = s
        /\ rows'[f].hash = rows[f].hash /\ rows'[f].lmt = rows[f].lmt
    BY <2>1, <2>3, <2>4, StatusWritten
  <2> QED
    BY <1>1, <2>1, <2>2, <2>3, <2>5 DEF RowSettled
<1>2. CASE StatusOf(f) # "SENDING"
  <2>1. rows' = rows
    BY <1>2 DEF UpdateFileStatus, RowsAfter
  <2> QED
    BY <1>2, <2>1 DEF RowSettled, StatusOf
<1> QED
  BY <1>1, <1>2

LEMMA ConnectKeeps ==
    ASSUME IInv, SInv, Orderly, NEW u \in Slot, Connect(u)
    PROVE  SInv'
<1>0. uploads[u] # NoUpload
  BY DEF Connect, Sipping
<1>2. PICK f \in File : f = uploads[u].file
  BY <1>0, AtUpload
<1>3. /\ uploads[u] \in Upload /\ u \in UploadsOf(f) /\ UploadFits(f, uploads[u]) /\ Present(f)
  BY <1>0, <1>2, AtUpload
<1>4. PICK r : r = [uploads[u] EXCEPT !.c = "opened", !.seen = disk[f].data]
  OBVIOUS
<1>5. Becomes(u, r) /\ UNCHANGED rows
  BY <1>2, <1>3, <1>4 DEF Connect
<1>1. uploads[u] # NoUpload /\ uploads[u].c = "queued" /\ ServerHasFinished(u)
      /\ UNCHANGED <<userVars, procVars, syncVars, serverVars, faults, rows>>
  BY <1>5 DEF Connect, Sipping, Orderly
<1>6. disk[f].data \in Data
  BY <1>3 DEF IInv, UserInv, Version, Present
<1>7. /\ r \in Upload /\ r.file = f /\ r.c = "opened" /\ r.seen = disk[f].data
      /\ r.hash = uploads[u].hash /\ r.lmt = uploads[u].lmt /\ r.s = uploads[u].s
      /\ r.sent = uploads[u].sent /\ r.linked = uploads[u].linked
      /\ r.answer = uploads[u].answer
  BY <1>2, <1>3, <1>4, <1>6 DEF Upload
<1>8. uploads[u].s = "none" /\ uploads[u].sent = NoTime
  BY <1>1, <1>3 DEF UploadFits
<1>9. UploadFits(f, r)' /\ ~Freed(r)
  <2>1. Current(f)' = Current(f) /\ NoTime # 0
    BY <1>1, NothingAssumption, BoundsAssumption DEF Current, Present, AlreadyHashed,
       userVars, Time
  <2> QED
    BY <1>1, <1>3, <1>7, <1>8, <2>1 DEF UploadFits, Freed, userVars, serverVars
<1>10. \A v \in UploadsOf(f) \ {u} : ~Begun(uploads[v])
  BY <1>1, <1>2 DEF ServerHasFinished, Begun
<1>11. SameFaults /\ RowSettled(f) /\ UNCHANGED <<disk, away, pc, stree, sfile, srow>>
       /\ StatusOf(f)' = StatusOf(f)
  BY <1>1 DEF SameFaults, RowSettled, userVars, syncVars, serverVars, StatusOf
<1>12. Single => ListedInv(f)'
  BY <1>1, <1>2, <1>5, <1>7, <1>8, <1>11, ListedKept DEF Rewriting
<1>13. Single => FirstInv(f)'
  BY <1>1, <1>2, <1>5, <1>7, <1>8, <1>11, FirstKept
<1> QED
  BY <1>1, <1>2, <1>5, <1>7, <1>9, <1>10, <1>11, <1>12, <1>13, OneUpload DEF serverVars

LEMMA ReadAndSendKeeps ==
    ASSUME IInv, SInv, NEW u \in Slot, ReadAndSend(u)
    PROVE  SInv'
<1>1. uploads[u] # NoUpload /\ uploads[u].c = "opened" /\ uploads[u].s # "gone"
      /\ UNCHANGED <<userVars, procVars, syncVars, serverVars, faults, rows>>
  BY DEF ReadAndSend, Sipping
<1>2. PICK f \in File : f = uploads[u].file
  BY <1>1, AtUpload
<1>3. /\ uploads[u] \in Upload /\ u \in UploadsOf(f) /\ UploadFits(f, uploads[u]) /\ Present(f)
  BY <1>1, <1>2, AtUpload
<1>4. Becomes(u, [uploads[u] EXCEPT !.c = "waiting", !.sent = uploads[u].hash])
  <2>1. uploads[u].seen = uploads[u].hash /\ disk[f].data = uploads[u].hash
    BY <1>1, <1>3 DEF UploadFits
  <2> QED
    BY <1>2, <2>1 DEF ReadAndSend
<1>5. PICK r : r = [uploads[u] EXCEPT !.c = "waiting", !.sent = uploads[u].hash]
  OBVIOUS
<1>6. /\ r \in Upload /\ r.file = f /\ r.c = "waiting" /\ r.sent = uploads[u].hash
      /\ r.hash = uploads[u].hash /\ r.lmt = uploads[u].lmt /\ r.s = uploads[u].s
      /\ r.linked = uploads[u].linked /\ r.answer = uploads[u].answer
  BY <1>2, <1>3, <1>5 DEF Upload
<1>7. uploads[u].hash # 0 /\ uploads[u].hash # NoTime
  <2>1. disk[f].data > 0 /\ disk[f].data = uploads[u].hash
    BY <1>3 DEF SInv, FileInv, VersionInv, UploadFits
  <2>2. uploads[u].hash \in Time
    BY <1>3 DEF Upload, Data, Time
  <2> QED
    BY <2>1, <2>2, NothingAssumption
<1>8. UploadFits(f, r)' /\ ~Freed(r)
  <2>1. Current(f)' = Current(f)
    BY <1>1 DEF Current, Present, AlreadyHashed, userVars
  <2> QED
    BY <1>1, <1>3, <1>6, <1>7, <2>1 DEF UploadFits, Freed, userVars, serverVars
<1>9. SameFaults /\ RowSettled(f) /\ UNCHANGED <<disk, away, pc, stree, sfile, srow>>
      /\ StatusOf(f)' = StatusOf(f) /\ Becomes(u, r)
  BY <1>1, <1>4, <1>5 DEF SameFaults, RowSettled, userVars, syncVars, serverVars, StatusOf
<1>10. Single => ListedInv(f)'
  BY <1>1, <1>2, <1>6, <1>7, <1>8, <1>9, ListedKept DEF Rewriting
<1>11. Single => FirstInv(f)'
  <2>1. UploadsOf(f)' = UploadsOf(f) /\ uploads'[u] = r
        /\ \A v \in UploadsOf(f) \ {u} : uploads'[v] = uploads[v]
    BY <1>1, <1>2, <1>6, <1>8, <1>9, OneBecomes
  <2> QED
    BY <1>1, <1>3, <1>6, <2>1 DEF SInv, FileInv, FirstInv, Present, Current, AlreadyHashed,
       StatusOf, userVars, serverVars
<1>12. Begun(r) => Begun(uploads[u])
  BY <1>1 DEF Begun
<1> QED
  BY <1>1, <1>2, <1>6, <1>8, <1>9, <1>10, <1>11, <1>12, OneUpload DEF serverVars

(* Where there is a single fault, it is the first.                          *)
LEMMA OneFault ==
    ASSUME IInv, Fault
    PROVE  SameFaults /\ faults' > 0 /\ (Single => faults = 0)
  BY BoundsAssumption DEF Fault, Single, IInv, FaultsInv, SameFaults

(* An upload that has an end.                                               *)
LEMMA EndedUpload ==
    ASSUME NEW r \in Upload
    PROVE  LET e == [r EXCEPT !.c = "done", !.s = "gone"]
           IN  e \in Upload /\ e.file = r.file /\ Freed(e) /\ ~Begun(e)
  BY DEF Upload, Freed, Begun

LEMMA ClientGetsAnswerKeeps ==
    ASSUME IInv, SInv, NEW u \in Slot, ClientGetsAnswer(u)
    PROVE  SInv'
<1>1. uploads[u] # NoUpload /\ uploads[u].s = "answered"
      /\ UNCHANGED <<userVars, procVars, syncVars, serverVars, faults>>
  BY DEF ClientGetsAnswer, Sipping
<1>2. PICK f \in File : f = uploads[u].file
  BY <1>1, AtUpload
<1>3. /\ uploads[u] \in Upload /\ u \in UploadsOf(f) /\ UploadFits(f, uploads[u]) /\ Present(f)
  BY <1>1, <1>2, AtUpload
<1>4. PICK r : r = [uploads[u] EXCEPT !.c = "done", !.s = "gone"]
  OBVIOUS
<1>5. Becomes(u, r) /\ UpdateFileStatus(f, uploads[u].answer)
  BY <1>2, <1>4 DEF ClientGetsAnswer
<1>6. r \in Upload /\ r.file = f /\ Freed(r) /\ ~Begun(r)
  BY <1>2, <1>3, <1>4, EndedUpload
<1>7. uploads[u].answer \in 0 .. 2 /\ (uploads[u].answer = 2 => f \in TooLong)
  BY <1>1, <1>3 DEF Upload, UploadFits
<1>8. /\ \A g \in File \ {f} : rows'[g] = rows[g]
      /\ RowSettled(f)
      /\ StatusOf(f)' = "SENT" => StatusOf(f) = "SENT" \/ uploads[u].answer = 1
      /\ uploads[u].answer = 1 /\ StatusOf(f) \in {"SENDING", "SENT"} => StatusOf(f)' = "SENT"
  BY <1>5, <1>7, UpdateSettles
<1>9. uploads[u].answer = 1 => Listed(f)
  <2>1. uploads[u].answer = 1 => sfile[f] = uploads[u].hash /\ srow[f] = disk[f].lmt
    BY <1>1, <1>3 DEF UploadFits
  <2>2. uploads[u].hash # NoFile
    BY <1>3, NothingAssumption DEF Upload
  <2> QED
    BY <2>1, <2>2 DEF Listed
<1>10. SameFaults /\ UNCHANGED <<disk, away, pc, stree, sfile, srow>>
  BY <1>1 DEF SameFaults, userVars, syncVars, serverVars
<1>11. Single => ListedInv(f)'
  BY <1>1, <1>2, <1>5, <1>6, <1>8, <1>9, <1>10, ListedKept DEF Rewriting
<1>12. Single => FirstInv(f)'
  <2>1. CASE faults = 0 /\ Single
    <3>1. StatusOf(f) \in {"SENDING", "SENT"}
      BY <1>3, <2>1 DEF SInv, FileInv, FirstInv
    <3> QED
      BY <1>1, <1>2, <1>5, <1>6, <1>8, <1>10, <3>1, FirstKept
  <2>2. CASE faults # 0
    BY <1>1, <2>2 DEF FirstInv
  <2> QED
    BY <2>1, <2>2
<1> QED
  BY <1>1, <1>2, <1>5, <1>6, <1>8, <1>10, <1>11, <1>12, OneUpload DEF serverVars

(* The connection is refused, or the server is found to be gone.            *)
LEMMA NoAnswerKeeps ==
    ASSUME IInv, SInv, Orderly, NEW u \in Slot, ConnectFails(u) \/ SeesServerGone(u)
    PROVE  SInv'
<1>1. uploads[u] # NoUpload /\ UNCHANGED <<userVars, procVars, syncVars, serverVars>>
  BY DEF ConnectFails, SeesServerGone, Sipping
<1>2. PICK f \in File : f = uploads[u].file
  BY <1>1, AtUpload
<1>3. /\ uploads[u] \in Upload /\ u \in UploadsOf(f) /\ UploadFits(f, uploads[u]) /\ Present(f)
  BY <1>1, <1>2, AtUpload
<1>4. uploads[u].s \in {"none", "gone"} /\ SameFaults /\ faults' # 0
  <2>1. CASE ConnectFails(u)
    BY <1>3, <2>1, OneFault DEF ConnectFails, Sipping, UploadFits
  <2>2. CASE SeesServerGone(u)
    BY <1>3, <2>2 DEF SeesServerGone, UploadFits, SameFaults
  <2> QED
    BY <2>1, <2>2
<1>5. PICK r \in Upload : Becomes(u, r) /\ r.file = f /\ Freed(r) /\ ~Begun(r)
  <2>1. CASE ConnectFails(u)
    <3>1. Becomes(u, [uploads[u] EXCEPT !.c = "done", !.s = "gone"])
      BY <2>1 DEF ConnectFails
    <3> QED
      BY <1>2, <1>3, <3>1, EndedUpload
  <2>2. CASE SeesServerGone(u)
    <3>1. Becomes(u, [uploads[u] EXCEPT !.c = "done"]) /\ uploads[u].s = "gone"
      BY <2>2 DEF SeesServerGone
    <3>2. LET e == [uploads[u] EXCEPT !.c = "done"]
          IN  e \in Upload /\ e.file = f /\ Freed(e) /\ ~Begun(e)
      BY <1>2, <1>3, <3>1 DEF Upload, Freed, Begun
    <3> QED
      BY <3>1, <3>2
  <2> QED
    BY <2>1, <2>2
<1>6. /\ \A g \in File \ {f} : rows'[g] = rows[g]
      /\ RowSettled(f)
      /\ StatusOf(f)' = "SENT" => StatusOf(f) = "SENT"
  <2>1. CASE UpdateFileStatus(f, 0)
    BY <2>1, UpdateSettles
  <2>2. CASE rows' = rows
    BY <2>2 DEF RowSettled, StatusOf
  <2> QED
    BY <1>2, <2>1, <2>2 DEF ConnectFails, SeesServerGone, ClientFails
<1>7. UNCHANGED <<disk, away, pc, stree, sfile, srow>>
  BY <1>1 DEF userVars, syncVars, serverVars
<1>8. Single => ListedInv(f)'
  BY <1>1, <1>2, <1>4, <1>5, <1>6, <1>7, ListedKept DEF Rewriting
<1>9. Single => FirstInv(f)'
  BY <1>4 DEF FirstInv
<1> QED
  BY <1>1, <1>2, <1>4, <1>5, <1>6, <1>7, <1>8, <1>9, OneUpload DEF serverVars

(* What the service makes of a connection that is lost.                     *)
LEMMA LostFits ==
    ASSUME IInv, SInv, NEW u \in Slot, uploads[u] # NoUpload, uploads[u].c # "queued",
           NEW f \in File, uploads[u].file = f,
           NEW w, w \in {ServiceSees(uploads[u], TRUE), ServiceSees(uploads[u], FALSE)},
           NEW r, r = [w EXCEPT !.c = "done"],
           faults' > 0, Single => faults = 0,
           disk' = disk, sfile' = sfile, srow' = srow, userDir' = userDir
    PROVE  /\ r \in Upload /\ r.file = f /\ (Begun(r) => Begun(uploads[u]))
           /\ Freed(r) <=> w.s \in {"answered", "deaf", "gone"}
           /\ ~Freed(r) => (Current(f)' => UploadFits(f, r)')
<1>1. uploads[u] \in Upload /\ u \in UploadsOf(f) /\ UploadFits(f, uploads[u]) /\ Present(f)
  BY AtUpload
<1>2. w \in Upload
  <2>1. TRUE \in BOOLEAN /\ FALSE \in BOOLEAN
    OBVIOUS
  <2>2. ServiceSees(uploads[u], TRUE) \in Upload /\ ServiceSees(uploads[u], FALSE) \in Upload
    BY <1>1, <2>1, ServiceSeesUpload, Zenon
  <2> QED
    BY <2>2
<1>3. /\ w.file = f /\ w.hash = uploads[u].hash /\ w.lmt = uploads[u].lmt
      /\ w.s = uploads[u].s \/ w.s = "gone"
      /\ w.s # "gone" => w.sent = uploads[u].sent \/ (uploads[u].sent = NoTime /\ w.sent = 0)
      /\ w.linked = uploads[u].linked /\ w.answer = uploads[u].answer
  BY <1>1, <1>2 DEF ServiceSees, Upload
<1>4. /\ r \in Upload /\ r.file = w.file /\ r.hash = w.hash /\ r.lmt = w.lmt /\ r.c = "done"
      /\ r.s = w.s /\ r.sent = w.sent /\ r.linked = w.linked /\ r.answer = w.answer
  BY <1>2 DEF Upload
<1>5. w.s # "gone" => uploads[u].s # "gone"
  BY <1>3, <1>2, <1>1 DEF ServiceSees, Upload
<1>8. w.s # "gone" => w.sent # NoTime
  <2>1. NoTime # 0
    BY BoundsAssumption, NothingAssumption DEF Time
  <2> QED
    BY <1>1, <2>1 DEF ServiceSees, Upload
<1>6. Single /\ srow[f] = uploads[u].lmt => uploads[u].s = "answered"
  BY <1>1 DEF SInv, FileInv, FirstInv, UploadFits
<1>7. ~Freed(r) => (Current(f)' => UploadFits(f, r)')
  <2> SUFFICES ASSUME ~Freed(r), Current(f)' PROVE UploadFits(f, r)'
    OBVIOUS
  <2>1. r.s = uploads[u].s /\ r.s \notin {"answered", "deaf", "gone"}
        /\ r.sent \in {NoTime, 0, r.hash}
    BY <1>1, <1>3, <1>4 DEF Freed, UploadFits
  <2> QED
    BY <1>1, <1>3, <1>4, <1>6, <1>8, <2>1 DEF UploadFits
<1> QED
  BY <1>2, <1>3, <1>4, <1>5, <1>7 DEF Freed, Begun

LEMMA BreakKeeps ==
    ASSUME IInv, SInv, Orderly, NEW u \in Slot, Break(u)
    PROVE  SInv'
<1>1. /\ uploads[u] # NoUpload /\ uploads[u].c # "queued" /\ uploads[u].s # "gone"
      /\ UNCHANGED <<userVars, procVars, syncVars, serverVars>>
      /\ SameFaults /\ faults' > 0 /\ (Single => faults = 0)
  BY OneFault DEF Break
<1>2. PICK f \in File : f = uploads[u].file
  BY <1>1, AtUpload
<1>3. PICK w : /\ w \in {ServiceSees(uploads[u], TRUE), ServiceSees(uploads[u], FALSE)}
                /\ Becomes(u, [w EXCEPT !.c = "done"])
  <2>1. PICK reset \in BOOLEAN :
           Becomes(u, [ServiceSees(uploads[u], reset) EXCEPT !.c = "done"])
    BY DEF Break
  <2>2. CASE reset = TRUE
    BY <2>1, <2>2, Zenon
  <2>3. CASE reset = FALSE
    BY <2>1, <2>3, Zenon
  <2> QED
    BY <2>2, <2>3
<1>4. PICK r : r = [w EXCEPT !.c = "done"]
  OBVIOUS
<1>5. UNCHANGED <<disk, away, pc, stree, sfile, srow, userDir, removals>> /\ Becomes(u, r)
  BY <1>1, <1>3, <1>4 DEF userVars, syncVars, serverVars
<1>6. /\ r \in Upload /\ r.file = f /\ (Begun(r) => Begun(uploads[u]))
      /\ ~Freed(r) => (Current(f)' => UploadFits(f, r)')
  <2>1. r \in Upload /\ r.file = f
    <3>1. uploads[u] \in Upload /\ TRUE \in BOOLEAN /\ FALSE \in BOOLEAN
      BY <1>1, AtUpload
    <3>2. w \in Upload
      BY <1>3, <3>1, ServiceSeesUpload, Zenon
    <3>3. w.file = f
      BY <1>2, <1>3, <3>1 DEF ServiceSees, Upload
    <3> QED
      BY <1>4, <3>2, <3>3 DEF Upload
  <2>2. (Begun(r) => Begun(uploads[u]))
    BY <1>1, <1>2, <1>3, <1>4, <1>5, LostFits
  <2>3. ~Freed(r) => (Current(f)' => UploadFits(f, r)')
    BY <1>1, <1>2, <1>3, <1>4, <1>5, LostFits
  <2> QED
    BY <2>1, <2>2, <2>3
<1>7. /\ \A g \in File \ {f} : rows'[g] = rows[g]
      /\ RowSettled(f)
      /\ StatusOf(f)' = "SENT" => StatusOf(f) = "SENT"
  <2>1. CASE UpdateFileStatus(f, 0)
    BY <2>1, UpdateSettles
  <2>2. CASE rows' = rows
    BY <2>2 DEF RowSettled, StatusOf
  <2> QED
    BY <1>2, <2>1, <2>2 DEF Break, ClientFails
<1>8. Single => ListedInv(f)'
  BY <1>1, <1>2, <1>5, <1>6, <1>7, ListedKept
<1>9. Single => FirstInv(f)'
  BY <1>1 DEF FirstInv
<1> QED
  BY <1>1, <1>2, <1>5, <1>6, <1>7, <1>8, <1>9, OneUpload

-----------------------------------------------------------------------------
(* AsyncService.                                                            *)

(* What is known of an upload the server works on.                          *)
LEMMA AtService ==
    ASSUME IInv, SInv, NEW u \in Slot, NEW f \in File, uploads[u] # NoUpload,
           f = uploads[u].file, uploads[u].s # "gone",
           uploads[u].c # "queued" \/ uploads[u].s # "none"
    PROVE  /\ uploads[u] \in Upload /\ u \in UploadsOf(f) /\ UploadFits(f, uploads[u])
           /\ Present(f) /\ Current(f) /\ disk[f].data # 0
           /\ uploads[u].hash = disk[f].data /\ uploads[u].lmt = disk[f].lmt
           /\ uploads[u].hash # NoFile
           /\ Begun(uploads[u])
           /\ \A v \in UploadsOf(f) \ {u} : ~Begun(uploads[v])
           /\ Single /\ Listed(f) => sfile[f] = disk[f].data \/ Rewriting(uploads[u])
<1>1. uploads[u] \in Upload /\ u \in UploadsOf(f) /\ UploadFits(f, uploads[u]) /\ Present(f)
  BY AtUpload
<1>2. Current(f) /\ uploads[u].hash = disk[f].data /\ uploads[u].lmt = disk[f].lmt
  BY <1>1 DEF UploadFits
<1>3. disk[f].data # 0
  BY <1>1 DEF SInv, FileInv, VersionInv
<1>4. Begun(uploads[u])
  BY <1>1 DEF Begun, UploadFits
<1>5. \A v \in UploadsOf(f) \ {u} : ~Begun(uploads[v])
  BY <1>1, <1>4 DEF SInv, FileInv, UploadsFit
<1>6. \A v \in UploadsOf(f) : Rewriting(uploads[v]) => Begun(uploads[v])
  BY DEF SInv, FileInv, UploadsFit, UploadFits, Rewriting, Begun
<1>7. Single /\ Listed(f) => sfile[f] = disk[f].data \/ Rewriting(uploads[u])
  BY <1>1, <1>5, <1>6 DEF SInv, FileInv, ListedInv
<1>8. uploads[u].hash # NoFile
  BY <1>1, NothingAssumption DEF Upload
<1> QED
  BY <1>1, <1>2, <1>3, <1>4, <1>5, <1>7, <1>8

(* The steps that change no file and no row: what is left to show.          *)
LEMMA ServiceReads ==
    ASSUME IInv, SInv, NEW u \in Slot, NEW f \in File, uploads[u] # NoUpload,
           f = uploads[u].file, uploads[u].s \notin {"gone", "answered"},
           uploads[u].c # "queued" \/ uploads[u].s # "none",
           UNCHANGED <<userVars, procVars, syncVars, rows, serverVars, faults>>,
           NEW r \in Upload, r.file = f, Becomes(u, r), UploadFits(f, r) \/ Freed(r),
           ~Rewriting(uploads[u])
    PROVE  SInv'
<1> USE DEF userVars, procVars, syncVars, serverVars
<1>1. SameFaults /\ RowSettled(f) /\ StatusOf(f)' = StatusOf(f)
      /\ UNCHANGED <<disk, away, pc, stree, sfile, srow>>
  BY DEF SameFaults, RowSettled, StatusOf
<1>2. Single => ListedInv(f)'
  BY <1>1, ListedKept
<1>3. Single => FirstInv(f)'
  BY <1>1, FirstKept
<1>4. Begun(uploads[u])
  BY AtService
<1>5. Freed(r) \/ (Current(f)' => UploadFits(f, r)')
  BY DEF UploadFits
<1> QED
  BY <1>1, <1>2, <1>3, <1>4, <1>5, OneUpload

LEMMA ServerDigestsKeeps ==
    ASSUME IInv, SInv, NEW u \in Slot, ServerDigests(u)
    PROVE  SInv'
<1>1. uploads[u] # NoUpload /\ uploads[u].s = "closed"
      /\ UNCHANGED <<userVars, procVars, syncVars, rows, serverVars, faults>>
  BY DEF ServerDigests, Serving
<1>2. PICK f \in File : f = uploads[u].file
  BY <1>1, AtUpload
<1>3. uploads[u] \in Upload /\ UploadFits(f, uploads[u])
  BY <1>1, <1>2, AtService
<1>4. PICK s \in {"equal", "differs"} :
         /\ s = "equal" <=> sfile[f] = uploads[u].hash
         /\ Becomes(u, [uploads[u] EXCEPT !.s = s])
  BY <1>2 DEF ServerDigests
<1>5. PICK r : r = [uploads[u] EXCEPT !.s = s]
  OBVIOUS
<1>6. /\ r \in Upload /\ r.file = f /\ r.c = uploads[u].c /\ r.sent = uploads[u].sent
      /\ r.hash = uploads[u].hash /\ r.lmt = uploads[u].lmt /\ r.s = s
      /\ r.seen = uploads[u].seen /\ r.linked = uploads[u].linked
      /\ r.answer = uploads[u].answer
  BY <1>2, <1>3, <1>5 DEF Upload
<1>7. UploadFits(f, r)
  BY <1>1, <1>3, <1>4, <1>6 DEF UploadFits
<1> QED
  BY <1>1, <1>2, <1>4, <1>5, <1>6, <1>7, ServiceReads DEF Rewriting

LEMMA ServerChecksExistsKeeps ==
    ASSUME IInv, SInv, NEW u \in Slot, ServerChecksExists(u)
    PROVE  SInv'
<1>1. uploads[u] # NoUpload /\ uploads[u].s = "equal"
      /\ UNCHANGED <<userVars, procVars, syncVars, rows, serverVars, faults>>
  BY DEF ServerChecksExists, Serving
<1>2. PICK f \in File : f = uploads[u].file
  BY <1>1, AtUpload
<1>3. uploads[u] \in Upload /\ UploadFits(f, uploads[u]) /\ uploads[u].hash # NoFile
  BY <1>1, <1>2, AtService
<1>4. Becomes(u, [uploads[u] EXCEPT !.s = "exists"])
  <2>1. Stored(f)
    BY <1>1, <1>3 DEF Stored, UploadFits
  <2> QED
    BY <1>2, <2>1 DEF ServerChecksExists
<1>5. PICK r : r = [uploads[u] EXCEPT !.s = "exists"]
  OBVIOUS
<1>6. /\ r \in Upload /\ r.file = f /\ r.c = uploads[u].c /\ r.sent = uploads[u].sent
      /\ r.hash = uploads[u].hash /\ r.lmt = uploads[u].lmt /\ r.s = "exists"
      /\ r.seen = uploads[u].seen /\ r.linked = uploads[u].linked
      /\ r.answer = uploads[u].answer
  BY <1>2, <1>3, <1>5 DEF Upload
<1>7. UploadFits(f, r)
  BY <1>1, <1>3, <1>6 DEF UploadFits
<1> QED
  BY <1>1, <1>2, <1>4, <1>5, <1>6, <1>7, ServiceReads DEF Rewriting

LEMMA ServerRefusesKeeps ==
    ASSUME IInv, SInv, NEW u \in Slot, ServerRefuses(u)
    PROVE  SInv'
<1>1. uploads[u] # NoUpload /\ uploads[u].s = "refused"
      /\ UNCHANGED <<userVars, procVars, syncVars, rows, serverVars, faults>>
  BY DEF ServerRefuses, Serving
<1>2. PICK f \in File : f = uploads[u].file
  BY <1>1, AtUpload
<1>3. uploads[u] \in Upload /\ UploadFits(f, uploads[u])
  BY <1>1, <1>2, AtService
<1>4. PICK r : r = [uploads[u] EXCEPT !.s = "answered", !.answer = 2]
  OBVIOUS
<1>5. Becomes(u, r)
  BY <1>4 DEF ServerRefuses, Answers
<1>6. /\ r \in Upload /\ r.file = f /\ r.c = uploads[u].c /\ r.sent = uploads[u].sent
      /\ r.hash = uploads[u].hash /\ r.lmt = uploads[u].lmt /\ r.s = "answered"
      /\ r.seen = uploads[u].seen /\ r.linked = uploads[u].linked /\ r.answer = 2
  <2>1. 2 \in 0 .. 2
    OBVIOUS
  <2>2. r \in Upload
    BY <1>3, <1>4, <2>1, AnsweredUpload
  <2> QED
    BY <1>2, <1>3, <1>4, <2>2 DEF Upload
<1>7. UploadFits(f, r) \/ Freed(r)
  BY <1>1, <1>3, <1>6 DEF UploadFits, Freed
<1> QED
  BY <1>1, <1>2, <1>5, <1>6, <1>7, ServiceReads DEF Rewriting

LEMMA ServerOpensKeeps ==
    ASSUME IInv, SInv, NEW u \in Slot, ServerOpens(u)
    PROVE  SInv'
<1>1. uploads[u] # NoUpload /\ uploads[u].s = "none" /\ uploads[u].c # "queued"
      /\ UNCHANGED <<userVars, procVars, syncVars, rows, userDir, srow, removals, faults>>
  BY DEF ServerOpens, Serving
<1>2. PICK f \in File : f = uploads[u].file
  BY <1>1, AtUpload
<1>3. /\ uploads[u] \in Upload /\ u \in UploadsOf(f) /\ UploadFits(f, uploads[u])
      /\ Present(f) /\ Current(f) /\ disk[f].data # 0
      /\ uploads[u].hash = disk[f].data /\ uploads[u].lmt = disk[f].lmt
      /\ Begun(uploads[u])
      /\ \A v \in UploadsOf(f) \ {u} : ~Begun(uploads[v])
      /\ Single /\ Listed(f) => sfile[f] = disk[f].data \/ Rewriting(uploads[u])
  BY <1>1, <1>2, AtService
<1>4. PICK s \in {"deaf", "refused", "opened"}, b \in {TRUE, FALSE} :
         /\ Becomes(u, [uploads[u] EXCEPT !.s = s, !.linked = b])
         /\ sfile' = IF b THEN [sfile EXCEPT ![f] = 0] ELSE sfile
         /\ b => s = "opened"
         /\ s = "refused" <=> (s # "deaf" /\ f \in TooLong)
  <2> DEFINE folders == f \notin TooDeep /\ \A g \in Above[f] : ~Stored(g)
             opens == folders /\ f \notin TooLong /\ ~\E g \in Below(f) : Stored(g)
             step == IF ~folders THEN "deaf" ELSE IF f \in TooLong THEN "refused" ELSE "opened"
  <2>1. /\ Becomes(u, [uploads[u] EXCEPT !.s = step, !.linked = opens])
        /\ sfile' = IF opens THEN [sfile EXCEPT ![f] = 0] ELSE sfile
    BY <1>2, Zenon DEF ServerOpens
  <2>2. /\ step \in {"deaf", "refused", "opened"} /\ opens \in {TRUE, FALSE}
        /\ opens => step = "opened"
        /\ step = "refused" <=> (step # "deaf" /\ f \in TooLong)
    OBVIOUS
  <2> HIDE DEF opens, step
  <2> QED
    BY <2>1, <2>2, Zenon
<1>5. PICK r : r = [uploads[u] EXCEPT !.s = s, !.linked = b]
  OBVIOUS
<1>6. /\ r \in Upload /\ r.file = f /\ r.c = uploads[u].c /\ r.sent = uploads[u].sent
      /\ r.hash = uploads[u].hash /\ r.lmt = uploads[u].lmt /\ r.s = s
      /\ r.seen = uploads[u].seen /\ r.linked = b /\ r.answer = uploads[u].answer
  BY <1>2, <1>3, <1>5 DEF Upload
<1>7. /\ sfile'[f] = IF b THEN 0 ELSE sfile[f]
      /\ \A g \in File \ {f} : sfile'[g] = sfile[g]
      /\ 0 # NoFile
  <2>1. 0 \in Data
    BY BoundsAssumption DEF Data
  <2> QED
    BY <1>4, <2>1, NothingAssumption DEF IInv, StoreInv
<1> USE DEF userVars, procVars, syncVars
<1>8. SameFaults /\ RowSettled(f) /\ StatusOf(f)' = StatusOf(f) /\ Becomes(u, r)
      /\ Present(f)' = Present(f) /\ Current(f)' = Current(f) /\ (Listed(f) => Listed(f)')
  BY <1>1, <1>4, <1>5, <1>7 DEF SameFaults, RowSettled, StatusOf, Present, Current,
     AlreadyHashed, Listed
<1>9. /\ ~Freed(r) => u \in UploadsOf(f)' /\ uploads'[u] = r
  BY <1>1, <1>2, <1>6, <1>8, OneBecomes
<1>10. Freed(r) \/ UploadFits(f, r)'
  BY <1>1, <1>3, <1>4, <1>6, <1>7, <1>8 DEF UploadFits, Freed
<1>11. Single => ListedInv(f)'
  <2> SUFFICES ASSUME Single PROVE ListedInv(f)'
    OBVIOUS
  <2>1. Listed(f)' => sfile'[f] = disk[f].data \/ \E v \in UploadsOf(f)' : Rewriting(uploads'[v])
    <3>1. CASE b
      <4>1. srow[f] = disk[f].lmt => r.sent # 0
        BY <1>3, <1>6 DEF UploadFits
      <4>2. Listed(f)' => srow[f] = disk[f].lmt
        BY <1>1 DEF Listed
      <4>3. ~Freed(r)
        BY <3>1, <1>4, <1>6 DEF Freed
      <4> QED
        BY <3>1, <1>4, <1>6, <1>9, <4>1, <4>2, <4>3 DEF Rewriting
    <3>2. CASE ~b
      BY <3>2, <1>1, <1>3, <1>7 DEF Listed, Rewriting
    <3> QED
      BY <3>1, <3>2
  <2> QED
    BY <1>1, <1>3, <1>8, <2>1 DEF ListedInv, SInv, FileInv, Rewriting
<1>12. Single => FirstInv(f)'
  BY <1>1, <1>2, <1>6, <1>8, FirstKept
<1> QED
  BY <1>1, <1>2, <1>3, <1>6, <1>7, <1>8, <1>10, <1>11, <1>12, OneUpload

LEMMA ServerClosesKeeps ==
    ASSUME IInv, SInv, NEW u \in Slot, ServerCloses(u)
    PROVE  SInv'
<1>1. uploads[u] # NoUpload /\ uploads[u].s = "opened" /\ uploads[u].sent # NoTime
      /\ UNCHANGED <<userVars, procVars, syncVars, rows, userDir, srow, removals, faults>>
  BY DEF ServerCloses, Serving
<1>2. PICK f \in File : f = uploads[u].file
  BY <1>1, AtUpload
<1>3. /\ uploads[u] \in Upload /\ u \in UploadsOf(f) /\ UploadFits(f, uploads[u])
      /\ Present(f) /\ Current(f) /\ disk[f].data # 0
      /\ uploads[u].hash = disk[f].data /\ uploads[u].lmt = disk[f].lmt
      /\ Begun(uploads[u])
      /\ Single /\ Listed(f) => sfile[f] = disk[f].data \/ Rewriting(uploads[u])
  BY <1>1, <1>2, AtService
<1>4. PICK r : r = [uploads[u] EXCEPT !.s = "closed", !.linked = FALSE]
  OBVIOUS
<1>5. /\ r \in Upload /\ r.file = f /\ r.c = uploads[u].c /\ r.sent = uploads[u].sent
      /\ r.hash = uploads[u].hash /\ r.lmt = uploads[u].lmt /\ r.s = "closed"
      /\ r.seen = uploads[u].seen /\ r.linked = FALSE /\ r.answer = uploads[u].answer
  BY <1>2, <1>3, <1>4 DEF Upload
<1>6. uploads[u].linked => sfile[f] = 0 /\ sfile'[f] = uploads[u].sent
  <2>1. uploads[u].linked => sfile[f] = 0
    BY <1>1, <1>3 DEF UploadFits
  <2>2. ASSUME uploads[u].linked PROVE sfile'[f] = uploads[u].sent
    <3>1. Merged(sfile[f], uploads[u].sent) = {uploads[u].sent}
      BY <2>1, <2>2 DEF Merged
    <3>2. sfile' = [sfile EXCEPT ![f] = uploads[u].sent]
      BY <1>2, <2>2, <3>1 DEF ServerCloses
    <3> QED
      BY <3>2 DEF IInv, StoreInv
  <2> QED
    BY <2>1, <2>2
<1>7. ~uploads[u].linked => sfile'[f] = sfile[f]
  BY <1>2 DEF ServerCloses, IInv, StoreInv
<1>8. \A g \in File \ {f} : sfile'[g] = sfile[g]
  BY <1>2 DEF ServerCloses, IInv, StoreInv
<1>9. uploads[u].sent \in {0, disk[f].data} /\ 0 # NoFile /\ disk[f].data # NoFile
  <2>1. 0 \in Data /\ uploads[u].hash \in Data
    BY <1>3, BoundsAssumption DEF Data, Upload
  <2> QED
    BY <1>1, <1>3, <2>1, NothingAssumption DEF UploadFits
<1> USE DEF userVars, procVars, syncVars
<1>10. SameFaults /\ RowSettled(f) /\ StatusOf(f)' = StatusOf(f) /\ Becomes(u, r)
       /\ Present(f)' = Present(f) /\ Current(f)' = Current(f) /\ Listed(f)' = Listed(f)
  BY <1>1, <1>2, <1>4, <1>6, <1>7, <1>9 DEF SameFaults, RowSettled, StatusOf, Present, Current,
     AlreadyHashed, Listed, ServerCloses
<1>11. UploadFits(f, r)'
  BY <1>1, <1>3, <1>5, <1>6, <1>7, <1>10 DEF UploadFits
<1>12. Single => ListedInv(f)'
  <2> SUFFICES ASSUME Single PROVE ListedInv(f)'
    OBVIOUS
  <2>1. Listed(f) => sfile'[f] = disk[f].data
    <3>1. Listed(f) => uploads[u].sent # 0
      BY <1>3 DEF UploadFits, Listed
    <3> QED
      BY <1>3, <1>6, <1>7, <1>9, <3>1 DEF Rewriting
  <2> QED
    BY <1>1, <1>3, <1>10, <2>1 DEF ListedInv, SInv, FileInv
<1>13. Single => FirstInv(f)'
  BY <1>1, <1>2, <1>5, <1>10, FirstKept
<1> QED
  BY <1>1, <1>2, <1>3, <1>5, <1>8, <1>10, <1>11, <1>12, <1>13, OneUpload

LEMMA ServerWriteFailsKeeps ==
    ASSUME IInv, SInv, NEW u \in Slot, ServerWriteFails(u)
    PROVE  SInv'
<1>1. /\ uploads[u] # NoUpload /\ uploads[u].s = "opened" /\ uploads[u].linked
      /\ UNCHANGED <<userVars, procVars, syncVars, rows, userDir, srow, removals>>
      /\ SameFaults /\ faults' > 0 /\ (Single => faults = 0)
      /\ uploads[u].sent # NoTime
  BY OneFault DEF ServerWriteFails, Serving
<1>2. PICK f \in File : f = uploads[u].file
  BY <1>1, AtUpload
<1>3. /\ uploads[u] \in Upload /\ u \in UploadsOf(f) /\ UploadFits(f, uploads[u])
      /\ Present(f) /\ Current(f) /\ Begun(uploads[u])
  BY <1>1, <1>2, AtService
<1>4. PICK r : r = [uploads[u] EXCEPT !.s = "closed", !.linked = FALSE]
  OBVIOUS
<1>5. /\ r \in Upload /\ r.file = f /\ r.c = uploads[u].c /\ r.sent = uploads[u].sent
      /\ r.hash = uploads[u].hash /\ r.lmt = uploads[u].lmt /\ r.s = "closed"
      /\ r.seen = uploads[u].seen /\ r.linked = FALSE /\ r.answer = uploads[u].answer
  BY <1>2, <1>3, <1>4 DEF Upload
<1>6. \A g \in File : sfile'[g] = sfile[g]
  <2>1. sfile[f] = 0
    BY <1>1, <1>3 DEF UploadFits
  <2>2. Merged(sfile[f], 0) = {0}
    BY <2>1 DEF Merged
  <2>3. sfile' = [sfile EXCEPT ![f] = 0]
    BY <1>2, <2>2 DEF ServerWriteFails
  <2> QED
    BY <2>1, <2>3 DEF IInv, StoreInv
<1> USE DEF userVars, procVars, syncVars
<1>7. RowSettled(f) /\ StatusOf(f)' = StatusOf(f) /\ Becomes(u, r)
      /\ Current(f)' = Current(f)
  BY <1>1, <1>4 DEF RowSettled, StatusOf, Present, Current, AlreadyHashed, ServerWriteFails
<1>8. UploadFits(f, r)'
  BY <1>1, <1>3, <1>5, <1>6, <1>7 DEF UploadFits
<1>9. Single => ListedInv(f)'
  BY <1>1, <1>2, <1>5, <1>6, <1>7, ListedKept
<1>10. Single => FirstInv(f)'
  BY <1>1 DEF FirstInv
<1> QED
  BY <1>1, <1>2, <1>3, <1>5, <1>6, <1>7, <1>8, <1>9, <1>10, OneUpload

LEMMA ServerInsertsKeeps ==
    ASSUME IInv, SInv, NEW u \in Slot, ServerInserts(u)
    PROVE  SInv'
<1>1. uploads[u] # NoUpload /\ uploads[u].s = "exists"
      /\ UNCHANGED <<userVars, procVars, syncVars, rows, userDir, sfile, removals, faults>>
  BY DEF ServerInserts, Serving
<1>2. PICK f \in File : f = uploads[u].file
  BY <1>1, AtUpload
<1>3. /\ uploads[u] \in Upload /\ u \in UploadsOf(f) /\ UploadFits(f, uploads[u])
      /\ Present(f) /\ Current(f)
      /\ uploads[u].hash = disk[f].data /\ uploads[u].lmt = disk[f].lmt
      /\ uploads[u].hash # NoFile /\ Begun(uploads[u])
  BY <1>1, <1>2, AtService
<1>4. PICK r : r = [uploads[u] EXCEPT !.s = "answered", !.answer = 1]
  OBVIOUS
<1>5. Becomes(u, r)
  BY <1>4 DEF ServerInserts, Answers
<1>6. /\ r \in Upload /\ r.file = f /\ r.c = uploads[u].c /\ r.sent = uploads[u].sent
      /\ r.hash = uploads[u].hash /\ r.lmt = uploads[u].lmt /\ r.s = "answered"
      /\ r.seen = uploads[u].seen /\ r.answer = 1
  <2>1. 1 \in 0 .. 2
    OBVIOUS
  <2>2. r \in Upload
    BY <1>3, <1>4, <2>1, AnsweredUpload
  <2> QED
    BY <1>2, <1>3, <1>4, <2>2 DEF Upload
<1>7. /\ srow'[f] = disk[f].lmt /\ sfile[f] = disk[f].data /\ f \notin TooLong
      /\ \A g \in File \ {f} : srow'[g] = srow[g]
  BY <1>1, <1>2, <1>3 DEF ServerInserts, IInv, StoreInv, UploadFits
<1> USE DEF userVars, procVars, syncVars
<1>8. SameFaults /\ RowSettled(f) /\ StatusOf(f)' = StatusOf(f)
      /\ Present(f)' = Present(f) /\ Current(f)' = Current(f)
  BY <1>1 DEF SameFaults, RowSettled, StatusOf, Present, Current, AlreadyHashed
<1>9. Listed(f)'
  BY <1>1, <1>3, <1>7 DEF Listed
<1>10. Freed(r) \/ UploadFits(f, r)'
  BY <1>1, <1>3, <1>6, <1>7, <1>8 DEF UploadFits, Freed
<1>11. Single => ListedInv(f)'
  BY <1>1, <1>3, <1>7, <1>8, <1>9 DEF ListedInv
<1>12. Single => FirstInv(f)'
  <2>1. /\ UploadsOf(f)' = IF Freed(r) THEN UploadsOf(f) \ {u} ELSE UploadsOf(f)
        /\ ~Freed(r) => uploads'[u] = r
    BY <1>1, <1>2, <1>5, <1>6, OneBecomes
  <2> QED
    BY <1>1, <1>3, <1>6, <1>7, <1>8, <2>1 DEF SInv, FileInv, FirstInv
<1> QED
  BY <1>1, <1>2, <1>3, <1>5, <1>6, <1>7, <1>8, <1>10, <1>11, <1>12, OneUpload

(* Removing a file ends no upload of it.                                    *)
LEMMA UnlinkedOf ==
    ASSUME IInv, NEW f \in File, NEW v \in UploadsOf(f)
    PROVE  LET w == Unlinked(f)[v]
           IN  /\ w \in Upload /\ w.file = f /\ w.c = uploads[v].c /\ w.s = uploads[v].s
               /\ w.hash = uploads[v].hash /\ w.lmt = uploads[v].lmt /\ w.seen = uploads[v].seen
               /\ w.sent = uploads[v].sent /\ w.answer = uploads[v].answer
<1>1. uploads[v] \in Upload /\ uploads[v].file = f /\ v \in Slot
  BY Existing DEF IInv, UploadsOf
<1>2. Unlinked(f)[v] = [uploads[v] EXCEPT !.linked = FALSE]
  BY <1>1 DEF Unlinked
<1> QED
  BY <1>1, <1>2 DEF Upload

LEMMA ServerRemovesCorruptKeeps ==
    ASSUME IInv, SInv, NEW u \in Slot, ServerRemovesCorrupt(u)
    PROVE  SInv'
<1>1. uploads[u] # NoUpload /\ uploads[u].s = "differs"
      /\ UNCHANGED <<userVars, procVars, syncVars, rows, userDir, srow, removals, faults>>
  BY DEF ServerRemovesCorrupt, Serving
<1>2. PICK f \in File : f = uploads[u].file
  BY <1>1, AtUpload
<1>3. /\ uploads[u] \in Upload /\ u \in UploadsOf(f) /\ UploadFits(f, uploads[u])
      /\ Present(f) /\ Current(f)
      /\ uploads[u].hash = disk[f].data /\ uploads[u].lmt = disk[f].lmt
      /\ \A v \in UploadsOf(f) \ {u} : ~Begun(uploads[v])
      /\ Single => ~Listed(f)
  <2>1. sfile[f] # uploads[u].hash /\ ~Rewriting(uploads[u])
    BY <1>1, <1>2, AtService DEF UploadFits, Rewriting
  <2> QED
    BY <1>1, <1>2, <2>1, AtService
<1>4. PICK w : w = Unlinked(f)
  OBVIOUS
<1>5. w \in [Slot -> Upload \cup {NoUpload}]
  BY <1>4, UnlinkedUploads DEF IInv
<1>6. /\ w[u] \in Upload /\ w[u].file = f /\ w[u].c = uploads[u].c
      /\ w[u].hash = uploads[u].hash /\ w[u].lmt = uploads[u].lmt
      /\ w[u].seen = uploads[u].seen /\ w[u].sent = uploads[u].sent
  BY <1>3, <1>4, UnlinkedOf
<1>7. PICK r : r = [w[u] EXCEPT !.s = "answered", !.answer = 0]
  OBVIOUS
<1>8. /\ r \in Upload /\ r.file = f /\ r.c = uploads[u].c /\ r.sent = uploads[u].sent
      /\ r.hash = uploads[u].hash /\ r.lmt = uploads[u].lmt /\ r.s = "answered"
      /\ r.seen = uploads[u].seen /\ r.answer = 0 /\ r # NoUpload
  <2>1. 0 \in 0 .. 2
    OBVIOUS
  <2>2. r \in Upload
    BY <1>6, <1>7, <2>1, AnsweredUpload
  <2> QED
    BY <1>6, <1>7, <2>2, NothingAssumption DEF Upload
<1>9. uploads' = [w EXCEPT ![u] = IF w[u].c = "done" THEN NoUpload ELSE r]
  BY <1>2, <1>4, <1>5, <1>7 DEF ServerRemovesCorrupt
<1>10. /\ uploads'[u] = IF uploads[u].c = "done" THEN NoUpload ELSE r
       /\ \A v \in Slot \ {u} : uploads'[v] = w[v]
  BY <1>5, <1>6, <1>9
<1>11. /\ sfile'[f] = NoFile /\ \A g \in File \ {f} : sfile'[g] = sfile[g]
  BY <1>2 DEF ServerRemovesCorrupt, IInv, StoreInv
<1>12. \A v \in Slot \ UploadsOf(f) : w[v] = uploads[v]
  BY <1>4 DEF Unlinked
<1>13. \A v \in UploadsOf(f) : w[v] \in Upload /\ w[v].file = f /\ w[v] # NoUpload
  BY <1>4, UnlinkedOf, NothingAssumption
<1>14. \A g \in File \ {f} : SameUploads(g)
  BY <1>8, <1>10, <1>12, <1>13, <1>3 DEF SameUploads, UploadsOf
<1>15. UploadsOf(f)' \subseteq UploadsOf(f)
  BY <1>8, <1>10, <1>12, <1>13, <1>3 DEF UploadsOf
<1> USE DEF userVars, procVars, syncVars
<1>16. SameFaults /\ StatusOf(f)' = StatusOf(f) /\ RunsInv'
       /\ Present(f)' = Present(f) /\ Current(f)' = Current(f) /\ ~Listed(f)'
  BY <1>1, <1>11 DEF SameFaults, StatusOf, Present, Current, AlreadyHashed, Listed, SInv,
     RunsInv
<1>17. ~(pc = "request" /\ ctree[f] = NoTime)
  BY <1>3 DEF SInv, FileInv, GoneInv
<1>18. VersionInv(f)' /\ RowInv(f)' /\ StatInv(f)' /\ UnsentInv(f)' /\ GoneInv(f)'
  <2>1. VersionInv(f)' /\ RowInv(f)'
    BY <1>1, <1>16 DEF SInv, FileInv, VersionInv, RowInv, AwayFits, AlreadyHashed
  <2>2. StatInv(f)' /\ UnsentInv(f)' /\ GoneInv(f)'
    BY <1>1, <1>16, <1>17 DEF SInv, FileInv, StatInv, UnsentInv, Unsent, AlreadyHashed, GoneInv,
       NoRemoval
  <2> QED
    BY <2>1, <2>2
<1>19. UploadsFit(f)'
  <2>1. ASSUME NEW v \in UploadsOf(f)', v # u
        PROVE  UploadFits(f, uploads[v])' /\ ~Begun(uploads'[v])
    <3>1. /\ v \in UploadsOf(f) /\ v \in Slot /\ uploads'[v] = w[v]
          /\ UploadFits(f, uploads[v]) /\ ~Begun(uploads[v])
      BY <1>3, <1>10, <1>15, <2>1 DEF SInv, FileInv, UploadsFit, UploadsOf
    <3>2. /\ w[v].c = uploads[v].c /\ w[v].s = uploads[v].s
          /\ w[v].hash = uploads[v].hash /\ w[v].lmt = uploads[v].lmt
          /\ w[v].seen = uploads[v].seen /\ w[v].sent = uploads[v].sent
      BY <1>4, <3>1, UnlinkedOf
    <3>3. uploads[v].s \in {"none", "gone"}
      BY <3>1 DEF UploadFits, Begun
    <3> QED
      BY <1>1, <1>16, <3>1, <3>2, <3>3 DEF UploadFits, Begun
  <2>2. ASSUME u \in UploadsOf(f)' PROVE UploadFits(f, uploads[u])'
    <3>1. uploads'[u] = r /\ uploads[u].c # "done"
      BY <1>10, <2>2 DEF UploadsOf
    <3> QED
      BY <1>1, <1>3, <1>8, <1>16, <3>1 DEF UploadFits
  <2> QED
    BY <1>15, <2>1, <2>2 DEF UploadsFit, Begun
<1>20. Single => ListedInv(f)'
  BY <1>1, <1>3, <1>16 DEF ListedInv, SInv, FileInv
<1>21. Single => FirstInv(f)'
  <2>1. Single /\ faults = 0 => srow[f] # disk[f].lmt
    BY <1>1, <1>3 DEF SInv, FileInv, FirstInv
  <2> QED
    BY <1>1, <1>3, <1>15, <1>16, <2>1 DEF SInv, FileInv, FirstInv
<1>22. FileInv(f)'
  BY <1>18, <1>19, <1>20, <1>21 DEF FileInv
<1>23. \A g \in File \ {f} : SameView(g) /\ SameRow(g) /\ SameUploads(g) /\ SameStore(g)
  BY <1>1, <1>11, <1>14 DEF SameView, SameRow, SameStore
<1> QED
  BY <1>16, <1>22, <1>23, OneFile

-----------------------------------------------------------------------------
(* Service: the removals, of files that are gone.                           *)
LEMMA RemovalKeeps ==
    ASSUME IInv, SInv, NEW f \in File, Removal(f)
    PROVE  SInv'
<1>1. UNCHANGED <<userVars, procVars, syncVars, rows, userDir, faults>>
  BY DEF Removal, RemovalUnlinks, RemovalDeletesRow
<1>2. removals[f] \in [sent : Nat, unlinked : Nat]
      /\ removals[f].sent \in Nat /\ removals[f].unlinked \in Nat
  BY DEF IInv, RemovalsInv
<1>3. ~Present(f)
  <2>1. removals[f].sent > 0 \/ removals[f].unlinked > 0
    BY DEF Removal, RemovalUnlinks, RemovalDeletesRow
  <2>2. NoRemoval(f) => removals[f].sent = 0 /\ removals[f].unlinked = 0
    BY DEF NoRemoval
  <2> QED
    BY <2>1, <2>2 DEF SInv, FileInv, GoneInv
<1>4. UploadsOf(f) = {}
  BY <1>3 DEF SInv, FileInv, UploadsFit, UploadFits, Current
<1>5. uploads' = uploads
  <2>1. Unlinked(f) = [u \in Slot |-> uploads[u]]
    BY <1>4 DEF Unlinked
  <2> QED
    BY <2>1 DEF Removal, RemovalUnlinks, RemovalDeletesRow, IInv, UploadsInv
<1> USE DEF userVars, procVars, syncVars
<1>6. \A g \in File \ {f} : SameView(g) /\ SameRow(g) /\ SameUploads(g) /\ SameStore(g)
  <2>1. \A g \in File \ {f} :
           sfile'[g] = sfile[g] /\ srow'[g] = srow[g] /\ removals'[g] = removals[g]
    BY DEF Removal, RemovalUnlinks, RemovalDeletesRow, IInv, StoreInv, RemovalsInv
  <2> QED
    BY <1>1, <1>5, <2>1 DEF SameView, SameRow, SameUploads, SameStore, UploadsOf
<1>7. /\ SameFaults /\ RunsInv' /\ Present(f)' = Present(f) /\ StatusOf(f)' = StatusOf(f)
      /\ UploadsOf(f)' = UploadsOf(f) /\ ~Current(f) /\ ~Current(f)'
  BY <1>1, <1>3, <1>5 DEF SameFaults, SInv, RunsInv, Present, StatusOf, UploadsOf, Current
<1>8. /\ srow'[f] \in {srow[f], NoTime}
      /\ sfile'[f] \in {sfile[f], NoFile}
      /\ \/ srow'[f] = NoTime
         \/ sfile'[f] = NoFile /\ removals'[f].unlinked > 0
  <2>1. CASE RemovalUnlinks(f)
    <3>1. removals'[f].unlinked = removals[f].unlinked + 1
      BY <1>2, <2>1 DEF RemovalUnlinks, IInv, RemovalsInv
    <3> QED
      BY <1>2, <2>1, <3>1 DEF RemovalUnlinks, IInv, StoreInv
  <2>2. CASE RemovalDeletesRow(f)
    BY <2>2 DEF RemovalDeletesRow, IInv, StoreInv
  <2> QED
    BY <2>1, <2>2 DEF Removal
<1>9. VersionInv(f)' /\ RowInv(f)'
  BY <1>1, <1>7, <1>8 DEF SInv, FileInv, VersionInv, RowInv, AwayFits, AlreadyHashed
<1>10. StatInv(f)' /\ UnsentInv(f)' /\ GoneInv(f)'
  BY <1>1, <1>3, <1>7 DEF SInv, FileInv, StatInv, UnsentInv, Unsent, AlreadyHashed, GoneInv
<1>11. UploadsFit(f)' /\ FirstInv(f)'
  BY <1>3, <1>4, <1>7, <1>8 DEF UploadsFit, FirstInv
<1>12. Single => ListedInv(f)'
  <2>1. away[f] # NoFile => away[f].lmt # NoTime
    BY NothingAssumption DEF IInv, UserInv, Version
  <2> QED
    BY <1>1, <1>3, <1>7, <1>8, <2>1 DEF SInv, FileInv, ListedInv
<1>13. FileInv(f)'
  BY <1>9, <1>10, <1>11, <1>12 DEF FileInv
<1> QED
  BY <1>6, <1>7, <1>13, OneFile

-----------------------------------------------------------------------------
(* Stops and starts.                                                        *)

(* A fault ends connections of either side: what is left of f's uploads     *)
(* fits, and the rest of what is known of f stays.                          *)
LEMMA Stop ==
    ASSUME IInv, SInv, NEW f \in File, faults' > 0, Single => faults = 0,
           UNCHANGED <<userVars, rows, userDir, sfile, srow>>,
           UploadsOf(f)' \subseteq UploadsOf(f),
           \A u \in UploadsOf(f)' : UploadFits(f, uploads[u])',
           \A u \in UploadsOf(f)' : Begun(uploads'[u]) => Begun(uploads[u]),
           pc' = "align" => pc = "align" /\ stree'[f] = stree[f]
    PROVE  /\ VersionInv(f)' /\ RowInv(f)' /\ UploadsFit(f)'
           /\ Single => ListedInv(f)' /\ FirstInv(f)'
<1> USE DEF userVars
<1>1. Present(f)' = Present(f) /\ StatusOf(f)' = StatusOf(f) /\ Current(f)' = Current(f)
      /\ Listed(f)' = Listed(f)
  BY DEF Present, StatusOf, Current, AlreadyHashed, Listed
<1>2. VersionInv(f)' /\ RowInv(f)'
  BY <1>1 DEF SInv, FileInv, VersionInv, RowInv, AwayFits, AlreadyHashed
<1>3. UploadsFit(f)'
  <2>1. \A u, v \in UploadsOf(f)' : Begun(uploads'[u]) /\ Begun(uploads'[v]) => u = v
    BY DEF SInv, FileInv, UploadsFit
  <2> QED
    BY <2>1 DEF UploadsFit, Begun
<1>4. Single => ListedInv(f)'
  <2> SUFFICES ASSUME Single PROVE ListedInv(f)'
    OBVIOUS
  <2>1. Present(f) /\ Listed(f) => sfile[f] = disk[f].data
    BY DEF SInv, FileInv, FirstInv, Listed
  <2> QED
    BY <1>1, <2>1 DEF SInv, FileInv, ListedInv
<1>5. FirstInv(f)'
  BY DEF FirstInv
<1> QED
  BY <1>2, <1>3, <1>4, <1>5

LEMMA ClientStopsKeeps ==
    ASSUME IInv, SInv, Orderly, ClientStops
    PROVE  SInv'
<1>1. /\ UNCHANGED <<userVars, rows, userDir, sfile, srow, removals>>
      /\ faults' > 0 /\ (Single => faults = 0)
      /\ up' = FALSE /\ pc' = "idle" /\ todo' = {}
  BY OneFault DEF ClientStops, serverVars
<1>2. PICK reset \in SUBSET Slot :
         uploads' = [u \in Slot |->
              IF uploads[u] = NoUpload \/ uploads[u].c = "queued" THEN NoUpload
              ELSE LET r == ServiceSees(uploads[u], u \in reset)
                   IN  IF r.s \in {"answered", "deaf", "gone"} THEN NoUpload
                       ELSE [r EXCEPT !.c = "done"]]
  BY DEF ClientStops
<1>3. ASSUME NEW u \in Slot, uploads[u] # NoUpload, uploads[u].c # "queued"
      PROVE  \E w \in {ServiceSees(uploads[u], TRUE), ServiceSees(uploads[u], FALSE)} :
                uploads'[u] = IF w.s \in {"answered", "deaf", "gone"} THEN NoUpload
                              ELSE [w EXCEPT !.c = "done"]
  <2>1. CASE u \in reset
    <3>1. (u \in reset) = TRUE
      BY <2>1
    <3> QED
      BY <1>2, <1>3, <3>1, Zenon
  <2>2. CASE u \notin reset
    <3>1. (u \in reset) = FALSE
      BY <2>2
    <3> QED
      BY <1>2, <1>3, <3>1, Zenon
  <2> QED
    BY <2>1, <2>2
<1>4. ASSUME NEW f \in File, NEW u \in UploadsOf(f)'
      PROVE  /\ u \in UploadsOf(f) /\ UploadFits(f, uploads[u])'
             /\ Begun(uploads'[u]) => Begun(uploads[u])
  <2>1. u \in Slot /\ uploads'[u] # NoUpload /\ uploads'[u].file = f
    BY <1>4 DEF UploadsOf
  <2>2. uploads[u] # NoUpload /\ uploads[u].c # "queued"
    BY <1>2, <2>1
  <2>3. PICK w \in {ServiceSees(uploads[u], TRUE), ServiceSees(uploads[u], FALSE)} :
           uploads'[u] = IF w.s \in {"answered", "deaf", "gone"} THEN NoUpload
                         ELSE [w EXCEPT !.c = "done"]
    BY <1>3, <2>1, <2>2
  <2>4. PICK r : r = [w EXCEPT !.c = "done"]
    OBVIOUS
  <2>5. uploads'[u] = r /\ w.s \notin {"answered", "deaf", "gone"}
    BY <2>1, <2>3, <2>4
  <2>6. PICK g \in File : g = uploads[u].file
    BY <2>1, <2>2, AtUpload
  <2>7. uploads[u] \in Upload /\ UploadFits(g, uploads[u])
    BY <2>1, <2>2, <2>6, AtUpload
  <2>8. disk' = disk /\ sfile' = sfile /\ srow' = srow /\ userDir' = userDir
    BY <1>1 DEF userVars
  <2>9. /\ r.file = g
        /\ ~Freed(r) /\ Begun(uploads[u])
        /\ Current(g)' => UploadFits(g, r)'
    <3>1. TRUE \in BOOLEAN /\ FALSE \in BOOLEAN
      OBVIOUS
    <3>2. w \in Upload
      BY <2>3, <2>7, <3>1, ServiceSeesUpload, Zenon
    <3>3. w.file = g
      BY <2>3, <2>6, <2>7 DEF ServiceSees, Upload
    <3>4. r.file = g /\ ~Freed(r)
      BY <2>4, <2>5, <3>2, <3>3 DEF Upload, Freed
    <3>5. ~Freed(r) => (Current(g)' => UploadFits(g, r)')
      BY <1>1, <2>1, <2>2, <2>3, <2>4, <2>6, <2>8, LostFits
    <3>6. Begun(uploads[u])
      BY <2>2, <2>3, <2>5, <2>7 DEF ServiceSees, Begun, Upload
    <3> QED
      BY <3>4, <3>5, <3>6
  <2>10. g = f /\ Current(g)'
    BY <1>1, <2>1, <2>5, <2>7, <2>9 DEF UploadFits, Current, Present, AlreadyHashed, userVars
  <2> QED
    BY <2>1, <2>2, <2>5, <2>6, <2>9, <2>10 DEF UploadsOf, UploadFits
<1>5. ASSUME NEW f \in File PROVE FileInv(f)'
  <2>1. VersionInv(f)' /\ RowInv(f)' /\ UploadsFit(f)'
        /\ (Single => ListedInv(f)' /\ FirstInv(f)')
    BY <1>1, <1>4, Stop
  <2>2. StatInv(f)' /\ UnsentInv(f)' /\ GoneInv(f)'
    BY <1>1 DEF SInv, FileInv, StatInv, UnsentInv, GoneInv, NoRemoval, Present, userVars
  <2> QED
    BY <2>1, <2>2 DEF FileInv
<1> QED
  BY <1>1, <1>5 DEF SInv, RunsInv

LEMMA ServerStopsKeeps ==
    ASSUME IInv, SInv, Orderly, ServerStops
    PROVE  SInv'
<1>1. /\ UNCHANGED <<userVars, procVars, syncVars, rows, userDir, sfile, srow>>
      /\ faults' > 0 /\ (Single => faults = 0)
  BY OneFault DEF ServerStops
<1>2. ASSUME NEW u \in Slot
      PROVE  \/ uploads'[u] = NoUpload
             \/ uploads[u].c = "queued" /\ uploads'[u] = uploads[u]
             \/ /\ uploads[u] # NoUpload /\ uploads[u].c \notin {"queued", "done"}
                /\ uploads'[u] = [uploads[u] EXCEPT !.s = "gone", !.linked = FALSE]
  BY DEF ServerStops
<1> USE DEF userVars, procVars, syncVars
<1>3. ASSUME NEW f \in File, NEW u \in UploadsOf(f)'
      PROVE  /\ u \in UploadsOf(f) /\ UploadFits(f, uploads[u])'
             /\ Begun(uploads'[u]) => Begun(uploads[u])
  <2>1. u \in Slot /\ uploads'[u] # NoUpload /\ uploads'[u].file = f
    BY <1>3 DEF UploadsOf
  <2>2. uploads[u] # NoUpload
    BY <2>1 DEF ServerStops
  <2>3. PICK g \in File : g = uploads[u].file
    BY <2>1, <2>2, AtUpload
  <2>4. uploads[u] \in Upload /\ u \in UploadsOf(g) /\ UploadFits(g, uploads[u])
    BY <2>1, <2>2, <2>3, AtUpload
  <2>5. Current(g)'
    BY <1>1, <2>4 DEF UploadFits, Current, Present, AlreadyHashed
  <2>6. CASE uploads[u].c = "queued" /\ uploads'[u] = uploads[u]
    BY <1>1, <2>1, <2>3, <2>4, <2>5, <2>6 DEF UploadFits
  <2>7. CASE uploads[u].c \notin {"queued", "done"}
             /\ uploads'[u] = [uploads[u] EXCEPT !.s = "gone", !.linked = FALSE]
    <3>1. PICK r : r = uploads'[u]
      OBVIOUS
    <3>2. /\ r.file = g /\ r.c = uploads[u].c /\ r.sent = uploads[u].sent
          /\ r.hash = uploads[u].hash /\ r.lmt = uploads[u].lmt /\ r.s = "gone"
          /\ r.seen = uploads[u].seen
      BY <2>3, <2>4, <2>7, <3>1 DEF Upload
    <3>3. UploadFits(g, uploads[u])'
      BY <1>1, <2>4, <2>5, <2>7, <3>1, <3>2 DEF UploadFits
    <3> QED
      BY <2>1, <2>4, <3>1, <3>2, <3>3 DEF Begun
  <2> QED
    BY <1>2, <2>1, <2>6, <2>7
<1>4. ASSUME NEW f \in File PROVE FileInv(f)'
  <2>1. VersionInv(f)' /\ RowInv(f)' /\ UploadsFit(f)'
        /\ (Single => ListedInv(f)' /\ FirstInv(f)')
    BY <1>1, <1>3, Stop
  <2>2. Present(f)' = Present(f) /\ Current(f)' = Current(f) /\ StatusOf(f)' = StatusOf(f)
    BY <1>1 DEF Present, Current, AlreadyHashed, StatusOf
  <2>3. StatInv(f)' /\ UnsentInv(f)'
    BY <1>1, <2>2 DEF SInv, FileInv, StatInv, UnsentInv, Unsent, AlreadyHashed
  <2>4. removals'[f] = [sent |-> 0, unlinked |-> 0]
    BY DEF ServerStops
  <2>5. UploadsOf(f) = {} => UploadsOf(f)' = {}
    BY <1>3
  <2>6. GoneInv(f)'
    BY <1>1, <2>2, <2>4, <2>5 DEF SInv, FileInv, GoneInv, NoRemoval
  <2> QED
    BY <2>1, <2>3, <2>6 DEF FileInv
<1> QED
  BY <1>1, <1>4 DEF SInv, RunsInv

LEMMA ClientStartsKeeps ==
    ASSUME IInv, SInv, ClientStarts
    PROVE  SInv'
<1>1. /\ UNCHANGED <<userVars, uploads, serverVars, faults, todo, ctree, stree, stat>>
      /\ ~up /\ up' /\ pc = "idle" /\ pc' = "stat" /\ faults # 0
  BY DEF ClientStarts, SInv, RunsInv
<1>2. ASSUME NEW f \in File PROVE FileInv(f)'
  <2>1. \/ rows'[f] = rows[f] /\ StatusOf(f)' = StatusOf(f)
        \/ /\ rows[f] # NoRow /\ rows'[f] # NoRow /\ StatusOf(f)' = "NEW"
           /\ rows'[f].hash = rows[f].hash /\ rows'[f].lmt = rows[f].lmt
    <3>1. CASE StatusOf(f) = "SENDING"
      <4>1. rows'[f] = [rows[f] EXCEPT !.status = "NEW"] /\ rows[f] # NoRow /\ "NEW" \in Status
        BY <3>1 DEF ClientStarts, RowsRecovered, StatusOf, Status
      <4> QED
        BY <4>1, StatusWritten
    <3>2. CASE StatusOf(f) # "SENDING"
      BY <3>2 DEF ClientStarts, RowsRecovered, StatusOf
    <3> QED
      BY <3>1, <3>2
  <2>2. Current(f)' = Current(f)
    BY <1>1, <2>1 DEF Current, Present, AlreadyHashed, userVars
  <2>3. /\ UploadsOf(f)' = UploadsOf(f) /\ UploadsFit(f)'
        /\ Present(f)' = Present(f) /\ Listed(f)' = Listed(f) /\ VersionInv(f)'
    BY <1>1, <2>2, TableKeepsUploads
  <2>4. RowInv(f)' /\ StatInv(f)' /\ UnsentInv(f)' /\ GoneInv(f)'
    <3>1. RowInv(f)'
      <4>1. AwayFits(f)'
        BY <1>1, <2>1, AwayKept DEF userVars
      <4> QED
        BY <1>1, <2>1, <2>2, <4>1 DEF SInv, FileInv, RowInv, Current, AlreadyHashed, userVars
    <3>2. StatInv(f)' /\ UnsentInv(f)' /\ GoneInv(f)'
      BY <1>1, <2>3 DEF SInv, RunsInv, FileInv, StatInv, UnsentInv, GoneInv, NoRemoval,
         serverVars
    <3> QED
      BY <3>1, <3>2
  <2>5. Single => ListedInv(f)' /\ FirstInv(f)'
    BY <1>1, <2>1, <2>2, <2>3 DEF SInv, FileInv, ListedInv, FirstInv, Rewriting, userVars,
       serverVars
  <2> QED
    BY <2>3, <2>4, <2>5 DEF FileInv
<1> QED
  BY <1>1, <1>2 DEF SInv, RunsInv, serverVars

-----------------------------------------------------------------------------
LEMMA InitSInv == Init => SInv
<1> SUFFICES ASSUME Init PROVE SInv
  OBVIOUS
<1>1. RunsInv
  BY DEF Init, RunsInv
<1>2. ASSUME NEW f \in File PROVE FileInv(f)
  <2>1. /\ ~Present(f) /\ ~Current(f) /\ StatusOf(f) = "none" /\ UploadsOf(f) = {}
        /\ srow[f] = NoTime /\ away[f] = NoFile /\ pc = "stat"
    BY <1>2 DEF Init, Present, Current, StatusOf, UploadsOf
  <2> QED
    BY <2>1 DEF Init, FileInv, VersionInv, RowInv, AwayFits, StatInv, UnsentInv, Unsent,
       GoneInv, UploadsFit, ListedInv, FirstInv
<1> QED
  BY <1>1, <1>2 DEF SInv

LEMMA NextSInv ==
    ASSUME IInv, TimesInv, SInv, Orderly, [Next]_vars
    PROVE  SInv'
<1>1. CASE User
  BY <1>1, EditKeeps, MoveOutKeeps, MoveBackKeeps DEF User
<1>2. CASE Syncro
  BY <1>2, ReadingKeeps, InitHashInsertKeeps, CleanOldRowsKeeps, RequestTreeKeeps,
     AlignStatusKeeps, SendRemovalKeeps, DispatchKeeps DEF Syncro
<1>3. ASSUME NEW u \in Slot, Sipper(u) \/ ConnectFails(u) \/ Break(u)
      PROVE  SInv'
  BY <1>3, ConnectKeeps, ReadAndSendKeeps, ClientGetsAnswerKeeps, NoAnswerKeeps, BreakKeeps
  DEF Sipper
<1>4. ASSUME NEW u \in Slot, ServiceStep(u) \/ ServerWriteFails(u) PROVE SInv'
  BY <1>4, ServerOpensKeeps, ServerClosesKeeps, ServerDigestsKeeps, ServerChecksExistsKeeps,
     ServerInsertsKeeps, ServerRemovesCorruptKeeps, ServerRefusesKeeps, ServerWriteFailsKeeps
  DEF ServiceStep
<1>5. ASSUME NEW f \in File, Removal(f) PROVE SInv'
  BY <1>5, RemovalKeeps
<1>6. CASE ClientStops \/ ClientStarts \/ ServerStops
  BY <1>6, ClientStopsKeeps, ClientStartsKeeps, ServerStopsKeeps
<1>7. CASE UNCHANGED vars
  <2>1. /\ RunsInv' /\ SameFaults
        /\ \A f \in File : SameView(f) /\ SameRow(f) /\ SameUploads(f) /\ SameStore(f)
    BY <1>7 DEF vars, userVars, procVars, syncVars, serverVars, SInv, RunsInv, SameFaults,
       SameView, SameRow, SameUploads, SameStore, UploadsOf
  <2> QED
    BY <2>1, Untouched DEF SInv
<1> QED
  BY <1>1, <1>2, <1>3, <1>4, <1>5, <1>6, <1>7 DEF Next

(* What a row marked SENT says, once nothing is under way.                  *)
LEMMA SInvStored ==
    ASSUME Single, SInv
    PROVE  SentIsStored
  BY DEF SInv, FileInv, ListedInv, Listed, Current, AlreadyHashed, StatusOf, SentIsStored

(* The row of a file that exists is not taken away, nor replaced by that of *)
(* another version.                                                         *)
LEMMA RowKept ==
    ASSUME IInv, SInv, [Next]_vars, NEW f \in File, Present(f), srow[f] = disk[f].lmt
    PROVE  srow'[f] = disk[f].lmt
<1>1. CASE srow' = srow
  BY <1>1
<1>2. CASE RequestTree
  <2>1. srow[f] # NoTime
    BY NothingAssumption DEF IInv, UserInv, Version, Present
  <2>2. userDir
    BY <2>1 DEF SInv, FileInv, VersionInv
  <2> QED
    BY <1>2, <2>2 DEF RequestTree, TableCreated
<1>3. ASSUME NEW u \in Slot, ServerInserts(u) PROVE srow'[f] = disk[f].lmt
  <2>1. uploads[u] # NoUpload /\ srow' = [srow EXCEPT ![uploads[u].file] = uploads[u].lmt]
    BY <1>3 DEF ServerInserts, Serving
  <2>2. uploads[u].lmt = disk[uploads[u].file].lmt
    BY <2>1, AtUpload DEF UploadFits
  <2> QED
    BY <2>1, <2>2 DEF IInv, StoreInv
<1>4. ASSUME NEW g \in File, RemovalDeletesRow(g) PROVE srow'[f] = disk[f].lmt
  <2>1. NoRemoval(f)
    BY DEF SInv, FileInv, GoneInv
  <2>2. g # f
    BY <1>4, <2>1 DEF NoRemoval, RemovalDeletesRow
  <2> QED
    BY <1>4, <2>2 DEF RemovalDeletesRow, IInv, StoreInv
<1>5. \/ srow' = srow
      \/ RequestTree
      \/ \E u \in Slot : ServerInserts(u)
      \/ \E g \in File : RemovalDeletesRow(g)
  <2>1. User => srow' = srow
    BY DEF User, Edit, MoveOut, MoveBack, UserActs, serverVars
  <2>2. Syncro => srow' = srow \/ RequestTree
    BY DEF Syncro, WatcherCalls, InitHashStat, InitHashInsert, CleanOldRows, ClientTree,
       AlignStatus, SendRemoval, Dispatch, SyncroEnds, serverVars
  <2>3. ASSUME NEW u \in Slot, Sipper(u) \/ ConnectFails(u) \/ Break(u)
        PROVE  srow' = srow
    BY <2>3 DEF Sipper, Connect, ReadAndSend, ClientGetsAnswer, SeesServerGone, ConnectFails,
       Break, serverVars
  <2>4. ASSUME NEW u \in Slot, ServiceStep(u) \/ ServerWriteFails(u)
        PROVE  srow' = srow \/ ServerInserts(u)
    BY <2>4 DEF ServiceStep, ServerOpens, ServerCloses, ServerWriteFails, ServerDigests,
       ServerChecksExists, ServerRemovesCorrupt, ServerRefuses, serverVars
  <2>5. ASSUME NEW g \in File, Removal(g) PROVE srow' = srow \/ RemovalDeletesRow(g)
    BY <2>5 DEF Removal, RemovalUnlinks
  <2>6. ClientStops \/ ClientStarts \/ ServerStops \/ UNCHANGED vars => srow' = srow
    BY DEF ClientStops, ClientStarts, ServerStops, vars, serverVars
  <2> QED
    BY <2>1, <2>2, <2>3, <2>4, <2>5, <2>6 DEF Next
<1> QED
  BY <1>1, <1>2, <1>3, <1>4, <1>5

(* A copy that is being written whole counts as one that is held.           *)
LEMMA HeldSays ==
    ASSUME IInv, SInv, NEW f \in File, Held(f)
    PROVE  Present(f) /\ srow[f] = disk[f].lmt /\ sfile[f] # NoFile
<1>1. disk[f].data # NoFile /\ 0 # NoFile
  <2>1. disk[f].data \in Data /\ 0 \in Data
    BY BoundsAssumption DEF Held, IInv, UserInv, Version, Present, Data
  <2> QED
    BY <2>1, NothingAssumption
<1>2. ASSUME NEW u \in UploadsOf(f), Rewrites(u, f) PROVE sfile[f] = 0
  BY <1>2 DEF Rewrites, Serving, UploadsOf, SInv, FileInv, UploadsFit, UploadFits
<1> QED
  BY <1>1, <1>2 DEF Held

(* Nor is the file taken away.                                              *)
LEMMA FileKept ==
    ASSUME IInv, SInv, [Next]_vars, NEW f \in File, Held(f), sfile[f] # NoFile
    PROVE  sfile'[f] # NoFile
<1>1. 0 # NoFile
  <2>1. 0 \in Data
    BY BoundsAssumption DEF Data
  <2> QED
    BY <2>1, NothingAssumption
<1>2. CASE sfile' = sfile
  BY <1>2
<1>3. ASSUME NEW u \in Slot, ServerOpens(u) PROVE sfile'[f] # NoFile
  <2>1. sfile' = sfile \/ sfile' = [sfile EXCEPT ![uploads[u].file] = 0]
    BY <1>3 DEF ServerOpens
  <2> QED
    BY <1>1, <2>1 DEF IInv, StoreInv
<1>4. ASSUME NEW u \in Slot, ServerCloses(u) PROVE sfile'[f] # NoFile
  <2>1. uploads[u] # NoUpload /\ uploads[u].s = "opened" /\ uploads[u].sent # NoTime
    BY <1>4 DEF ServerCloses, Serving
  <2>2. PICK g \in File : g = uploads[u].file
    BY <2>1, AtUpload
  <2>3. uploads[u] \in Upload /\ UploadFits(g, uploads[u])
    BY <2>1, <2>2, AtUpload
  <2>4. uploads[u].sent # NoFile
    BY <2>1, <2>3, NothingAssumption DEF Upload
  <2>5. PICK d \in IF uploads[u].linked THEN Merged(sfile[g], uploads[u].sent) ELSE {sfile[g]} :
           sfile' = [sfile EXCEPT ![g] = d]
    BY <1>4, <2>2 DEF ServerCloses
  <2>6. d \in {sfile[g], uploads[u].sent, 0}
    BY <2>5 DEF Merged
  <2> QED
    BY <1>1, <2>4, <2>5, <2>6 DEF IInv, StoreInv
<1>8. ASSUME NEW u \in Slot, ServerWriteFails(u) PROVE sfile'[f] # NoFile
  <2>1. PICK d \in Merged(sfile[uploads[u].file], 0) :
           sfile' = [sfile EXCEPT ![uploads[u].file] = d]
    BY <1>8 DEF ServerWriteFails
  <2>2. d \in {sfile[uploads[u].file], 0}
    BY <2>1 DEF Merged
  <2> QED
    BY <1>1, <2>1, <2>2 DEF IInv, StoreInv
<1>5. ASSUME NEW u \in Slot, ServerRemovesCorrupt(u) PROVE sfile'[f] # NoFile
  <2>1. uploads[u] # NoUpload /\ uploads[u].s = "differs"
        /\ sfile' = [sfile EXCEPT ![uploads[u].file] = NoFile]
    BY <1>5 DEF ServerRemovesCorrupt, Serving
  <2>2. uploads[u].file # f
    <3> SUFFICES ASSUME uploads[u].file = f PROVE FALSE
      OBVIOUS
    <3>1. UploadFits(f, uploads[u]) /\ u \in UploadsOf(f)
      BY <2>1, AtUpload
    <3>2. PICK v \in UploadsOf(f) : Rewrites(v, f)
      BY <2>1, <3>1 DEF UploadFits, Held
    <3>3. uploads[v].s = "opened" /\ UploadFits(f, uploads[v])
      BY <3>2 DEF Rewrites, Serving, SInv, FileInv, UploadsFit
    <3>4. Begun(uploads[u]) /\ Begun(uploads[v])
      BY <2>1, <3>1, <3>3 DEF Begun, UploadFits
    <3> QED
      BY <2>1, <3>1, <3>2, <3>3, <3>4 DEF SInv, FileInv, UploadsFit
  <2> QED
    BY <1>1, <2>1, <2>2 DEF IInv, StoreInv
<1>6. ASSUME NEW g \in File, RemovalUnlinks(g) PROVE sfile'[f] # NoFile
  <2>1. g # f
    <3>1. NoRemoval(f)
      BY DEF SInv, FileInv, GoneInv, Held
    <3> QED
      BY <1>6, <3>1 DEF NoRemoval, RemovalUnlinks
  <2> QED
    BY <1>1, <1>6, <2>1 DEF RemovalUnlinks, IInv, StoreInv
<1>7. \/ sfile' = sfile
      \/ \E u \in Slot : \/ ServerOpens(u) \/ ServerCloses(u)
                         \/ ServerWriteFails(u) \/ ServerRemovesCorrupt(u)
      \/ \E g \in File : RemovalUnlinks(g)
  <2>1. User \/ Syncro => sfile' = sfile
    BY DEF User, Edit, MoveOut, MoveBack, UserActs, Syncro, WatcherCalls, InitHashStat,
       InitHashInsert, CleanOldRows, ClientTree, RequestTree, AlignStatus, SendRemoval,
       Dispatch, SyncroEnds, serverVars
  <2>2. ASSUME NEW u \in Slot, Sipper(u) \/ ConnectFails(u) \/ Break(u)
        PROVE  sfile' = sfile
    BY <2>2 DEF Sipper, Connect, ReadAndSend, ClientGetsAnswer, SeesServerGone, ConnectFails,
       Break, serverVars
  <2>3. ASSUME NEW u \in Slot, ServiceStep(u)
        PROVE  sfile' = sfile \/ ServerOpens(u) \/ ServerCloses(u) \/ ServerRemovesCorrupt(u)
    BY <2>3 DEF ServiceStep, ServerDigests, ServerChecksExists, ServerInserts, ServerRefuses,
       serverVars
  <2>4. ASSUME NEW g \in File, Removal(g) PROVE sfile' = sfile \/ RemovalUnlinks(g)
    BY <2>4 DEF Removal, RemovalDeletesRow
  <2>5. ClientStops \/ ClientStarts \/ ServerStops \/ UNCHANGED vars => sfile' = sfile
    BY DEF ClientStops, ClientStarts, ServerStops, vars, serverVars
  <2> QED
    BY <2>1, <2>2, <2>3, <2>4, <2>5 DEF Next
<1> QED
  BY <1>2, <1>3, <1>4, <1>5, <1>6, <1>7, <1>8

(* What is listed is held.                                                  *)
LEMMA ListedIsHeld ==
    ASSUME Single, SInv, NEW f \in File, Present(f), Listed(f)
    PROVE  Held(f)
<1>1. srow[f] = disk[f].lmt
  BY DEF Listed
<1>2. ASSUME NEW u \in UploadsOf(f), Rewriting(uploads[u]) PROVE Rewrites(u, f)
  <2>1. UploadFits(f, uploads[u]) /\ uploads[u] # NoUpload
    BY DEF SInv, FileInv, UploadsFit, UploadsOf
  <2>2. uploads[u].sent \in {NoTime, disk[f].data}
    BY <1>2, <2>1 DEF UploadFits, Rewriting
  <2>3. uploads[u].sent = NoTime => uploads[u].c = "opened" /\ uploads[u].seen = disk[f].data
    BY <1>2, <2>1 DEF UploadFits, Rewriting
  <2> QED
    BY <1>2, <2>1, <2>2, <2>3 DEF Rewrites, Serving, Rewriting
<1> QED
  BY <1>1, <1>2 DEF Held, SInv, FileInv, ListedInv

(* A copy that the server holds it holds after every step.                  *)
LEMMA CopyKept ==
    ASSUME IInv, SInv, SInv', Single, [Next]_vars, NEW f \in File, Held(f),
           disk'[f] = disk[f]
    PROVE  Held(f)'
<1>1. Present(f) /\ srow[f] = disk[f].lmt /\ sfile[f] # NoFile
  BY HeldSays
<1>2. srow'[f] = disk'[f].lmt /\ sfile'[f] # NoFile /\ Present(f)'
  BY <1>1, RowKept, FileKept DEF Present
<1>3. ASSUME Single, SInv', Present(f)', Listed(f)' PROVE Held(f)'
  BY <1>3, ListedIsHeld, PTL
<1> QED
  BY <1>2, <1>3 DEF Listed

(* The three invariants hold together.                                      *)
LEMMA StoredInvariance ==
    ASSUME Orderly
    PROVE  Spec => [](IInv /\ TimesInv /\ SInv)
<1>1. Init => TimesInv
  BY DEF Init, TimesInv
<1>2. IInv /\ TimesInv /\ SInv /\ [Next]_vars => SInv'
  BY NextSInv
<1> QED
  BY <1>1, <1>2, InitIInv, InitSInv, NextIInv, TimesNext, PTL DEF Spec

(* The promise of the status SENT, for any files in any folders, any number *)
(* of uploads, changes and removals, names that are too long and folders    *)
(* that cannot be created, with one fault at any moment, a client that      *)
(* starts while the server is busy and a shutdown that throws: a file that  *)
(* is marked SENT and that nobody works on is on the server, with the       *)
(* content and under the time it has now.                                   *)
THEOREM SentMeansStored ==
    ASSUME Orderly, Single
    PROVE  Spec => []SentIsStored
<1>1. Spec => [](IInv /\ TimesInv /\ SInv)
  BY StoredInvariance
<1>2. SInv => SentIsStored
  BY SInvStored
<1> QED
  BY <1>1, <1>2, PTL

(* What the server holds of a file, under its time, it holds until the user *)
(* changes the file, for any files in any folders, any number of uploads,   *)
(* changes and removals, and with one fault at any moment: no removal takes *)
(* it, and an upload that truncates it, because the client has not seen its *)
(* answer, is one that writes it whole again.                               *)
THEOREM RegisteredCopyKept ==
    ASSUME Orderly, Single
    PROVE  Spec => CurrentCopyKept
<1>1. Spec => [](IInv /\ TimesInv /\ SInv)
  BY StoredInvariance
<1>2. IInv /\ SInv /\ SInv' /\ [Next]_vars =>
         [\A f \in File : Held(f) /\ disk'[f] = disk[f] => Held(f)']_vars
  BY CopyKept
<1> QED
  BY <1>1, <1>2, PTL DEF Spec, CurrentCopyKept

=============================================================================
