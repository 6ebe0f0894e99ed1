----------------------------- MODULE StoreFolders ----------------------------
(***************************************************************************)
(* No request leaves an empty folder in an account without somebody to     *)
(* answer for it, for all trees of folders and all requests that overlap.  *)
(***************************************************************************)
EXTENDS StoreProofs

-----------------------------------------------------------------------------
(* Who answers for a folder that is empty: a removal that is about to look  *)
(* at it, or an upload below it that is under way or has failed.            *)

Climbing(r) == removals[r].pc \in {"exists", "empty", "rmdir"} /\ removals[r].level > 0

Handled(d) == \E r \in Removal : Climbing(r) /\ FolderOf(r) = d

Named(u) == uploads[u].cut \in {"none", "name"}

(* An upload whose row is about to be inserted has found its file, and is   *)
(* not excused any more.                                                    *)
Excused(u) == Named(u) /\ uploads[u].pc \notin {"idle", "insert"} /\ uploads[u].answer = 0

AnsweredFor(d) ==
    \/ Entries(d) # {}
    \/ Handled(d)
    \/ \E u \in Upload : Excused(u) /\ d \in AllAbove({uploads[u].file})

ClimbInv(r) ==
    removals[r].pc \in {"exists", "empty", "rmdir"} =>
        removals[r].level <= Len(Path[FileOf(r)])

MetaInv(u) ==
    /\ uploads[u].pc \notin {"idle", "gone", "deaf"} => Named(u)
    /\ uploads[u].pc = "mkdir" => uploads[u].missing \subseteq AllAbove({uploads[u].file})
    /\ uploads[u].answer = 1 => uploads[u].pc = "done"

FolderInv ==
    /\ \A r \in Removal : ClimbInv(r)
    /\ \A u \in Upload : MetaInv(u)
    /\ \A d \in folders : AnsweredFor(d)

-----------------------------------------------------------------------------
(* What a folder holds, and what of it a step takes away.                   *)

(* A folder above a file that exists is not empty.                          *)
LEMMA AboveFile ==
  ASSUME IInv, NEW f \in File, disk[f] # NoFile, NEW d \in AllAbove({f})
  PROVE  Entries(d) # {}
<1>1. PICK i \in 1 .. Len(Path[f]) : Path[f][i] = d
  BY DEF AllAbove
<1>2. f \in Entry /\ f \notin Folder /\ Reachable(f)
  BY PathAssumption DEF Entry, IInv, PathInv
<1> QED
  BY <1>1, <1>2, Below

LEMMA InitFolders == Init => FolderInv
<1> SUFFICES ASSUME Init PROVE FolderInv
  OBVIOUS
<1>1. IInv
  BY InitInv
<1>2. ASSUME NEW d \in folders PROVE Entries(d) # {}
  <2>1. PICK stored \in SUBSET File :
          /\ folders = AllAbove(stored)
          /\ disk = [f \in File |-> IF f \in stored THEN Old ELSE NoFile]
    BY DEF Init
  <2>2. PICK f \in stored : d \in AllAbove({f})
    BY <2>1 DEF AllAbove
  <2>3. disk[f] # NoFile
    BY <2>1, NothingAssumption DEF Version
  <2> QED
    BY <1>1, <2>2, <2>3, AboveFile
<1>3. \A r \in Removal : ClimbInv(r)
  BY DEF Init, ClimbInv, NoRemoval
<1>4. \A u \in Upload : MetaInv(u)
  BY DEF Init, MetaInv
<1> QED
  BY <1>2, <1>3, <1>4 DEF FolderInv, AnsweredFor

LEMMA FoldersSame == FolderInv /\ UNCHANGED <<folders, disk, removals, uploads>> => FolderInv'
BY DEF FolderInv, ClimbInv, MetaInv, Named, AnsweredFor, Entries, Handled, Climbing, FolderOf,
       FileOf, Excused

(* A step that adds files and folders leaves in each folder what it held.   *)
LEMMA EntriesGrow ==
  ASSUME folders \subseteq folders',
         \A f \in File : disk[f] # NoFile => disk'[f] # NoFile, NEW d
  PROVE  Entries(d) \subseteq Entries(d)'
BY DEF Entries

(* A step that removes one file concerns the folder of that file.           *)
LEMMA EntriesSpared ==
  ASSUME IInv, NEW f \in File, disk' = [disk EXCEPT ![f] = NoFile], UNCHANGED folders,
         NEW d \in folders
  PROVE  \/ Entries(d)' = Entries(d)
         \/ Path[f] # <<>> /\ d = Path[f][Len(Path[f])]
<1>1. d # Home
  BY PathAssumption DEF IInv, TypeOK
<1>2. CASE ParentOf(f) = d
  BY <1>1, <1>2 DEF ParentOf
<1>3. CASE ParentOf(f) # d
  BY <1>3 DEF Entries, IInv, TypeOK
<1> QED
  BY <1>2, <1>3

-----------------------------------------------------------------------------
(* The steps of a removal.                                                  *)

(* A removal that goes on, unless it leaves an empty folder unattended.     *)
LEMMA RemovalMoves ==
  ASSUME IInv, FolderInv, NEW r \in Removal, NEW s,
         removals' = [removals EXCEPT ![r] = s], UNCHANGED <<folders, disk, uploads>>,
         s.pc \in {"exists", "empty", "rmdir"} => s.level <= Len(Path[List[r][s.next]]),
         Climbing(r) /\ FolderOf(r) \in folders /\ Entries(FolderOf(r)) = {} =>
             /\ s.pc \in {"exists", "empty", "rmdir"}
             /\ s.level = removals[r].level /\ s.next = removals[r].next
  PROVE  FolderInv'
<1>1. removals'[r] = s /\ \A q \in Removal \ {r} : removals'[q] = removals[q]
  BY DEF IInv, TypeOK
<1>2. \A q \in Removal : ClimbInv(q)'
  BY <1>1 DEF FolderInv, ClimbInv, FileOf
<1>3. \A u \in Upload : MetaInv(u)'
  BY DEF FolderInv, MetaInv, Named
<1>4. ASSUME NEW d \in folders' PROVE AnsweredFor(d)'
  <2>1. Entries(d)' = Entries(d) /\ AnsweredFor(d)
    BY DEF Entries, FolderInv
  <2>2. CASE Entries(d) # {} \/ \E u \in Upload : Excused(u) /\ d \in AllAbove({uploads[u].file})
    BY <2>1, <2>2 DEF AnsweredFor, Excused, Named
  <2>3. CASE Entries(d) = {} /\ Handled(d)
    <3>1. PICK q \in Removal : Climbing(q) /\ FolderOf(q) = d
      BY <2>3 DEF Handled
    <3>2. Climbing(q)' /\ FolderOf(q)' = d
      BY <1>1, <2>3, <3>1 DEF Climbing, FolderOf, FileOf
    <3> QED
      BY <3>2 DEF AnsweredFor, Handled
  <2> QED
    BY <2>1, <2>2, <2>3 DEF AnsweredFor
<1> QED
  BY <1>2, <1>3, <1>4 DEF FolderInv

LEMMA RemovesFileFolders ==
  ASSUME IInv, FolderInv, NEW r \in Removal, RemovesFile(r)
  PROVE  FolderInv'
<1> DEFINE f == FileOf(r)
           level == Len(Path[f])
           s == [removals[r] EXCEPT !.pc = "exists", !.level = level]
<1>1. f \in File /\ removals[r].pc = "unlink"
  BY Listed DEF RemovesFile
<1>2. level \in Nat /\ Path[f] \in Seq(Folder)
  BY <1>1, Paths DEF Entry
<1>3. /\ removals' = [removals EXCEPT ![r] = s] /\ disk' = [disk EXCEPT ![f] = NoFile]
      /\ UNCHANGED <<folders, uploads>>
  BY DEF RemovesFile, IInv, TypeOK
<1>4. s.pc = "exists" /\ s.level = level /\ s.next = removals[r].next
  BY DEF IInv, TypeOK, RemovalState
<1>5. removals'[r] = s /\ \A q \in Removal \ {r} : removals'[q] = removals[q]
  BY <1>3 DEF IInv, TypeOK
<1>6. FileOf(r)' = f
  BY <1>4, <1>5 DEF FileOf
<1> HIDE DEF f, level, s
<1>7. \A q \in Removal : ClimbInv(q)'
  <2>1. ClimbInv(r)'
    BY <1>2, <1>4, <1>5, <1>6 DEF ClimbInv, level
  <2>2. ASSUME NEW q \in Removal \ {r} PROVE ClimbInv(q)'
    BY <1>5 DEF FolderInv, ClimbInv, FileOf
  <2> QED
    BY <2>1, <2>2
<1>8. \A u \in Upload : MetaInv(u)'
  BY <1>3 DEF FolderInv, MetaInv, Named
<1>9. ASSUME NEW d \in folders' PROVE AnsweredFor(d)'
  <2>1. AnsweredFor(d) /\ d \in folders
    BY <1>3 DEF FolderInv
  <2>2. CASE Path[f] # <<>> /\ d = Path[f][Len(Path[f])]
    <3>1. level > 0
      BY <1>2, <2>2 DEF level
    <3>2. Climbing(r)' /\ FolderOf(r)' = d
      BY <1>4, <1>5, <1>6, <2>2, <3>1 DEF Climbing, FolderOf, level
    <3> QED
      BY <3>2 DEF AnsweredFor, Handled
  <2>3. CASE Entries(d)' = Entries(d)
    <3>1. ASSUME NEW q \in Removal, Climbing(q), FolderOf(q) = d
          PROVE  Climbing(q)' /\ FolderOf(q)' = d
      <4>1. q # r
        BY <1>1, <3>1 DEF Climbing
      <4> QED
        BY <1>5, <3>1, <4>1 DEF Climbing, FolderOf, FileOf
    <3> QED
      BY <1>3, <2>1, <2>3, <3>1 DEF AnsweredFor, Handled, Excused, Named
  <2> QED
    BY <1>1, <1>3, <2>1, <2>2, <2>3, EntriesSpared
<1> QED
  BY <1>7, <1>8, <1>9 DEF FolderInv

(* The folder above the one a removal has just taken away is the next it    *)
(* looks at.                                                                *)
LEMMA NextAbove ==
  ASSUME NEW f \in File, NEW i \in 1 .. Len(Path[f]), NEW d \in Folder,
         ParentOf(Path[f][i]) = d
  PROVE  i - 1 \in 1 .. Len(Path[f]) /\ Path[f][i - 1] = d
<1> DEFINE c == Path[f][i]
           j == i - 1
<1>1. /\ Path[f] \in Seq(Folder) /\ Len(Path[f]) \in Nat
      /\ Path[c] = SubSeq(Path[f], 1, i - 1)
  BY Paths DEF Entry
<1>2. i \in Nat /\ j \in Nat /\ i = j + 1 /\ i <= Len(Path[f])
  BY <1>1
<1>3. Path[c] # <<>> /\ d = Path[c][Len(Path[c])]
  BY PathAssumption DEF ParentOf
<1>4. Path[c] = SubSeq(Path[f], 1, j)
  BY <1>1
<1> HIDE DEF j, c
<1>5. j # 0
  <2>1. j = 0 => SubSeq(Path[f], 1, j) = <<>>
    BY <1>1
  <2> QED
    BY <1>3, <1>4, <2>1
<1>6. j \in 1 .. Len(Path[f])
  BY <1>1, <1>2, <1>5
<1>7. Len(Path[c]) = j /\ Path[c][j] = Path[f][j]
  BY <1>1, <1>4, <1>6, Prefix
<1> QED
  BY <1>3, <1>6, <1>7 DEF j

LEMMA RemovesFolderFolders ==
  ASSUME IInv, FolderInv, NEW r \in Removal, RemovesFolder(r)
  PROVE  FolderInv'
<1> DEFINE c == FolderOf(r)
           f == FileOf(r)
           level == removals[r].level - 1
           s == [removals[r] EXCEPT !.pc = "exists", !.level = level]
<1>1. /\ removals[r] \in RemovalState /\ removals[r].pc = "rmdir" /\ removals[r].level > 0
      /\ removals[r].level \in Nat /\ f \in File
  BY Listed DEF RemovesFolder, IInv, TypeOK, RemovalInv, RemovalState
<1>2. removals[r].level \in 1 .. Len(Path[f]) /\ Len(Path[f]) \in Nat
  BY <1>1, Paths DEF FolderInv, ClimbInv, Entry
<1>3. level \in Nat /\ level <= Len(Path[f]) /\ level < removals[r].level
  BY <1>1, <1>2
<1>4. removals' = [removals EXCEPT ![r] = s]
  BY DEF RemovesFolder, IInv, TypeOK
<1>5. s.pc = "exists" /\ s.level = level /\ s.next = removals[r].next
  BY <1>1 DEF RemovalState
<1>6. removals'[r] = s /\ \A q \in Removal \ {r} : removals'[q] = removals[q]
  BY <1>4 DEF IInv, TypeOK
<1>7. /\ folders' = IF Entries(c) = {} THEN folders \ {c} ELSE folders
      /\ UNCHANGED <<disk, uploads>>
  BY DEF RemovesFolder
<1>8. c = Path[f][removals[r].level] /\ FileOf(r)' = f
  BY <1>5, <1>6 DEF FolderOf, FileOf
<1> HIDE DEF s
<1>9. CASE Entries(c) # {}
  <2>1. folders' = folders /\ s.level <= Len(Path[List[r][s.next]])
    BY <1>3, <1>5, <1>7, <1>9 DEF FileOf
  <2> QED
    BY <1>4, <1>7, <1>9, <2>1, RemovalMoves
<1>10. CASE Entries(c) = {}
  <2> HIDE DEF level, c, f
  <2>1. \A q \in Removal : ClimbInv(q)'
    <3>1. ClimbInv(r)'
      BY <1>3, <1>5, <1>6, <1>8 DEF ClimbInv
    <3>2. ASSUME NEW q \in Removal \ {r} PROVE ClimbInv(q)'
      BY <1>6 DEF FolderInv, ClimbInv, FileOf
    <3> QED
      BY <3>1, <3>2
  <2>2. \A u \in Upload : MetaInv(u)'
    BY <1>7 DEF FolderInv, MetaInv, Named
  <2>3. ASSUME NEW d \in folders' PROVE AnsweredFor(d)'
    <3>1. d \in folders /\ d # c /\ d \in Folder /\ AnsweredFor(d)
      BY <1>7, <1>10, <2>3 DEF FolderInv, IInv, TypeOK
    <3>2. CASE ParentOf(c) = d
      <4>1. level \in 1 .. Len(Path[f]) /\ Path[f][level] = d
        BY <1>1, <1>2, <1>8, <3>1, <3>2, NextAbove DEF level
      <4>2. Climbing(r)' /\ FolderOf(r)' = d
        BY <1>5, <1>6, <1>8, <4>1 DEF Climbing, FolderOf
      <4> QED
        BY <4>2 DEF AnsweredFor, Handled
    <3>3. CASE ParentOf(c) # d
      <4>1. Entries(d)' = Entries(d)
        BY <1>7, <1>10, <3>3 DEF Entries
      <4>2. ASSUME NEW q \in Removal, Climbing(q), FolderOf(q) = d
            PROVE  Climbing(q)' /\ FolderOf(q)' = d
        <5>1. q # r
          BY <3>1, <4>2 DEF c
        <5> QED
          BY <1>6, <4>2, <5>1 DEF Climbing, FolderOf, FileOf
      <4> QED
        BY <1>7, <3>1, <4>1, <4>2 DEF AnsweredFor, Handled, Excused, Named
    <3> QED
      BY <3>2, <3>3
  <2> QED
    BY <2>1, <2>2, <2>3 DEF FolderInv
<1> QED
  BY <1>9, <1>10

LEMMA RemovalFolders ==
  ASSUME IInv, FolderInv, NEW r \in Removal, RemovalArrives(r) \/ RemovalStep(r)
  PROVE  FolderInv'
<1>1. removals[r] \in RemovalState /\ removals \in [Removal -> RemovalState]
  BY DEF IInv, TypeOK
<1>2. ASSUME NEW pc, RemovalGoes(r, pc), UNCHANGED <<folders, disk, uploads>>,
             \/ pc \notin {"exists", "empty", "rmdir"} /\ ~Climbing(r)
             \/ pc \in {"exists", "empty", "rmdir"} /\ Climbing(r)
      PROVE  FolderInv'
  <2> DEFINE s == [removals[r] EXCEPT !.pc = pc]
  <2>1. removals' = [removals EXCEPT ![r] = s]
    BY <1>1, <1>2 DEF RemovalGoes
  <2>2. s.pc = pc /\ s.level = removals[r].level /\ s.next = removals[r].next
    BY <1>1 DEF RemovalState
  <2> HIDE DEF s
  <2>3. s.pc \in {"exists", "empty", "rmdir"} => s.level <= Len(Path[List[r][s.next]])
    BY <1>2, <2>2 DEF FolderInv, ClimbInv, Climbing, FileOf
  <2> QED
    BY <1>2, <2>1, <2>2, <2>3, RemovalMoves
<1>3. ASSUME NEW s, removals' = [removals EXCEPT ![r] = s],
             s.pc \notin {"exists", "empty", "rmdir"}, UNCHANGED <<folders, disk, uploads>>,
             ~Climbing(r) \/ FolderOf(r) \notin folders \/ Entries(FolderOf(r)) # {}
      PROVE  FolderInv'
  BY <1>3, RemovalMoves
<1>4. ASSUME RemovalLeavesFolders(r), UNCHANGED <<folders, disk, uploads>>,
             ~Climbing(r) \/ FolderOf(r) \notin folders \/ Entries(FolderOf(r)) # {}
      PROVE  FolderInv'
  <2> DEFINE s == [removals[r] EXCEPT !.pc = "row", !.level = 0]
  <2>1. removals' = [removals EXCEPT ![r] = s] /\ s.pc = "row"
    BY <1>1, <1>4 DEF RemovalLeavesFolders, RemovalState
  <2> HIDE DEF s
  <2> QED
    BY <1>3, <1>4, <2>1
<1>5. ASSUME RemovalArrives(r) PROVE FolderInv'
  BY <1>2, <1>5 DEF RemovalArrives, Climbing
<1>6. ASSUME RemovalFindsParent(r) PROVE FolderInv'
  <2>1. CASE removals[r].level > 0 /\ FolderOf(r) \in folders
    BY <1>2, <1>6, <2>1 DEF RemovalFindsParent, Climbing
  <2>2. CASE ~(removals[r].level > 0 /\ FolderOf(r) \in folders)
    BY <1>4, <1>6, <2>2 DEF RemovalFindsParent, Climbing
  <2> QED
    BY <2>1, <2>2
<1>7. ASSUME RemovalLooksInside(r) PROVE FolderInv'
  <2>1. Climbing(r) /\ UNCHANGED <<folders, disk, uploads>>
    BY <1>7 DEF RemovalLooksInside, Climbing, IInv, RemovalInv
  <2>2. CASE FolderOf(r) \notin folders
    <3>1. NoRemoval("thrown").pc = "thrown"
      BY DEF NoRemoval
    <3> QED
      BY <1>3, <1>7, <2>1, <2>2, <3>1 DEF RemovalLooksInside
  <2>3. CASE FolderOf(r) \in folders /\ Entries(FolderOf(r)) = {}
    BY <1>2, <1>7, <2>1, <2>3 DEF RemovalLooksInside
  <2>4. CASE FolderOf(r) \in folders /\ Entries(FolderOf(r)) # {}
    BY <1>4, <1>7, <2>1, <2>4 DEF RemovalLooksInside
  <2> QED
    BY <2>2, <2>3, <2>4
<1>8. ASSUME RemovesRow(r) PROVE FolderInv'
  <2>1. CASE Exits
    BY <2>1, FoldersSame DEF Exits
  <2>2. CASE hasTable
    <3>1. ~Climbing(r) /\ UNCHANGED <<folders, disk, uploads>>
      BY <1>8, <2>2 DEF RemovesRow, Climbing
    <3>2. CASE removals' = [removals EXCEPT ![r] = NoRemoval("done")]
      <4>1. NoRemoval("done").pc = "done"
        BY DEF NoRemoval
      <4> QED
        BY <1>3, <3>1, <3>2, <4>1
    <3>3. CASE removals' = [removals EXCEPT ![r].pc = "unlink", ![r].next = @ + 1]
      <4> DEFINE next == removals[r].next + 1
                 s == [removals[r] EXCEPT !.pc = "unlink", !.next = next]
      <4>1. removals' = [removals EXCEPT ![r] = s]
        BY <1>1, <3>3
      <4>2. s.pc = "unlink"
        BY <1>1 DEF RemovalState
      <4> HIDE DEF s
      <4> QED
        BY <1>3, <3>1, <4>1, <4>2
    <3> QED
      BY <1>8, <2>2, <3>2, <3>3 DEF RemovesRow
  <2> QED
    BY <1>8, <2>1, <2>2 DEF RemovesRow
<1> QED
  BY <1>5, <1>6, <1>7, <1>8, RemovesFileFolders, RemovesFolderFolders DEF RemovalStep

-----------------------------------------------------------------------------
(* The steps of an upload.                                                  *)

(* A step of an upload leaves a folder full, or as it was and not its own   *)
(* to excuse, or it has the excuse itself.                                  *)
LEMMA UploadMoves ==
  ASSUME FolderInv, NEW u \in Upload, UNCHANGED removals,
         \A v \in Upload \ {u} : uploads'[v] = uploads[v], MetaInv(u)',
         \A d \in folders' :
             \/ Entries(d)' # {}
             \/ d \in folders /\ Entries(d) = {}
                  /\ ~(Excused(u) /\ d \in AllAbove({uploads[u].file}))
             \/ Excused(u)' /\ d \in AllAbove({uploads'[u].file})
  PROVE  FolderInv'
<1>1. \A r \in Removal : ClimbInv(r)'
  BY DEF FolderInv, ClimbInv, FileOf
<1>2. \A v \in Upload : MetaInv(v)'
  <2>1. ASSUME NEW v \in Upload \ {u} PROVE MetaInv(v)'
    BY DEF FolderInv, MetaInv, Named
  <2> QED
    BY <2>1
<1>3. ASSUME NEW d \in folders' PROVE AnsweredFor(d)'
  <2>1. CASE Entries(d)' # {} \/ (Excused(u)' /\ d \in AllAbove({uploads'[u].file}))
    BY <2>1 DEF AnsweredFor
  <2>2. CASE d \in folders /\ Entries(d) = {}
               /\ ~(Excused(u) /\ d \in AllAbove({uploads[u].file}))
    <3>1. CASE Handled(d)
      <4>1. Handled(d)'
        BY <3>1 DEF Handled, Climbing, FolderOf, FileOf
      <4> QED
        BY <4>1 DEF AnsweredFor
    <3>2. CASE \E v \in Upload : Excused(v) /\ d \in AllAbove({uploads[v].file})
      <4>1. PICK v \in Upload \ {u} : Excused(v) /\ d \in AllAbove({uploads[v].file})
        BY <2>2, <3>2
      <4>2. Excused(v)' /\ d \in AllAbove({uploads'[v].file})
        BY <4>1 DEF Excused, Named
      <4> QED
        BY <4>2 DEF AnsweredFor
    <3> QED
      BY <2>2, <3>1, <3>2 DEF FolderInv, AnsweredFor
  <2> QED
    BY <1>3, <2>1, <2>2
<1> QED
  BY <1>1, <1>2, <1>3 DEF FolderInv

(* A step of an upload that removes nothing and keeps its excuse.           *)
LEMMA UploadGrows ==
  ASSUME IInv, FolderInv, NEW u \in Upload, UNCHANGED <<folders, removals>>,
         \A f \in File : disk[f] # NoFile => disk'[f] # NoFile,
         \A v \in Upload \ {u} : uploads'[v] = uploads[v], MetaInv(u)',
         Excused(u) => Excused(u)' /\ uploads'[u].file = uploads[u].file
  PROVE  FolderInv'
<1>1. ASSUME NEW d \in folders'
      PROVE  \/ Entries(d)' # {}
             \/ d \in folders /\ Entries(d) = {}
                  /\ ~(Excused(u) /\ d \in AllAbove({uploads[u].file}))
             \/ Excused(u)' /\ d \in AllAbove({uploads'[u].file})
  <2>1. d \in folders /\ Entries(d) \subseteq Entries(d)'
    BY EntriesGrow
  <2> QED
    BY <2>1
<1> QED
  BY <1>1, UploadMoves

LEMMA UploadPlace ==
  ASSUME IInv, NEW u \in Upload, NEW pc, UploadGoes(u, pc)
  PROVE  /\ \A v \in Upload \ {u} : uploads'[v] = uploads[v]
         /\ uploads'[u].pc = pc /\ uploads'[u].file = uploads[u].file
         /\ uploads'[u].cut = uploads[u].cut /\ uploads'[u].missing = uploads[u].missing
         /\ uploads'[u].answer = uploads[u].answer
BY DEF UploadGoes, IInv, TypeOK, UploadState

LEMMA UploadAnswer ==
  ASSUME IInv, NEW u \in Upload, NEW answer, UploadAnswers(u, answer)
  PROVE  /\ \A v \in Upload \ {u} : uploads'[v] = uploads[v]
         /\ uploads'[u].pc = "done" /\ uploads'[u].file = uploads[u].file
         /\ uploads'[u].cut = uploads[u].cut /\ uploads'[u].answer = answer
BY DEF UploadAnswers, IInv, TypeOK, UploadState

LEMMA UploadArrivesFolders ==
  ASSUME IInv, FolderInv, NEW u \in Upload, NEW cut \in {"none", "name", "user", "tiny"},
         UploadArrives(u, cut)
  PROVE  FolderInv'
<1>1. /\ uploads \in [Upload -> UploadState] /\ uploads[u] \in UploadState
      /\ uploads[u].pc = "idle" /\ UNCHANGED <<folders, disk, removals>>
  BY DEF UploadArrives, IInv, TypeOK
<1>2. PICK f \in IF cut = "name" THEN Shortened[Target[u]] ELSE {Target[u]} :
         uploads' = [uploads EXCEPT
                ![u].file = f, ![u].cut = cut,
                ![u].missing = IF cut \in {"tiny", "user"} THEN {} ELSE Missing(f),
                ![u].pc = CASE cut = "tiny" -> "gone"
                            [] cut = "user" -> "deaf"
                            [] cut \in {"none", "name"} /\ Missing(f) = {} -> "open"
                            [] OTHER -> "mkdir"]
  BY DEF UploadArrives
<1> DEFINE missing == IF cut \in {"tiny", "user"} THEN {} ELSE Missing(f)
           pc == CASE cut = "tiny" -> "gone"
                   [] cut = "user" -> "deaf"
                   [] cut \in {"none", "name"} /\ Missing(f) = {} -> "open"
                   [] OTHER -> "mkdir"
<1>3. /\ missing \subseteq AllAbove({f})
      /\ pc \in {"gone", "deaf", "open", "mkdir"}
      /\ pc \in {"open", "mkdir"} => cut \in {"none", "name"}
  <2>1. missing \subseteq AllAbove({f})
    BY DEF Missing
  <2>2. pc \in {"gone", "deaf", "open", "mkdir"}
    OBVIOUS
  <2>3. cut = "tiny" => pc = "gone"
    OBVIOUS
  <2>4. cut # "tiny" /\ cut = "user" => pc = "deaf"
    OBVIOUS
  <2> HIDE DEF missing, pc
  <2> QED
    BY <2>1, <2>2, <2>3, <2>4
<1>4. uploads' = [uploads EXCEPT ![u].file = f, ![u].cut = cut,
                                 ![u].missing = missing, ![u].pc = pc]
  BY <1>2
<1> HIDE DEF missing, pc
<1>5. /\ \A v \in Upload \ {u} : uploads'[v] = uploads[v]
      /\ uploads'[u].pc = pc /\ uploads'[u].file = f /\ uploads'[u].cut = cut
      /\ uploads'[u].missing = missing /\ uploads'[u].answer = uploads[u].answer
  BY <1>1, <1>4 DEF UploadState
<1>6. uploads[u].answer # 1 /\ ~Excused(u)
  BY <1>1 DEF FolderInv, MetaInv, Excused
<1>7. MetaInv(u)'
  BY <1>3, <1>5, <1>6 DEF MetaInv, Named
<1> QED
  BY <1>1, <1>5, <1>6, <1>7, UploadGrows

LEMMA UploadMakesFolderFolders ==
  ASSUME IInv, FolderInv, NEW u \in Upload, UploadMakesFolder(u)
  PROVE  FolderInv'
<1>1. /\ uploads \in [Upload -> UploadState] /\ uploads[u] \in UploadState
      /\ uploads[u].pc = "mkdir" /\ UNCHANGED <<disk, removals>>
      /\ uploads[u].missing \subseteq AllAbove({uploads[u].file})
      /\ Named(u) /\ uploads[u].answer # 1
  BY DEF UploadMakesFolder, IInv, TypeOK, FolderInv, MetaInv
<1>2. PICK d \in uploads[u].missing :
        LET rest == uploads[u].missing \ {d}
        IN  IF Exists(ParentOf(d))
              THEN /\ folders' = folders \cup {d}
                   /\ uploads' = [uploads EXCEPT ![u].missing = rest,
                                     ![u].pc = IF rest = {} THEN "open" ELSE @]
              ELSE /\ uploads' = [uploads EXCEPT ![u].missing = {}, ![u].pc = "robbed"]
                   /\ UNCHANGED folders
  BY DEF UploadMakesFolder
<1>3. uploads[u].answer = 0
  BY <1>1 DEF UploadState
<1>4. CASE Exists(ParentOf(d))
  <2> DEFINE rest == uploads[u].missing \ {d}
             pc == IF rest = {} THEN "open" ELSE uploads[u].pc
  <2>1. folders' = folders \cup {d}
        /\ uploads' = [uploads EXCEPT ![u].missing = rest, ![u].pc = pc]
    BY <1>1, <1>2, <1>4
  <2>2. rest \subseteq AllAbove({uploads[u].file}) /\ pc \in {"open", "mkdir"}
    BY <1>1
  <2> HIDE DEF rest, pc
  <2>3. /\ \A v \in Upload \ {u} : uploads'[v] = uploads[v]
        /\ uploads'[u].pc = pc /\ uploads'[u].file = uploads[u].file
        /\ uploads'[u].cut = uploads[u].cut /\ uploads'[u].missing = rest
        /\ uploads'[u].answer = uploads[u].answer
    BY <1>1, <2>1 DEF UploadState
  <2>4. MetaInv(u)' /\ Excused(u)'
    BY <1>1, <1>3, <2>2, <2>3 DEF MetaInv, Named, Excused
  <2>5. ASSUME NEW e \in folders'
        PROVE  \/ Entries(e)' # {}
               \/ e \in folders /\ Entries(e) = {}
                    /\ ~(Excused(u) /\ e \in AllAbove({uploads[u].file}))
               \/ Excused(u)' /\ e \in AllAbove({uploads'[u].file})
    <3>1. Entries(e) \subseteq Entries(e)'
      BY <1>1, <2>1, EntriesGrow
    <3> QED
      BY <1>1, <2>1, <2>3, <2>4, <3>1
  <2> QED
    BY <1>1, <2>3, <2>4, <2>5, UploadMoves
<1>5. CASE ~Exists(ParentOf(d))
  <2>1. folders' = folders
        /\ uploads' = [uploads EXCEPT ![u].missing = {}, ![u].pc = "robbed"]
    BY <1>2, <1>5
  <2>2. /\ \A v \in Upload \ {u} : uploads'[v] = uploads[v]
        /\ uploads'[u].pc = "robbed" /\ uploads'[u].file = uploads[u].file
        /\ uploads'[u].cut = uploads[u].cut /\ uploads'[u].answer = uploads[u].answer
    BY <1>1, <2>1 DEF UploadState
  <2>3. MetaInv(u)' /\ Excused(u)'
    BY <1>1, <1>3, <2>2 DEF MetaInv, Named, Excused
  <2> QED
    BY <1>1, <2>1, <2>2, <2>3, UploadGrows
<1> QED
  BY <1>4, <1>5

LEMMA UploadChecksExistsFolders ==
  ASSUME IInv, FolderInv, NEW u \in Upload, UploadChecksExists(u)
  PROVE  FolderInv'
<1> DEFINE f == uploads[u].file
<1>1. /\ uploads[u].pc = "exists" /\ UNCHANGED <<folders, disk, removals>>
      /\ Named(u) /\ uploads[u].answer # 1 /\ f \in File
  BY DEF UploadChecksExists, FolderInv, MetaInv, IInv, TypeOK, UploadState
<1>2. CASE disk[f] # NoFile
  <2>1. UploadGoes(u, "insert")
    BY <1>2 DEF UploadChecksExists
  <2>2. MetaInv(u)' /\ uploads'[u].file = f
    BY <1>1, <2>1, UploadPlace DEF MetaInv, Named
  <2>3. ASSUME NEW d \in folders'
        PROVE  \/ Entries(d)' # {}
               \/ d \in folders /\ Entries(d) = {} /\ ~(Excused(u) /\ d \in AllAbove({f}))
    <3>1. Entries(d)' = Entries(d) /\ d \in folders
      BY <1>1 DEF Entries
    <3> QED
      BY <1>1, <1>2, <3>1, AboveFile
  <2> QED
    BY <1>1, <2>1, <2>2, <2>3, UploadPlace, UploadMoves
<1>3. CASE disk[f] = NoFile
  <2>1. UploadAnswers(u, 0)
    BY <1>3 DEF UploadChecksExists
  <2>2. MetaInv(u)' /\ Excused(u)'
    BY <1>1, <2>1, UploadAnswer DEF MetaInv, Named, Excused
  <2> QED
    BY <1>1, <2>1, <2>2, UploadAnswer, UploadGrows
<1> QED
  BY <1>2, <1>3

LEMMA UploadRemovesCorruptFolders ==
  ASSUME IInv, FolderInv, NEW u \in Upload, UploadRemovesCorrupt(u)
  PROVE  FolderInv'
<1> DEFINE f == uploads[u].file
<1>1. /\ uploads[u].pc = "remove" /\ UNCHANGED <<folders, removals>> /\ Named(u) /\ f \in File
      /\ disk' = [disk EXCEPT ![f] = NoFile] /\ UploadAnswers(u, 0)
  BY DEF UploadRemovesCorrupt, FolderInv, MetaInv, IInv, TypeOK, UploadState
<1>2. MetaInv(u)' /\ Excused(u)' /\ uploads'[u].file = f
  BY <1>1, UploadAnswer DEF MetaInv, Named, Excused
<1>3. ASSUME NEW d \in folders'
      PROVE  \/ Entries(d)' # {}
             \/ d \in folders /\ Entries(d) = {} /\ ~(Excused(u) /\ d \in AllAbove({f}))
             \/ Excused(u)' /\ d \in AllAbove({f})
  <2>1. d \in folders /\ d \in Folder
    BY <1>1 DEF IInv, TypeOK
  <2>2. CASE Path[f] # <<>> /\ d = Path[f][Len(Path[f])]
    <3>1. Path[f] \in Seq(Folder) /\ Len(Path[f]) \in 1 .. Len(Path[f])
      <4>1. f \in Entry
        BY <1>1 DEF Entry
      <4>2. Path[f] \in Seq(Folder)
        BY <4>1, Paths
      <4> QED
        BY <2>2, <4>2
    <3> QED
      BY <1>2, <2>1, <2>2, <3>1 DEF AllAbove
  <2>3. CASE Entries(d)' = Entries(d)
    BY <1>2, <2>1, <2>3
  <2> QED
    BY <1>1, <2>1, <2>2, <2>3, EntriesSpared
<1> QED
  BY <1>1, <1>2, <1>3, UploadAnswer, UploadMoves

LEMMA UploadFolders ==
  ASSUME IInv, FolderInv, NEW u \in Upload,
         UploadStep(u) \/ \E cut \in {"none", "name", "user", "tiny"} : UploadArrives(u, cut)
  PROVE  FolderInv'
<1> DEFINE f == uploads[u].file
<1>1. f \in File /\ disk \in [File -> Version \cup {Partial, NoFile}]
  BY DEF IInv, TypeOK, UploadState
<1>2. ASSUME NEW pc \in {"receive", "digest", "exists", "remove", "gone"}, UploadGoes(u, pc),
             uploads[u].pc \in {"open", "receive", "digest"}, UNCHANGED <<folders, removals>>,
             \A g \in File : disk[g] # NoFile => disk'[g] # NoFile
      PROVE  FolderInv'
  <2>1. Named(u) /\ uploads[u].answer # 1
    BY <1>2 DEF FolderInv, MetaInv
  <2>2. MetaInv(u)' /\ (Excused(u) => Excused(u)')
    BY <1>2, <2>1, UploadPlace DEF MetaInv, Named, Excused
  <2> QED
    BY <1>2, <2>2, UploadPlace, UploadGrows
<1>3. ASSUME UploadOpens(u) PROVE FolderInv'
  <2>1. \A g \in File : disk[g] # NoFile => disk'[g] # NoFile
    BY <1>1, <1>3, NothingAssumption DEF UploadOpens
  <2> QED
    BY <1>2, <1>3, <2>1 DEF UploadOpens
<1>4. ASSUME NEW whole \in BOOLEAN, UploadReceives(u, whole) PROVE FolderInv'
  <2>1. u # NoFile
    BY NothingAssumption DEF Version
  <2>2. \A g \in File : disk[g] # NoFile => disk'[g] # NoFile
    BY <1>1, <1>4, <2>1 DEF UploadReceives
  <2> QED
    BY <1>2, <1>4, <2>2 DEF UploadReceives
<1>5. ASSUME UploadBreaks(u) \/ UploadDigests(u) PROVE FolderInv'
  BY <1>2, <1>5 DEF UploadBreaks, UploadDigests
<1>6. ASSUME UploadInserts(u) PROVE FolderInv'
  <2>1. CASE Exits
    BY <2>1, FoldersSame DEF Exits
  <2>2. CASE hasTable
    <3>1. /\ UploadAnswers(u, 1) /\ UNCHANGED <<folders, disk, removals>>
          /\ uploads[u].pc = "insert" /\ Named(u)
      BY <1>6, <2>2 DEF UploadInserts, FolderInv, MetaInv
    <3>2. MetaInv(u)' /\ ~Excused(u)
      BY <3>1, UploadAnswer DEF MetaInv, Named, Excused
    <3> QED
      BY <3>1, <3>2, UploadAnswer, UploadGrows
  <2> QED
    BY <1>6, <2>1, <2>2 DEF UploadInserts
<1> QED
  BY <1>3, <1>4, <1>5, <1>6, UploadArrivesFolders, UploadMakesFolderFolders,
     UploadChecksExistsFolders, UploadRemovesCorruptFolders DEF UploadStep

-----------------------------------------------------------------------------
LEMMA NextFolders == IInv /\ FolderInv /\ [Next]_vars => FolderInv'
<1> SUFFICES ASSUME IInv, FolderInv, [Next]_vars PROVE FolderInv'
  OBVIOUS
<1>1. CASE UNCHANGED vars
  BY <1>1, FoldersSame DEF vars
<1>2. ASSUME NEW t \in Tree, TreeArrives(t) \/ TreeStep(t) PROVE FolderInv'
  <2>1. UNCHANGED <<folders, disk, removals, uploads>>
    BY <1>2 DEF TreeArrives, TreeStep, TreeChecksFolder, TreeCreatesFolder, CreateTable,
                TreeListsFile, TreeOpensFolder, TreeRetries, TreeGivesUp, TreeIsDone,
                TreeAnswers, Exits
  <2> QED
    BY <2>1, FoldersSame
<1> QED
  BY <1>1, <1>2, RemovalFolders, UploadFolders DEF Next

(* Whatever trees, removals and uploads an account is sent, and in whatever *)
(* order their steps come: once no removal and no upload is under way, an   *)
(* empty folder is one that a failed upload was given.                      *)
THEOREM FoldersAnsweredFor == Spec => []NoEmptyFolders
<1>1. Spec => []FolderInv
  BY InitFolders, NextFolders, Invariance, PTL DEF Spec
<1>2. FolderInv => NoEmptyFolders
  BY DEF FolderInv, AnsweredFor, Handled, Climbing, Excused, Named, Active, NoEmptyFolders
<1> QED
  BY <1>1, <1>2, PTL
=============================================================================
