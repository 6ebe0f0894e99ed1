----------------------------- MODULE StoreProofs ----------------------------
(***************************************************************************)
(* Theorems about Store for all sets of files, folders and requests,       *)
(* every tree of folders and every number of attempts.                     *)
(***************************************************************************)
EXTENDS Store, TLAPS

-----------------------------------------------------------------------------
(* The invariant that holds whichever guards are lifted.                    *)

RemovalInv(r) ==
    /\ removals[r].pc \notin {"done", "thrown"} => removals[r].next \in 1 .. Len(List[r])
    /\ removals[r].pc \in {"empty", "rmdir"} => removals[r].level > 0

(* What exists lies in folders that exist.                                  *)
Reachable(x) == \A i \in 1 .. Len(Path[x]) : Path[x][i] \in folders

PathInv ==
    /\ \A f \in File : disk[f] # NoFile => Reachable(f)
    /\ \A d \in folders : Reachable(d)

(* An attempt that is about to be lost costs a folder that has not been     *)
(* counted for another.                                                     *)
AttemptInv(t) ==
    trees[t].pc = "walk" =>
        /\ Attempts - trees[t].left <= trees[t].gone
        /\ VanishedAhead(t) => Attempts - trees[t].left < trees[t].gone

IInv ==
    /\ TypeOK
    /\ \A r \in Removal : RemovalInv(r)
    /\ PathInv
    /\ \A t \in Tree : AttemptInv(t)

-----------------------------------------------------------------------------
(* What else holds when one handler at a time creates the account.          *)

OneCreator == "creators" \notin Trouble

(* The account's folder is there, and nobody is about to create the table:  *)
(* the table is there, too, or never will be, after a stop between the two. *)
Settled == home /\ \A t \in Tree : trees[t].pc # "table"

TreeInv(t) ==
    /\ trees[t].pc = "create" => ~home /\ ~hasTable
    /\ trees[t].pc = "table" => home /\ ~hasTable
    /\ trees[t].pc = "walk" => Settled
    /\ trees[t].pc = "exists" /\ home => Settled

(* An account is settled before anything is done to it, and has its table,  *)
(* or else a server was stopped.                                            *)
AccountInv ==
    /\ known => Settled
    /\ hasTable => home
    /\ \A t \in Tree : TreeInv(t)
    /\ \A s, t \in Tree : Creating(s) /\ Creating(t) /\ ~hasTable => s = t
    /\ \A r \in Removal : removals[r].pc # "idle" => Settled
    /\ \A u \in Upload : uploads[u].pc # "idle" => Settled
    /\ Settled /\ "halfway" \notin Trouble => hasTable
    /\ alive \/ "halfway" \in Trouble \/ \E u \in Upload : uploads[u].cut = "tiny"

(* The iterator still comes to every file that was there all the while, or  *)
(* to a folder above it.                                                    *)
WalkInv(t) ==
    trees[t].pc = "walk" =>
        \A f \in trees[t].stable :
            /\ disk[f] # NoFile
            /\ \/ f \in trees[t].ahead
               \/ trees[t].listed[f] = row[f]
               \/ \E i \in 1 .. Len(Path[f]) : Path[f][i] \in trees[t].ahead

Opened(u) == uploads[u].pc \in {"receive", "digest", "exists", "insert", "remove"}

SameFile(u, v) == uploads[u].file = uploads[v].file

(* An upload that nobody interferes with is the only one to have its file   *)
(* open.                                                                    *)
FreshInv(u) ==
    /\ uploads[u].pc \notin {"idle", "mkdir", "open"}
    /\ uploads[u].pc \in {"exists", "insert"} => disk[uploads[u].file] = u
    /\ uploads[u].answer = 1 =>
          uploads[u].pc = "done" /\ disk[uploads[u].file] = u /\ row[uploads[u].file] = u
    /\ \A v \in Upload : Opened(v) /\ SameFile(u, v) => u = v

UploadInv ==
    /\ \A u, v \in Upload : Active(u) /\ Active(v) /\ SameFile(u, v) => u = v
    /\ \A u \in Upload : uploads[u].answer = 1 => uploads[u].pc = "done"
    /\ \A u \in fresh : FreshInv(u)

AInv ==
    /\ AccountInv
    /\ \A t \in Tree : WalkInv(t)
    /\ UploadInv

-----------------------------------------------------------------------------
(* Files, folders and the states of a handler.                              *)

LEMMA Paths ==
  ASSUME NEW x \in Entry
  PROVE  /\ Path[x] \in Seq(Folder) /\ Len(Path[x]) \in Nat
         /\ \A i \in 1 .. Len(Path[x]) :
               Path[x][i] \in Folder /\ Path[Path[x][i]] = SubSeq(Path[x], 1, i - 1)
  BY PathAssumption DEF Entry

(* Nothing that a folder holds has vanished.                                *)
LEMMA EntriesExist ==
  ASSUME IInv, NEW d
  PROVE  Entries(d) \subseteq Entry /\ Entries(d) \cap Folder \subseteq folders
  BY PathAssumption DEF IInv, TypeOK, Entries, Entry

LEMMA NoTreeType == NoTree \in TreeState /\ NoTree.pc = "idle"
<1>1. Attempts \in 1 .. Attempts
  BY RequestsAssumption
<1> QED
  BY <1>1 DEF NoTree, TreeState

LEMMA FirstAttempt ==
  ASSUME IInv, NEW t \in Tree
  PROVE  /\ Attempt(t, Attempts, TRUE) \in TreeState
         /\ Attempt(t, Attempts, TRUE).pc = "walk" /\ Attempt(t, Attempts, TRUE).left = Attempts
         /\ Attempt(t, Attempts, TRUE).ahead = Entries(Home)
         /\ Attempt(t, Attempts, TRUE).stable = {f \in File : disk[f] \in Version}
         /\ Attempt(t, Attempts, TRUE).gone = 0
<1> DEFINE s == Attempt(t, Attempts, TRUE)
           listed == [f \in File |-> NoFile]
           stable == {f \in File : disk[f] \in Version}
           ahead == Entries(Home)
<1>1. trees[t] \in TreeState /\ Entries(Home) \subseteq Entry /\ Attempts \in 1 .. Attempts
  BY EntriesExist, RequestsAssumption DEF IInv, TypeOK
<1>2. s = [trees[t] EXCEPT !.pc = "walk", !.left = Attempts, !.ahead = ahead,
                           !.listed = listed, !.stable = stable, !.gone = 0]
  BY <1>1 DEF Attempt, TreeState
<1>3. /\ listed \in [File -> Version \cup {NoRow, NoFile}]
      /\ stable \in SUBSET File /\ ahead \in SUBSET (File \cup Folder) /\ 0 \in Nat
  BY <1>1 DEF TreeState, Entry
<1> HIDE DEF s, listed, stable, ahead
<1>4. /\ s \in TreeState /\ s.pc = "walk" /\ s.left = Attempts /\ s.ahead = ahead
      /\ s.stable = stable /\ s.gone = 0
  BY <1>1, <1>2, <1>3 DEF TreeState
<1> QED
  BY <1>4 DEF s, stable, ahead

LEMMA NextAttempt ==
  ASSUME IInv, NEW t \in Tree, NEW left \in 1 .. Attempts
  PROVE  /\ Attempt(t, left, FALSE) \in TreeState
         /\ Attempt(t, left, FALSE).pc = "walk" /\ Attempt(t, left, FALSE).left = left
         /\ Attempt(t, left, FALSE).ahead = Entries(Home)
         /\ Attempt(t, left, FALSE).stable = trees[t].stable
         /\ Attempt(t, left, FALSE).gone = trees[t].gone
<1> DEFINE s == Attempt(t, left, FALSE)
           listed == [f \in File |-> NoFile]
           stable == trees[t].stable
           ahead == Entries(Home)
<1>1. trees[t] \in TreeState /\ Entries(Home) \subseteq Entry
  BY EntriesExist DEF IInv, TypeOK
<1>2. s = [trees[t] EXCEPT !.pc = "walk", !.left = left, !.ahead = ahead,
                           !.listed = listed, !.stable = stable, !.gone = trees[t].gone]
  BY <1>1 DEF Attempt, TreeState
<1>3. /\ listed \in [File -> Version \cup {NoRow, NoFile}]
      /\ stable \in SUBSET File /\ ahead \in SUBSET (File \cup Folder) /\ trees[t].gone \in Nat
  BY <1>1 DEF TreeState, Entry
<1> HIDE DEF s, listed, stable, ahead
<1>4. /\ s \in TreeState /\ s.pc = "walk" /\ s.left = left /\ s.ahead = ahead
      /\ s.stable = stable /\ s.gone = trees[t].gone
  BY <1>1, <1>2, <1>3 DEF TreeState
<1> QED
  BY <1>4 DEF s, stable, ahead

(* The file a removal is at.                                                *)
LEMMA Listed ==
  ASSUME IInv, NEW r \in Removal, removals[r].pc \notin {"done", "thrown"}
  PROVE  /\ FileOf(r) \in File /\ removals[r].next \in 1 .. Len(List[r])
         /\ Len(List[r]) \in Nat
<1>1. removals[r].next \in 1 .. Len(List[r]) /\ List[r] \in Seq(File)
  BY RequestsAssumption DEF IInv, RemovalInv
<1> QED
  BY <1>1 DEF FileOf

-----------------------------------------------------------------------------
(* The initial states.                                                      *)
LEMMA InitInv == Init => IInv
<1> SUFFICES ASSUME Init PROVE IInv
  OBVIOUS
<1>1. PICK b \in BOOLEAN, stored \in SUBSET File :
        /\ home = b /\ known = b
        /\ hasTable \in IF "halfway" \in Trouble /\ stored = {} THEN {FALSE, b} ELSE {b}
        /\ ~b => stored = {}
        /\ folders = AllAbove(stored)
        /\ disk = [f \in File |-> IF f \in stored THEN Old ELSE NoFile]
        /\ row = [f \in File |-> IF f \in stored THEN Old ELSE NoRow]
  BY DEF Init
<1>2. TypeOK
  <2>1. /\ disk \in [File -> Version \cup {Partial, NoFile}]
        /\ row \in [File -> Version \cup {NoRow}]
        /\ folders \subseteq Folder /\ hasTable \in BOOLEAN
    BY <1>1 DEF Version, AllAbove
  <2>2. trees \in [Tree -> TreeState]
    BY NoTreeType DEF Init
  <2>3. removals \in [Removal -> RemovalState]
    BY DEF Init, RemovalState, NoRemoval
  <2>4. uploads \in [Upload -> UploadState]
    BY RequestsAssumption DEF Init, UploadState
  <2> QED
    BY <1>1, <2>1, <2>2, <2>3, <2>4 DEF Init, TypeOK
<1>3. \A r \in Removal : RemovalInv(r)
  <2> SUFFICES ASSUME NEW r \in Removal PROVE RemovalInv(r)
    OBVIOUS
  <2>1. removals[r] = NoRemoval("idle") /\ List[r] \in Seq(File) /\ List[r] # <<>>
    BY RequestsAssumption DEF Init
  <2>2. 1 \in 1 .. Len(List[r])
    BY <2>1
  <2> QED
    BY <2>1, <2>2 DEF RemovalInv, NoRemoval
<1>4. PathInv
  <2>1. ASSUME NEW f \in File, disk[f] # NoFile PROVE Reachable(f)
    <3>1. f \in stored
      BY <1>1, <2>1
    <3> QED
      BY <1>1, <3>1, Paths DEF Reachable, AllAbove, Entry
  <2>2. ASSUME NEW d \in folders PROVE Reachable(d)
    <3>0. PICK f \in stored : d \in Folder /\ \E i \in 1 .. Len(Path[f]) : Path[f][i] = d
      BY <1>1, <2>2 DEF AllAbove
    <3>1. PICK i \in 1 .. Len(Path[f]) : Path[f][i] = d
      BY <3>0
    <3>2. Path[f] \in Seq(Folder) /\ Len(Path[f]) \in Nat /\ Path[d] = SubSeq(Path[f], 1, i - 1)
      BY <3>1, Paths DEF Entry
    <3>3. ASSUME NEW j \in 1 .. Len(Path[d])
          PROVE  Path[d][j] \in Folder /\ j \in 1 .. Len(Path[f]) /\ Path[d][j] = Path[f][j]
      BY <3>1, <3>2
    <3> QED
      BY <1>1, <3>3 DEF Reachable, AllAbove
  <2> QED
    BY <2>1, <2>2 DEF PathInv
<1>5. \A t \in Tree : AttemptInv(t)
  BY NoTreeType DEF Init, AttemptInv
<1> QED
  BY <1>2, <1>3, <1>4, <1>5 DEF IInv

-----------------------------------------------------------------------------
(* What the steps preserve.                                                 *)

(* The other steps leave every walk as it is, or note more about it.        *)
SameTrees ==
    /\ trees' \in [Tree -> TreeState]
    /\ \A t \in Tree :
          /\ trees'[t].pc = trees[t].pc /\ trees'[t].left = trees[t].left
          /\ trees'[t].ahead = trees[t].ahead /\ trees'[t].listed = trees[t].listed
          /\ trees'[t].stable \subseteq trees[t].stable /\ trees'[t].gone >= trees[t].gone

LEMMA Unchanged == IInv /\ UNCHANGED trees => SameTrees
  BY DEF IInv, TypeOK, SameTrees, TreeState

LEMMA Touched ==
  ASSUME IInv, NEW f \in File, trees' = TreesTouched(f)
  PROVE  SameTrees /\ \A t \in Tree : f \notin trees'[t].stable
<1>1. ASSUME NEW t \in Tree
      PROVE  /\ trees'[t] \in TreeState
             /\ trees'[t].pc = trees[t].pc /\ trees'[t].left = trees[t].left
             /\ trees'[t].ahead = trees[t].ahead /\ trees'[t].listed = trees[t].listed
             /\ trees'[t].gone = trees[t].gone
             /\ trees'[t].stable = trees[t].stable \ {f}
  <2>1. trees'[t] = [trees[t] EXCEPT !.stable = @ \ {f}] /\ trees[t] \in TreeState
    BY DEF TreesTouched, IInv, TypeOK
  <2> QED
    BY <2>1 DEF TreeState
<1>2. trees' \in [Tree -> TreeState]
  BY <1>1 DEF TreesTouched
<1>3. \A t \in Tree : trees'[t].gone >= trees[t].gone
  BY <1>1 DEF TreeState
<1> QED
  BY <1>1, <1>2, <1>3 DEF SameTrees

LEMMA AttemptsKept ==
  ASSUME IInv, SameTrees, folders \subseteq folders'
  PROVE  \A t \in Tree : AttemptInv(t)'
<1> SUFFICES ASSUME NEW t \in Tree, trees'[t].pc = "walk" PROVE AttemptInv(t)'
  BY DEF AttemptInv
<1>1. AttemptInv(t) /\ trees[t] \in TreeState /\ trees'[t] \in TreeState
  BY DEF IInv, TypeOK, SameTrees
<1>2. /\ trees[t].pc = "walk" /\ trees'[t].left = trees[t].left
      /\ trees'[t].gone >= trees[t].gone
      /\ VanishedAhead(t)' => VanishedAhead(t)
  BY DEF SameTrees, VanishedAhead
<1>3. /\ trees[t].left \in 1 .. Attempts /\ trees[t].gone \in Nat
      /\ trees'[t].gone \in Nat /\ Attempts \in Nat
  BY <1>1, RequestsAssumption DEF TreeState
<1> QED
  BY <1>1, <1>2, <1>3 DEF AttemptInv

LEMMA PathsKept ==
  ASSUME IInv, UNCHANGED folders,
         \A f \in File : disk'[f] # NoFile => disk[f] # NoFile
  PROVE  PathInv'
  BY DEF IInv, PathInv, Reachable

(* What lies in a folder that exists can be reached.                        *)
LEMMA ParentReaches ==
  ASSUME IInv, NEW x \in Entry, Exists(ParentOf(x))
  PROVE  Reachable(x)
<1>1. /\ Path[x] \in Seq(Folder) /\ Len(Path[x]) \in Nat
      /\ \A i \in 1 .. Len(Path[x]) :
            Path[x][i] \in Folder /\ Path[Path[x][i]] = SubSeq(Path[x], 1, i - 1)
  BY Paths
<1>2. CASE Path[x] = <<>>
  BY <1>2 DEF Reachable
<1>3. CASE Path[x] # <<>>
  <2> DEFINE n == Len(Path[x])
             d == Path[x][n]
  <2>1. n \in 1 .. n /\ d \in Folder /\ Path[d] = SubSeq(Path[x], 1, n - 1)
    BY <1>1, <1>3
  <2>2. d \in folders
    BY <1>3, <2>1, PathAssumption DEF ParentOf, Exists
  <2>3. Reachable(d)
    BY <2>2 DEF IInv, PathInv
  <2>4. ASSUME NEW i \in 1 .. n PROVE Path[x][i] \in folders
    <3>1. CASE i = n
      BY <2>2, <3>1
    <3>2. CASE i # n
      <4>1. i \in 1 .. Len(Path[d]) /\ Path[d][i] = Path[x][i]
        BY <1>1, <2>1, <3>2
      <4> QED
        BY <2>3, <4>1 DEF Reachable
    <3> QED
      BY <3>1, <3>2
  <2> QED
    BY <2>4 DEF Reachable
<1> QED
  BY <1>2, <1>3

-----------------------------------------------------------------------------
(* The steps of message 2.                                                  *)

LEMMA TreeStepInv ==
  ASSUME IInv, NEW t \in Tree, NEW s \in TreeState,
         trees' = [trees EXCEPT ![t] = s], UNCHANGED <<folders, disk, removals, uploads, fresh>>,
         alive' \in BOOLEAN, home' \in BOOLEAN, hasTable' \in BOOLEAN, known' \in BOOLEAN,
         row' \in [File -> Version \cup {NoRow}],
         s.pc = "walk" =>
            /\ Attempts - s.left <= s.gone
            /\ (\E d \in s.ahead : d \in Folder \ folders) => Attempts - s.left < s.gone
  PROVE  IInv'
<1>1. TypeOK'
  BY DEF IInv, TypeOK
<1>2. ASSUME NEW q \in Tree PROVE AttemptInv(q)'
  <2>1. CASE q = t
    <3>1. trees'[q] = s
      BY <2>1 DEF IInv, TypeOK
    <3> QED
      BY <3>1 DEF AttemptInv, VanishedAhead
  <2>2. CASE q # t
    <3>1. trees'[q] = trees[q] /\ AttemptInv(q)
      BY <2>2 DEF IInv, TypeOK
    <3> QED
      BY <3>1 DEF AttemptInv, VanishedAhead
  <2> QED
    BY <2>1, <2>2
<1>3. PathInv' /\ \A r \in Removal : RemovalInv(r)'
  BY DEF IInv, PathInv, Reachable, RemovalInv
<1> QED
  BY <1>1, <1>2, <1>3 DEF IInv

(* A handler that is not walking.                                           *)
LEMMA TreeGoesInv ==
  ASSUME IInv, NEW t \in Tree, NEW pc \in {"exists", "create", "table"}, TreeGoes(t, pc),
         UNCHANGED <<alive, hasTable, known, folders, disk, row, removals, uploads, fresh>>,
         home' \in BOOLEAN
  PROVE  IInv'
<1> DEFINE s == [trees[t] EXCEPT !.pc = pc]
<1>1. trees \in [Tree -> TreeState] /\ trees[t] \in TreeState
  BY DEF IInv, TypeOK
<1>2. s \in TreeState /\ s.pc = pc
  BY <1>1 DEF TreeState
<1>3. trees' = [trees EXCEPT ![t] = s]
  BY <1>1 DEF TreeGoes
<1> HIDE DEF s
<1> QED
  BY <1>2, <1>3, TreeStepInv DEF IInv, TypeOK

(* The handler begins its first attempt, or another one.                    *)
LEMMA AttemptBegins ==
  ASSUME IInv, NEW t \in Tree, NEW s \in TreeState, trees' = [trees EXCEPT ![t] = s],
         UNCHANGED <<folders, disk, removals, uploads, fresh>>,
         alive' \in BOOLEAN, home' \in BOOLEAN, hasTable' \in BOOLEAN, known' \in BOOLEAN,
         row' \in [File -> Version \cup {NoRow}],
         s.ahead = Entries(Home), Attempts - s.left <= s.gone
  PROVE  IInv'
<1>1. ~ \E d \in s.ahead : d \in Folder \ folders
  BY EntriesExist
<1> QED
  BY <1>1, TreeStepInv

LEMMA TreeAnswersInv ==
  ASSUME IInv, NEW t \in Tree, TreeAnswers(t), UNCHANGED alive
  PROVE  IInv'
<1> DEFINE s == [NoTree EXCEPT !.pc = "done"]
<1>1. s \in TreeState /\ s.pc = "done"
  BY NoTreeType DEF TreeState
<1>2. trees' = [trees EXCEPT ![t] = s]
  BY DEF TreeAnswers
<1> HIDE DEF s
<1> QED
  BY <1>1, <1>2, TreeStepInv DEF TreeAnswers, IInv, TypeOK

LEMMA ExitsInv == IInv /\ Exits => IInv'
  BY DEF IInv, TypeOK, Exits, account, RemovalInv, PathInv, Reachable, AttemptInv, VanishedAhead

(* The state of a walk after a file.                                        *)
LEMMA ListedState ==
  ASSUME IInv, NEW t \in Tree, NEW f \in File,
         trees' = [trees EXCEPT ![t].ahead = @ \ {f}, ![t].listed[f] = row[f]]
  PROVE  /\ trees' = [trees EXCEPT ![t] = trees'[t]] /\ trees'[t] \in TreeState
         /\ trees'[t].pc = trees[t].pc /\ trees'[t].left = trees[t].left
         /\ trees'[t].gone = trees[t].gone /\ trees'[t].stable = trees[t].stable
         /\ trees'[t].ahead = trees[t].ahead \ {f}
         /\ trees'[t].listed = [trees[t].listed EXCEPT ![f] = row[f]]
<1> DEFINE listed == [trees[t].listed EXCEPT ![f] = row[f]]
           ahead == trees[t].ahead \ {f}
<1>1. trees \in [Tree -> TreeState] /\ trees[t] \in TreeState
      /\ row[f] \in Version \cup {NoRow, NoFile}
  BY DEF IInv, TypeOK
<1>2. /\ listed \in [File -> Version \cup {NoRow, NoFile}]
      /\ ahead \in SUBSET (File \cup Folder)
  BY <1>1 DEF TreeState
<1>3. trees' = [trees EXCEPT ![t] = [trees[t] EXCEPT !.ahead = ahead, !.listed = listed]]
  BY <1>1
<1> HIDE DEF listed, ahead
<1>4. trees'[t] = [trees[t] EXCEPT !.ahead = ahead, !.listed = listed]
  BY <1>1, <1>3
<1>5. /\ trees'[t] \in TreeState
      /\ trees'[t].pc = trees[t].pc /\ trees'[t].left = trees[t].left
      /\ trees'[t].gone = trees[t].gone /\ trees'[t].stable = trees[t].stable
      /\ trees'[t].ahead = ahead /\ trees'[t].listed = listed
  BY <1>1, <1>2, <1>4 DEF TreeState
<1> QED
  BY <1>3, <1>4, <1>5 DEF listed, ahead

LEMMA TreeListsFileInv ==
  ASSUME IInv, NEW t \in Tree, TreeListsFile(t)
  PROVE  IInv'
<1>1. CASE Exits
  BY <1>1, ExitsInv
<1>2. ASSUME NEW f \in File,
             trees' = [trees EXCEPT ![t].ahead = @ \ {f}, ![t].listed[f] = row[f]],
             UNCHANGED <<alive, account, folders, disk, row, removals, uploads, fresh>>
      PROVE  IInv'
  <2>1. /\ trees' = [trees EXCEPT ![t] = trees'[t]] /\ trees'[t] \in TreeState
        /\ trees'[t].pc = trees[t].pc /\ trees'[t].left = trees[t].left
        /\ trees'[t].gone = trees[t].gone
        /\ trees'[t].ahead = trees[t].ahead \ {f}
    BY <1>2, ListedState
  <2>2. TypeOK /\ AttemptInv(t)
    BY DEF IInv
  <2>3. TypeOK'
    BY <1>2, <2>1, <2>2 DEF TypeOK, account
  <2>4. ASSUME NEW q \in Tree PROVE AttemptInv(q)'
    <3>1. q # t => trees'[q] = trees[q] /\ AttemptInv(q)
      BY <2>1, <2>2 DEF IInv, TypeOK
    <3> QED
      BY <1>2, <2>1, <2>2, <3>1 DEF AttemptInv, VanishedAhead
  <2>5. PathInv' /\ \A r \in Removal : RemovalInv(r)'
    BY <1>2 DEF IInv, PathInv, Reachable, RemovalInv
  <2> QED
    BY <2>3, <2>4, <2>5 DEF IInv
<1> QED
  BY <1>1, <1>2 DEF TreeListsFile

(* The state of a walk after a folder.                                      *)
LEMMA OpenedState ==
  ASSUME IInv, NEW t \in Tree, NEW d,
         trees' = [trees EXCEPT ![t].ahead = (@ \ {d}) \cup Entries(d)]
  PROVE  /\ trees' = [trees EXCEPT ![t] = trees'[t]] /\ trees'[t] \in TreeState
         /\ trees'[t].pc = trees[t].pc /\ trees'[t].left = trees[t].left
         /\ trees'[t].gone = trees[t].gone /\ trees'[t].stable = trees[t].stable
         /\ trees'[t].ahead = (trees[t].ahead \ {d}) \cup Entries(d)
         /\ trees'[t].listed = trees[t].listed
<1> DEFINE ahead == (trees[t].ahead \ {d}) \cup Entries(d)
<1>1. trees \in [Tree -> TreeState] /\ trees[t] \in TreeState /\ Entries(d) \subseteq Entry
  BY EntriesExist DEF IInv, TypeOK
<1>2. ahead \in SUBSET (File \cup Folder)
  BY <1>1 DEF TreeState, Entry
<1>3. trees' = [trees EXCEPT ![t] = [trees[t] EXCEPT !.ahead = ahead]]
  BY <1>1
<1> HIDE DEF ahead
<1>4. trees'[t] = [trees[t] EXCEPT !.ahead = ahead]
  BY <1>1, <1>3
<1>5. /\ trees'[t] \in TreeState
      /\ trees'[t].pc = trees[t].pc /\ trees'[t].left = trees[t].left
      /\ trees'[t].gone = trees[t].gone /\ trees'[t].stable = trees[t].stable
      /\ trees'[t].ahead = ahead /\ trees'[t].listed = trees[t].listed
  BY <1>1, <1>2, <1>4 DEF TreeState
<1> QED
  BY <1>3, <1>4, <1>5 DEF ahead

LEMMA TreeOpensFolderInv ==
  ASSUME IInv, NEW t \in Tree, TreeOpensFolder(t)
  PROVE  IInv'
<1>1. PICK d \in folders : trees' = [trees EXCEPT ![t].ahead = (@ \ {d}) \cup Entries(d)]
  BY DEF TreeOpensFolder
<1>2. UNCHANGED <<alive, account, folders, disk, row, removals, uploads, fresh>>
  BY DEF TreeOpensFolder
<1>3. /\ trees' = [trees EXCEPT ![t] = trees'[t]] /\ trees'[t] \in TreeState
      /\ trees'[t].pc = trees[t].pc /\ trees'[t].left = trees[t].left
      /\ trees'[t].gone = trees[t].gone
      /\ trees'[t].ahead = (trees[t].ahead \ {d}) \cup Entries(d)
  BY <1>1, OpenedState
<1>4. TypeOK /\ AttemptInv(t) /\ Entries(d) \cap Folder \subseteq folders
  BY EntriesExist DEF IInv
<1>5. TypeOK'
  BY <1>2, <1>3, <1>4 DEF TypeOK, account
<1>6. ASSUME NEW q \in Tree PROVE AttemptInv(q)'
  <2>1. q # t => trees'[q] = trees[q] /\ AttemptInv(q)
    BY <1>3, <1>4 DEF IInv, TypeOK
  <2> QED
    BY <1>2, <1>3, <1>4, <2>1 DEF AttemptInv, VanishedAhead
<1>7. PathInv' /\ \A r \in Removal : RemovalInv(r)'
  BY <1>2 DEF IInv, PathInv, Reachable, RemovalInv
<1> QED
  BY <1>5, <1>6, <1>7 DEF IInv

(* A handler begins its walk, or begins it again.                           *)
LEMMA FirstInv ==
  ASSUME IInv, NEW t \in Tree, trees' = [trees EXCEPT ![t] = Attempt(t, Attempts, TRUE)],
         UNCHANGED <<alive, home, known, folders, disk, removals, uploads, fresh>>,
         hasTable' \in BOOLEAN, row' \in [File -> Version \cup {NoRow}]
  PROVE  IInv'
<1> DEFINE s == Attempt(t, Attempts, TRUE)
<1>1. s \in TreeState /\ s.left = Attempts /\ s.ahead = Entries(Home) /\ s.gone = 0
  BY FirstAttempt
<1>2. trees' = [trees EXCEPT ![t] = s]
  OBVIOUS
<1>3. alive' \in BOOLEAN /\ home' \in BOOLEAN /\ known' \in BOOLEAN
  BY DEF IInv, TypeOK
<1> HIDE DEF s
<1>4. Attempts - s.left <= s.gone
  BY <1>1, RequestsAssumption
<1> QED
  BY <1>1, <1>2, <1>3, <1>4, AttemptBegins

LEMMA TreeRetriesInv ==
  ASSUME IInv, NEW t \in Tree, TreeRetries(t)
  PROVE  IInv'
<1> DEFINE left == trees[t].left - 1
           s == Attempt(t, left, FALSE)
<1>1. /\ trees[t] \in TreeState /\ AttemptInv(t) /\ trees[t].pc = "walk" /\ VanishedAhead(t)
      /\ trees[t].left > 1
  BY DEF TreeRetries, IInv, TypeOK
<1>2. left \in 1 .. Attempts /\ Attempts - left <= trees[t].gone
  BY <1>1, RequestsAssumption DEF TreeState, AttemptInv
<1>3. /\ trees' = [trees EXCEPT ![t] = s]
      /\ UNCHANGED <<alive, home, hasTable, known, folders, disk, row, removals, uploads, fresh>>
  BY DEF TreeRetries, account
<1> HIDE DEF left
<1>4. s \in TreeState /\ s.left = left /\ s.ahead = Entries(Home) /\ s.gone = trees[t].gone
  BY <1>2, NextAttempt
<1>5. /\ alive' \in BOOLEAN /\ home' \in BOOLEAN /\ hasTable' \in BOOLEAN /\ known' \in BOOLEAN
      /\ row' \in [File -> Version \cup {NoRow}]
  BY <1>3 DEF IInv, TypeOK
<1> HIDE DEF s
<1> QED
  BY <1>2, <1>3, <1>4, <1>5, AttemptBegins

LEMMA TreeInvKept ==
  ASSUME IInv, NEW t \in Tree, TreeArrives(t) \/ TreeStep(t)
  PROVE  IInv'
<1>1. ASSUME TreeArrives(t) PROVE IInv'
  BY <1>1, TreeGoesInv DEF TreeArrives, IInv, TypeOK, account
<1>2. ASSUME TreeCreatesFolder(t) PROVE IInv'
  BY <1>2, TreeGoesInv DEF TreeCreatesFolder
<1>3. ASSUME TreeChecksFolder(t) PROVE IInv'
  <2>1. CASE TreeGoes(t, "create")
    BY <1>3, <2>1, TreeGoesInv DEF TreeChecksFolder, IInv, TypeOK, account
  <2>2. CASE trees' = [trees EXCEPT ![t] = Attempt(t, Attempts, TRUE)]
    BY <1>3, <2>2, FirstInv DEF TreeChecksFolder, IInv, TypeOK, account
  <2> QED
    BY <1>3, <2>1, <2>2 DEF TreeChecksFolder
<1>4. ASSUME CreateTable(t) PROVE IInv'
  <2>1. hasTable' \in BOOLEAN /\ row' \in [File -> Version \cup {NoRow}]
    BY <1>4 DEF CreateTable
  <2> QED
    BY <1>4, <2>1, FirstInv DEF CreateTable
<1>5. ASSUME TreeGivesUp(t) \/ TreeIsDone(t) PROVE IInv'
  BY <1>5, TreeAnswersInv DEF TreeGivesUp, TreeIsDone, TreeAnswers
<1>6. ASSUME TreeListsFile(t) \/ TreeOpensFolder(t) \/ TreeRetries(t) PROVE IInv'
  BY <1>6, TreeRetriesInv, TreeListsFileInv, TreeOpensFolderInv
<1> QED
  BY <1>1, <1>2, <1>3, <1>4, <1>5, <1>6 DEF TreeStep

-----------------------------------------------------------------------------
(* The steps of message 3.                                                  *)

LEMMA RemovalStepInv ==
  ASSUME IInv, NEW r \in Removal, NEW s \in RemovalState,
         removals' = [removals EXCEPT ![r] = s], UNCHANGED <<alive, account, uploads>>,
         s.pc \notin {"done", "thrown"} => s.next \in 1 .. Len(List[r]),
         s.pc \in {"empty", "rmdir"} => s.level > 0,
         folders' \subseteq Folder, fresh' \subseteq Upload,
         disk' \in [File -> Version \cup {Partial, NoFile}],
         row' \in [File -> Version \cup {NoRow}],
         trees' \in [Tree -> TreeState], PathInv', \A t \in Tree : AttemptInv(t)'
  PROVE  IInv'
<1>1. TypeOK'
  BY DEF IInv, TypeOK, account
<1>2. ASSUME NEW q \in Removal PROVE RemovalInv(q)'
  <2>1. CASE q = r
    <3>1. removals'[q] = s
      BY <2>1 DEF IInv, TypeOK
    <3> QED
      BY <2>1, <3>1 DEF RemovalInv
  <2>2. CASE q # r
    <3>1. removals'[q] = removals[q] /\ RemovalInv(q)
      BY <2>2 DEF IInv, TypeOK
    <3> QED
      BY <3>1 DEF RemovalInv
  <2> QED
    BY <2>1, <2>2
<1> QED
  BY <1>1, <1>2 DEF IInv

(* A step that only moves the place of the handler.                         *)
LEMMA RemovalMovesInv ==
  ASSUME IInv, NEW r \in Removal, NEW s \in RemovalState,
         removals' = [removals EXCEPT ![r] = s],
         UNCHANGED <<alive, account, folders, disk, row, trees, uploads, fresh>>,
         s.pc \notin {"done", "thrown"} => s.next \in 1 .. Len(List[r]),
         s.pc \in {"empty", "rmdir"} => s.level > 0
  PROVE  IInv'
<1>1. SameTrees
  BY Unchanged
<1>2. PathInv' /\ \A t \in Tree : AttemptInv(t)'
  BY <1>1, PathsKept, AttemptsKept
<1> QED
  BY <1>2, RemovalStepInv DEF IInv, TypeOK

LEMMA RemovalGoesInv ==
  ASSUME IInv, NEW r \in Removal, removals[r].pc \notin {"done", "thrown"},
         NEW pc \in {"unlink", "exists", "empty", "rmdir", "row"}, RemovalGoes(r, pc),
         pc \in {"empty", "rmdir"} => removals[r].level > 0,
         UNCHANGED <<alive, account, folders, disk, row, trees, uploads, fresh>>
  PROVE  IInv'
<1> DEFINE s == [removals[r] EXCEPT !.pc = pc]
<1>1. 0 \in Nat
  OBVIOUS
<1>2. /\ removals[r].next \in 1 .. Len(List[r]) /\ s \in RemovalState
      /\ s.pc = pc /\ s.next = removals[r].next /\ s.level = removals[r].level
  BY <1>1, Listed DEF RemovalState, IInv, TypeOK
<1>3. removals' = [removals EXCEPT ![r] = s]
  BY DEF RemovalGoes, IInv, TypeOK
<1> HIDE DEF s
<1> QED
  BY <1>2, <1>3, RemovalMovesInv

LEMMA RemovalLeavesInv ==
  ASSUME IInv, NEW r \in Removal, removals[r].pc \notin {"done", "thrown"},
         RemovalLeavesFolders(r),
         UNCHANGED <<alive, account, folders, disk, row, trees, uploads, fresh>>
  PROVE  IInv'
<1> DEFINE s == [removals[r] EXCEPT !.pc = "row", !.level = 0]
<1>1. 0 \in Nat
  OBVIOUS
<1>2. /\ removals[r].next \in 1 .. Len(List[r]) /\ s \in RemovalState
      /\ s.pc = "row" /\ s.next = removals[r].next
  BY <1>1, Listed DEF RemovalState, IInv, TypeOK
<1>3. removals' = [removals EXCEPT ![r] = s]
  BY DEF RemovalLeavesFolders, IInv, TypeOK
<1> HIDE DEF s
<1> QED
  BY <1>2, <1>3, RemovalMovesInv

LEMMA RemovesFileInv ==
  ASSUME IInv, NEW r \in Removal, RemovesFile(r)
  PROVE  IInv'
<1> DEFINE level == Len(Path[FileOf(r)])
           s == [removals[r] EXCEPT !.pc = "exists", !.level = level]
<1>1. FileOf(r) \in File /\ removals[r].pc = "unlink"
  BY Listed DEF RemovesFile
<1>2. level \in Nat
  BY <1>1, Paths DEF Entry
<1>3. removals' = [removals EXCEPT ![r] = s]
  BY DEF RemovesFile, IInv, TypeOK
<1> HIDE DEF level
<1>4. /\ removals[r].next \in 1 .. Len(List[r]) /\ s \in RemovalState
      /\ s.pc = "exists" /\ s.next = removals[r].next
  BY <1>1, <1>2, Listed DEF RemovalState, IInv, TypeOK
<1> HIDE DEF s
<1>5. SameTrees
  BY <1>1, Touched DEF RemovesFile
<1>6. /\ disk' = [disk EXCEPT ![FileOf(r)] = NoFile] /\ fresh' = FreshTouched(FileOf(r))
      /\ UNCHANGED <<alive, account, folders, row, uploads>>
  BY DEF RemovesFile
<1>7. /\ disk' \in [File -> Version \cup {Partial, NoFile}]
      /\ fresh' \subseteq Upload
      /\ \A f \in File : disk'[f] # NoFile => disk[f] # NoFile
  BY <1>1, <1>6 DEF IInv, TypeOK, FreshTouched
<1>8. PathInv' /\ \A t \in Tree : AttemptInv(t)'
  BY <1>5, <1>6, <1>7, PathsKept, AttemptsKept
<1> QED
  BY <1>3, <1>4, <1>5, <1>6, <1>7, <1>8, RemovalStepInv DEF IInv, TypeOK, SameTrees

LEMMA RemovesRowInv ==
  ASSUME IInv, NEW r \in Removal, RemovesRow(r)
  PROVE  IInv'
<1>1. CASE Exits
  BY <1>1, ExitsInv
<1>2. CASE hasTable
  <2> DEFINE f == FileOf(r)
  <2>1. f \in File /\ removals[r].pc = "row" /\ Len(List[r]) \in Nat
        /\ removals[r].next \in 1 .. Len(List[r])
    BY Listed DEF RemovesRow
  <2>2. /\ row' = [row EXCEPT ![f] = NoRow] /\ trees' = TreesTouched(f)
        /\ fresh' = FreshTouched(f) /\ UNCHANGED <<alive, account, folders, disk, uploads>>
    BY <1>2 DEF RemovesRow
  <2>3. SameTrees
    BY <2>1, <2>2, Touched
  <2>4. PathInv' /\ \A t \in Tree : AttemptInv(t)'
    BY <2>2, <2>3, PathsKept, AttemptsKept
  <2>5. /\ row' \in [File -> Version \cup {NoRow}] /\ fresh' \subseteq Upload
    BY <2>1, <2>2 DEF IInv, TypeOK, FreshTouched
  <2>6. \E s \in RemovalState :
          /\ removals' = [removals EXCEPT ![r] = s] /\ s.pc \notin {"empty", "rmdir"}
          /\ s.pc \notin {"done", "thrown"} => s.next \in 1 .. Len(List[r])
    <3>1. removals \in [Removal -> RemovalState] /\ removals[r] \in RemovalState
      BY DEF IInv, TypeOK
    <3>2. CASE removals[r].next = Len(List[r])
      <4>1. NoRemoval("done") \in RemovalState /\ NoRemoval("done").pc = "done"
        BY DEF NoRemoval, RemovalState
      <4> QED
        BY <1>2, <3>2, <4>1 DEF RemovesRow
    <3>3. CASE removals[r].next # Len(List[r])
      <4> DEFINE next == removals[r].next + 1
                 s == [removals[r] EXCEPT !.pc = "unlink", !.next = next]
      <4>1. next \in 1 .. Len(List[r]) /\ next \in Nat \ {0}
        BY <2>1, <3>3
      <4>2. removals' = [removals EXCEPT ![r] = s]
        BY <1>2, <3>1, <3>3 DEF RemovesRow
      <4> HIDE DEF next
      <4>3. s \in RemovalState /\ s.pc = "unlink" /\ s.next = next
        BY <3>1, <4>1 DEF RemovalState
      <4> HIDE DEF s
      <4> QED
        BY <4>1, <4>2, <4>3
    <3> QED
      BY <3>2, <3>3
  <2> QED
    BY <2>2, <2>3, <2>4, <2>5, <2>6, RemovalStepInv DEF IInv, TypeOK, SameTrees
<1> QED
  BY <1>1, <1>2 DEF RemovesRow

LEMMA Prefix ==
  ASSUME NEW S, NEW q \in Seq(S), NEW i \in 1 .. Len(q)
  PROVE  /\ Len(SubSeq(q, 1, i)) = i /\ SubSeq(q, 1, i)[i] = q[i]
         /\ SubSeq(q, 1, i) # <<>>
<1>1. Len(q) \in Nat /\ i \in Nat /\ 1 <= i /\ i <= Len(q)
  OBVIOUS
<1>2. Len(SubSeq(q, 1, i)) = i
  BY <1>1
<1>3. SubSeq(q, 1, i)[i] = q[i]
  BY <1>1
<1>4. SubSeq(q, 1, i) # <<>>
  BY <1>1, <1>2
<1> QED
  BY <1>2, <1>3, <1>4

(* Each folder on the path of something that exists holds the next one, and *)
(* the last of them the thing itself.                                       *)
LEMMA Below ==
  ASSUME IInv, NEW x \in Entry, Reachable(x), x \in File => disk[x] # NoFile,
         x \in Folder => x \in folders,
         NEW i \in 1 .. Len(Path[x])
  PROVE  \/ x \in Entries(Path[x][i])
         \/ i + 1 \in 1 .. Len(Path[x]) /\ Path[x][i + 1] \in Entries(Path[x][i])
<1> DEFINE n == Len(Path[x])
           d == Path[x][i]
<1>1. /\ Path[x] \in Seq(Folder) /\ n \in Nat
      /\ \A j \in 1 .. n : Path[x][j] \in Folder /\ Path[Path[x][j]] = SubSeq(Path[x], 1, j - 1)
  BY Paths
<1>2. CASE i = n
  <2>1. ParentOf(x) = d
    BY <1>1, <1>2 DEF ParentOf
  <2>2. x \in Entries(d)
    BY <2>1 DEF Entries, Entry
  <2> QED
    BY <2>2
<1>3. CASE i # n
  <2> DEFINE e == Path[x][i + 1]
  <2>1. i + 1 \in 1 .. n
    BY <1>1, <1>3
  <2>2. e \in folders /\ Path[e] = SubSeq(Path[x], 1, (i + 1) - 1)
    BY <1>1, <2>1 DEF Reachable
  <2>3. Path[e] = SubSeq(Path[x], 1, i) /\ i \in 1 .. n
    <3>1. (i + 1) - 1 = i
      OBVIOUS
    <3> QED
      BY <2>2, <3>1
  <2> HIDE DEF e
  <2>4. /\ Path[e] # <<>> /\ Len(Path[e]) = i /\ Path[e][i] = Path[x][i]
    BY <1>1, <2>3, Prefix
  <2>5. ParentOf(e) = d
    BY <2>4 DEF ParentOf
  <2>6. e \in Entries(d)
    BY <2>2, <2>5 DEF Entries
  <2> QED
    BY <2>1, <2>6 DEF e
<1> QED
  BY <1>2, <1>3

LEMMA RemovesFolderInv ==
  ASSUME IInv, NEW r \in Removal, RemovesFolder(r)
  PROVE  IInv'
<1> DEFINE d == FolderOf(r)
           level == removals[r].level - 1
           s == [removals[r] EXCEPT !.pc = "exists", !.level = level]
<1>1. /\ removals[r] \in RemovalState /\ removals[r].pc = "rmdir" /\ removals[r].level > 0
      /\ removals[r].next \in 1 .. Len(List[r]) /\ removals \in [Removal -> RemovalState]
  BY Listed DEF RemovesFolder, IInv, TypeOK, RemovalInv
<1>2. level \in Nat
  BY <1>1 DEF RemovalState
<1>3. removals' = [removals EXCEPT ![r] = s]
  BY <1>1 DEF RemovesFolder
<1> HIDE DEF level
<1>4. s \in RemovalState /\ s.pc = "exists" /\ s.next = removals[r].next
  BY <1>1, <1>2 DEF RemovalState
<1> HIDE DEF s
<1>5. /\ folders' = IF Entries(d) = {} THEN folders \ {d} ELSE folders
      /\ trees' = [t \in Tree |-> [trees[t] EXCEPT !.gone =
                      IF folders' # folders /\ trees[t].pc = "walk" THEN @ + 1 ELSE @]]
      /\ UNCHANGED <<alive, account, disk, row, uploads, fresh>>
  BY DEF RemovesFolder
<1>6. PathInv'
  <2>1. CASE folders' = folders
    BY <1>5, <2>1, PathsKept
  <2>2. CASE folders' # folders
    <3>1. Entries(d) = {} /\ folders' = folders \ {d}
      BY <1>5, <2>2
    <3>2. ASSUME NEW x \in Entry, Reachable(x), x \in File => disk[x] # NoFile,
                 x \in Folder => x \in folders
          PROVE  Reachable(x)'
      <4>1. \A i \in 1 .. Len(Path[x]) : Path[x][i] # d
        BY <3>1, <3>2, Below
      <4> QED
        BY <3>1, <3>2, <4>1 DEF Reachable
    <3>3. File \cap Folder = {} /\ folders \subseteq Folder /\ PathInv
      BY PathAssumption DEF IInv, TypeOK
    <3>4. ASSUME NEW f \in File, disk'[f] # NoFile PROVE Reachable(f)'
      BY <1>5, <3>2, <3>3, <3>4 DEF PathInv, Entry
    <3>5. ASSUME NEW e \in folders' PROVE Reachable(e)'
      BY <3>1, <3>2, <3>3 DEF PathInv, Entry
    <3> QED
      BY <3>4, <3>5 DEF PathInv
  <2> QED
    BY <2>1, <2>2
<1>7. ASSUME NEW t \in Tree
      PROVE  trees'[t] \in TreeState /\ AttemptInv(t)'
  <2> DEFINE gone == IF folders' # folders /\ trees[t].pc = "walk"
                       THEN trees[t].gone + 1 ELSE trees[t].gone
  <2>1. trees[t] \in TreeState /\ AttemptInv(t)
    BY DEF IInv, TypeOK
  <2>2. gone \in Nat /\ trees'[t] = [trees[t] EXCEPT !.gone = gone]
    BY <1>5, <2>1 DEF TreeState
  <2>3. folders' # folders /\ trees[t].pc = "walk" => gone = trees[t].gone + 1
    OBVIOUS
  <2>4. folders' = folders => gone = trees[t].gone
    OBVIOUS
  <2> HIDE DEF gone
  <2>5. /\ trees'[t] \in TreeState /\ trees'[t].pc = trees[t].pc
        /\ trees'[t].left = trees[t].left /\ trees'[t].ahead = trees[t].ahead
        /\ trees'[t].gone = gone
    BY <2>1, <2>2 DEF TreeState
  <2>6. trees[t].left \in 1 .. Attempts /\ trees[t].gone \in Nat /\ Attempts \in Nat
    BY <2>1, RequestsAssumption DEF TreeState
  <2>7. AttemptInv(t)'
    <3>1. CASE folders' = folders
      BY <2>1, <2>4, <2>5, <3>1 DEF AttemptInv, VanishedAhead
    <3>2. CASE folders' # folders
      BY <2>1, <2>3, <2>5, <2>6, <3>2 DEF AttemptInv
    <3> QED
      BY <3>1, <3>2
  <2> QED
    BY <2>5, <2>7
<1>8. trees' \in [Tree -> TreeState]
  BY <1>5, <1>7
<1>9. folders' \subseteq Folder
  BY <1>5 DEF IInv, TypeOK
<1> QED
  BY <1>1, <1>3, <1>4, <1>5, <1>6, <1>7, <1>8, <1>9, RemovalStepInv DEF IInv, TypeOK

LEMMA RemovalInvKept ==
  ASSUME IInv, NEW r \in Removal, RemovalArrives(r) \/ RemovalStep(r)
  PROVE  IInv'
<1>1. ASSUME RemovalArrives(r) PROVE IInv'
  BY <1>1, RemovalGoesInv DEF RemovalArrives
<1>2. ASSUME RemovalFindsParent(r) PROVE IInv'
  <2>1. removals[r].level \in Nat
    BY DEF IInv, TypeOK, RemovalState
  <2> QED
    BY <1>2, <2>1, RemovalGoesInv, RemovalLeavesInv DEF RemovalFindsParent
<1>3. ASSUME RemovalLooksInside(r) PROVE IInv'
  <2>1. removals[r].level > 0
    BY <1>3 DEF IInv, RemovalInv, RemovalLooksInside
  <2>2. CASE removals' = [removals EXCEPT ![r] = NoRemoval("thrown")]
    <3>1. NoRemoval("thrown") \in RemovalState /\ NoRemoval("thrown").pc = "thrown"
      BY DEF NoRemoval, RemovalState
    <3> QED
      BY <1>3, <2>2, <3>1, RemovalMovesInv DEF RemovalLooksInside
  <2>3. CASE RemovalGoes(r, "rmdir")
    BY <1>3, <2>1, <2>3, RemovalGoesInv DEF RemovalLooksInside
  <2>4. CASE RemovalLeavesFolders(r)
    BY <1>3, <2>4, RemovalLeavesInv DEF RemovalLooksInside
  <2> QED
    BY <1>3, <2>2, <2>3, <2>4 DEF RemovalLooksInside
<1>4. ASSUME RemovesFile(r) \/ RemovesFolder(r) \/ RemovesRow(r) PROVE IInv'
  BY <1>4, RemovesFileInv, RemovesFolderInv, RemovesRowInv
<1> QED
  BY <1>1, <1>2, <1>3, <1>4 DEF RemovalStep

-----------------------------------------------------------------------------
(* The steps of an upload.                                                  *)

LEMMA UploadStepInv ==
  ASSUME IInv, UNCHANGED <<account, removals>>, SameTrees, PathInv',
         folders \subseteq folders', folders' \subseteq Folder, alive' \in BOOLEAN,
         uploads' \in [Upload -> UploadState], fresh' \subseteq Upload,
         disk' \in [File -> Version \cup {Partial, NoFile}],
         row' \in [File -> Version \cup {NoRow}]
  PROVE  IInv'
<1>1. \A t \in Tree : AttemptInv(t)'
  BY AttemptsKept
<1>2. \A r \in Removal : RemovalInv(r)'
  BY DEF IInv, RemovalInv
<1>3. TypeOK'
  BY DEF IInv, TypeOK, account, SameTrees
<1> QED
  BY <1>1, <1>2, <1>3 DEF IInv

(* A step that leaves the folders and adds no file.                         *)
LEMMA UploadPlainInv ==
  ASSUME IInv, UNCHANGED <<account, folders, removals>>, SameTrees, alive' \in BOOLEAN,
         uploads' \in [Upload -> UploadState], fresh' \subseteq Upload,
         disk' \in [File -> Version \cup {Partial, NoFile}],
         row' \in [File -> Version \cup {NoRow}],
         \A f \in File : disk'[f] # NoFile => disk[f] # NoFile
  PROVE  IInv'
<1>1. PathInv' /\ folders \subseteq folders' /\ folders' \subseteq Folder
  BY PathsKept DEF IInv, TypeOK
<1> QED
  BY <1>1, UploadStepInv

LEMMA UploadGoesType ==
  ASSUME IInv, NEW u \in Upload, NEW pc, UploadGoes(u, pc),
         pc \in {"idle", "mkdir", "open", "receive", "digest", "exists", "insert",
                 "remove", "done", "gone", "deaf", "robbed"}
  PROVE  uploads' \in [Upload -> UploadState]
<1>1. uploads \in [Upload -> UploadState] /\ uploads[u] \in UploadState
  BY DEF IInv, TypeOK
<1>2. [uploads[u] EXCEPT !.pc = pc] \in UploadState
  BY <1>1 DEF UploadState
<1> QED
  BY <1>1, <1>2 DEF UploadGoes

LEMMA UploadAnswersType ==
  ASSUME IInv, NEW u \in Upload, NEW answer \in 0 .. 1, UploadAnswers(u, answer)
  PROVE  uploads' \in [Upload -> UploadState]
<1>1. uploads \in [Upload -> UploadState] /\ uploads[u] \in UploadState
  BY DEF IInv, TypeOK
<1>2. [uploads[u] EXCEPT !.pc = "done", !.answer = answer] \in UploadState
  BY <1>1 DEF UploadState
<1> QED
  BY <1>1, <1>2 DEF UploadAnswers

(* What the file, the state and the folders of an upload are.               *)
LEMMA UploadArrivesType ==
  ASSUME IInv, NEW u \in Upload, NEW cut \in {"none", "name", "user", "tiny"},
         UploadArrives(u, cut)
  PROVE  uploads' \in [Upload -> UploadState] /\ uploads'[u].cut = cut
<1>1. /\ uploads \in [Upload -> UploadState] /\ uploads[u] \in UploadState
      /\ Target[u] \in File /\ Shortened[Target[u]] \subseteq File
  BY RequestsAssumption DEF IInv, TypeOK
<1>2. PICK f \in IF cut = "name" THEN Shortened[Target[u]] ELSE {Target[u]} :
         uploads' = [uploads EXCEPT
                ![u].file = f, ![u].cut = cut,
                ![u].missing = IF cut \in {"tiny", "user"} THEN {} ELSE Missing(f),
                ![u].pc = CASE cut = "tiny" -> "gone"
                            [] cut = "user" -> "deaf"
                            [] cut \in {"none", "name"} /\ Missing(f) = {} -> "open"
                            [] OTHER -> "mkdir"]
  BY DEF UploadArrives
<1> DEFINE missing == IF cut \in {"tiny", "user"} THEN {} ELSE Missing(f)
           pc == CASE cut = "tiny" -> "gone"
                   [] cut = "user" -> "deaf"
                   [] cut \in {"none", "name"} /\ Missing(f) = {} -> "open"
                   [] OTHER -> "mkdir"
<1>3. f \in File /\ missing \in SUBSET Folder /\ pc \in {"gone", "deaf", "open", "mkdir"}
  BY <1>1, <1>2 DEF Missing, AllAbove
<1>4. uploads' = [uploads EXCEPT ![u].file = f, ![u].cut = cut,
                                 ![u].missing = missing, ![u].pc = pc]
  BY <1>2
<1> HIDE DEF missing, pc
<1>5. uploads' = [uploads EXCEPT ![u] = [uploads[u] EXCEPT !.file = f, !.cut = cut,
                                            !.missing = missing, !.pc = pc]]
  BY <1>1, <1>4 DEF UploadState
<1>6. /\ [uploads[u] EXCEPT !.file = f, !.cut = cut, !.missing = missing, !.pc = pc] \in UploadState
      /\ [uploads[u] EXCEPT !.file = f, !.cut = cut, !.missing = missing, !.pc = pc].cut = cut
  BY <1>1, <1>3 DEF UploadState
<1> QED
  BY <1>1, <1>5, <1>6

LEMMA UploadMakesFolderInv ==
  ASSUME IInv, NEW u \in Upload, UploadMakesFolder(u)
  PROVE  IInv'
<1>1. UNCHANGED <<alive, account, disk, row, trees, removals, fresh>>
  BY DEF UploadMakesFolder
<1>2. /\ uploads \in [Upload -> UploadState] /\ uploads[u] \in UploadState
      /\ uploads[u].missing \subseteq Folder
  BY DEF IInv, TypeOK, UploadState
<1>3. SameTrees
  BY <1>1, Unchanged
<1>4. PICK d \in uploads[u].missing :
        LET rest == uploads[u].missing \ {d}
        IN  IF Exists(ParentOf(d))
              THEN /\ folders' = folders \cup {d}
                   /\ uploads' = [uploads EXCEPT ![u].missing = rest,
                                     ![u].pc = IF rest = {} THEN "open" ELSE @]
              ELSE /\ uploads' = [uploads EXCEPT ![u].missing = {}, ![u].pc = "robbed"]
                   /\ UNCHANGED folders
  BY DEF UploadMakesFolder
<1>5. CASE Exists(ParentOf(d))
  <2> DEFINE rest == uploads[u].missing \ {d}
             pc == IF rest = {} THEN "open" ELSE uploads[u].pc
             s == [uploads[u] EXCEPT !.missing = rest, !.pc = pc]
  <2>1. folders' = folders \cup {d} /\ uploads' = [uploads EXCEPT ![u] = s]
    BY <1>2, <1>4, <1>5 DEF UploadState
  <2>2. rest \in SUBSET Folder /\ pc \in {"open", uploads[u].pc}
    BY <1>2
  <2> HIDE DEF rest, pc
  <2>3. s \in UploadState
    BY <1>2, <2>2 DEF UploadState
  <2>4. Reachable(d) /\ d \in Folder
    BY <1>2, <1>5, ParentReaches DEF Entry
  <2>5. PathInv'
    BY <1>1, <2>1, <2>4 DEF IInv, PathInv, Reachable
  <2>6. folders \subseteq folders' /\ folders' \subseteq Folder
    BY <2>1, <2>4 DEF IInv, TypeOK
  <2>7. uploads' \in [Upload -> UploadState]
    BY <1>2, <2>1, <2>3
  <2> QED
    BY <1>1, <1>3, <2>5, <2>6, <2>7, UploadStepInv DEF IInv, TypeOK
<1>6. CASE ~Exists(ParentOf(d))
  <2> DEFINE s == [uploads[u] EXCEPT !.missing = {}, !.pc = "robbed"]
  <2>1. folders' = folders /\ uploads' = [uploads EXCEPT ![u] = s]
    BY <1>2, <1>4, <1>6
  <2>2. s \in UploadState
    BY <1>2 DEF UploadState
  <2>3. uploads' \in [Upload -> UploadState]
    BY <1>2, <2>1, <2>2
  <2> QED
    BY <1>1, <1>3, <2>1, <2>3, UploadPlainInv DEF IInv, TypeOK
<1> QED
  BY <1>5, <1>6

LEMMA UploadOpensInv ==
  ASSUME IInv, NEW u \in Upload, UploadOpens(u)
  PROVE  IInv'
<1> DEFINE f == uploads[u].file
<1>1. f \in File
  BY DEF IInv, TypeOK, UploadState
<1>2. /\ disk' = IF Exists(ParentOf(f)) THEN [disk EXCEPT ![f] = Partial] ELSE disk
      /\ trees' = TreesTouched(f) /\ fresh' = FreshTouched(f) \cup {u}
      /\ UploadGoes(u, "receive") /\ UNCHANGED <<alive, account, folders, row, removals>>
  BY DEF UploadOpens
<1>3. SameTrees /\ uploads' \in [Upload -> UploadState]
  BY <1>1, <1>2, Touched, UploadGoesType
<1>4. fresh' \subseteq Upload /\ disk' \in [File -> Version \cup {Partial, NoFile}]
  BY <1>1, <1>2 DEF IInv, TypeOK, FreshTouched
<1>5. ASSUME NEW g \in File, disk'[g] # NoFile PROVE Reachable(g)
  <2>1. CASE g = f /\ Exists(ParentOf(f))
    BY <1>1, <2>1, ParentReaches DEF Entry
  <2>2. CASE ~(g = f /\ Exists(ParentOf(f)))
    <3>1. disk'[g] = disk[g]
      BY <1>1, <1>2, <2>2 DEF IInv, TypeOK
    <3> QED
      BY <1>5, <3>1 DEF IInv, PathInv
  <2> QED
    BY <2>1, <2>2
<1>6. PathInv'
  BY <1>2, <1>5 DEF IInv, PathInv, Reachable
<1> QED
  BY <1>2, <1>3, <1>4, <1>6, UploadStepInv DEF IInv, TypeOK

LEMMA UploadReceivesInv ==
  ASSUME IInv, NEW u \in Upload, NEW whole \in BOOLEAN, UploadReceives(u, whole)
  PROVE  IInv'
<1> DEFINE f == uploads[u].file
<1>1. UploadGoes(u, "digest") /\ UNCHANGED <<alive, account, folders, row, trees, removals, fresh>>
  BY DEF UploadReceives
<1>2. f \in File /\ SameTrees /\ uploads' \in [Upload -> UploadState]
  BY <1>1, Unchanged, UploadGoesType DEF IInv, TypeOK, UploadState
<1>3. \/ disk' = disk
      \/ disk[f] # NoFile /\ disk' = [disk EXCEPT ![f] = u]
  BY DEF UploadReceives
<1>4. /\ disk' \in [File -> Version \cup {Partial, NoFile}]
      /\ \A g \in File : disk'[g] # NoFile => disk[g] # NoFile
  BY <1>2, <1>3 DEF IInv, TypeOK, Version
<1> QED
  BY <1>1, <1>2, <1>4, UploadPlainInv DEF IInv, TypeOK

LEMMA UploadInsertsInv ==
  ASSUME IInv, NEW u \in Upload, UploadInserts(u)
  PROVE  IInv'
<1> DEFINE f == uploads[u].file
<1>1. CASE Exits
  BY <1>1, ExitsInv
<1>2. CASE hasTable
  <2>1. /\ row' = [row EXCEPT ![f] = u] /\ trees' = TreesTouched(f) /\ UploadAnswers(u, 1)
        /\ UNCHANGED <<alive, account, folders, disk, removals, fresh>>
    BY <1>2 DEF UploadInserts
  <2>2. f \in File /\ SameTrees /\ uploads' \in [Upload -> UploadState]
    <3>1. f \in File
      BY DEF IInv, TypeOK, UploadState
    <3> QED
      BY <2>1, <3>1, Touched, UploadAnswersType
  <2>3. row' \in [File -> Version \cup {NoRow}]
    BY <2>1, <2>2 DEF IInv, TypeOK, Version
  <2> QED
    BY <2>1, <2>2, <2>3, UploadPlainInv DEF IInv, TypeOK
<1> QED
  BY <1>1, <1>2 DEF UploadInserts

LEMMA UploadRemovesCorruptInv ==
  ASSUME IInv, NEW u \in Upload, UploadRemovesCorrupt(u)
  PROVE  IInv'
<1> DEFINE f == uploads[u].file
<1>1. /\ disk' = [disk EXCEPT ![f] = NoFile] /\ trees' = TreesTouched(f) /\ UploadAnswers(u, 0)
      /\ UNCHANGED <<alive, account, folders, row, removals, fresh>>
  BY DEF UploadRemovesCorrupt
<1>2. f \in File
  BY DEF IInv, TypeOK, UploadState
<1>3. SameTrees /\ uploads' \in [Upload -> UploadState]
  BY <1>1, <1>2, Touched, UploadAnswersType
<1>4. /\ disk' \in [File -> Version \cup {Partial, NoFile}]
      /\ \A g \in File : disk'[g] # NoFile => disk[g] # NoFile
  BY <1>1, <1>2 DEF IInv, TypeOK
<1> QED
  BY <1>1, <1>3, <1>4, UploadPlainInv DEF IInv, TypeOK

LEMMA UploadInvKept ==
  ASSUME IInv, NEW u \in Upload,
         UploadStep(u) \/ \E cut \in {"none", "name", "user", "tiny"} : UploadArrives(u, cut)
  PROVE  IInv'
<1>1. ASSUME UNCHANGED <<account, folders, disk, row, trees, removals, fresh>>,
             alive' \in BOOLEAN, uploads' \in [Upload -> UploadState]
      PROVE  IInv'
  <2>1. SameTrees
    BY <1>1, Unchanged
  <2> QED
    BY <1>1, <2>1, UploadPlainInv DEF IInv, TypeOK
<1>2. ASSUME NEW cut \in {"none", "name", "user", "tiny"}, UploadArrives(u, cut) PROVE IInv'
  BY <1>1, <1>2, UploadArrivesType DEF UploadArrives
<1>3. ASSUME UploadBreaks(u) \/ UploadDigests(u) PROVE IInv'
  BY <1>1, <1>3, UploadGoesType DEF UploadBreaks, UploadDigests, IInv, TypeOK
<1>4. ASSUME UploadChecksExists(u) PROVE IInv'
  BY <1>1, <1>4, UploadGoesType, UploadAnswersType DEF UploadChecksExists, IInv, TypeOK
<1>5. ASSUME \E whole \in BOOLEAN : UploadReceives(u, whole) PROVE IInv'
  BY <1>5, UploadReceivesInv
<1>6. ASSUME UploadMakesFolder(u) \/ UploadOpens(u) \/ UploadInserts(u)
               \/ UploadRemovesCorrupt(u)
      PROVE  IInv'
  BY <1>6, UploadMakesFolderInv, UploadOpensInv, UploadInsertsInv, UploadRemovesCorruptInv
<1> QED
  BY <1>2, <1>3, <1>4, <1>5, <1>6 DEF UploadStep

-----------------------------------------------------------------------------
LEMMA NextInv == IInv /\ [Next]_vars => IInv'
<1> SUFFICES ASSUME IInv, [Next]_vars PROVE IInv'
  OBVIOUS
<1>1. CASE UNCHANGED vars
  BY <1>1 DEF vars, account, IInv, TypeOK, RemovalInv, PathInv, Reachable, AttemptInv,
              VanishedAhead
<1>2. CASE Next
  BY <1>2, TreeInvKept, RemovalInvKept, UploadInvKept DEF Next
<1> QED
  BY <1>1, <1>2

THEOREM Invariance == Spec => []IInv
  BY InitInv, NextInv, PTL DEF Spec

(* What the requests share keeps its type, however they overlap.            *)
THEOREM TypeCorrect == Spec => []TypeOK
<1>1. IInv => TypeOK
  BY DEF IInv
<1> QED
  BY <1>1, Invariance, PTL

(* TreeT loses an attempt only to a folder that has been removed since it   *)
(* began, and to a different one each time: however many requests run, ten  *)
(* attempts last for nine removals of folders.                              *)
THEOREM Deserved == Spec => AttemptsAreDeserved
<1>1. IInv /\ [Next]_vars =>
        [\A t \in Tree : TreeRetries(t) \/ TreeGivesUp(t) =>
              Attempts - trees[t].left < trees[t].gone]_vars
  BY DEF IInv, AttemptInv, TreeRetries, TreeGivesUp
<1> QED
  BY <1>1, Invariance, PTL DEF Spec, AttemptsAreDeserved

-----------------------------------------------------------------------------
(* The account and its table, however many handlers create them.            *)

(* Nothing is done to an account before its folder is there; what is        *)
(* missing of it then, the handler that created the folder is about to      *)
(* create.                                                                  *)
Window ==
    /\ known \/ hasTable => home
    /\ \A t \in Tree : trees[t].pc \in {"table", "walk"} => home
    /\ \A r \in Removal : removals[r].pc # "idle" => home
    /\ \A u \in Upload : uploads[u].pc # "idle" => home
    /\ home => hasTable \/ \E t \in Tree : trees[t].pc = "table"
    /\ ServerKeepsRunning

LEMMA InitWindow ==
  ASSUME Init, "halfway" \notin Trouble
  PROVE  Window
<1>1. known = home /\ hasTable = home
  <2>1. PICK b \in BOOLEAN, stored \in SUBSET File :
          /\ home = b /\ known = b
          /\ hasTable \in IF "halfway" \in Trouble /\ stored = {} THEN {FALSE, b} ELSE {b}
    BY DEF Init
  <2> QED
    BY <2>1
<1>2. /\ alive
      /\ \A t \in Tree : trees[t].pc = "idle"
      /\ \A r \in Removal : removals[r].pc = "idle"
      /\ \A u \in Upload : uploads[u].pc = "idle"
  BY DEF Init, NoTree, NoRemoval
<1> QED
  BY <1>1, <1>2 DEF Window, ServerKeepsRunning

(* A step that ends no server and takes no handler to or from createTable.  *)
LEMMA WindowKept ==
  ASSUME Window, alive, home' = home, hasTable' = hasTable, known' => home,
         \A t \in Tree : \/ trees'[t].pc = trees[t].pc
                         \/ /\ trees[t].pc # "table" /\ trees'[t].pc # "table"
                            /\ trees'[t].pc = "walk" => home,
         \A r \in Removal : removals'[r].pc # "idle" => home,
         \A u \in Upload : uploads'[u].pc # "idle" => home,
         alive' \/ \E u \in Upload : uploads'[u].cut = "tiny"
  PROVE  Window'
  BY DEF Window, ServerKeepsRunning

(* A request finds no table only in the window.                             *)
LEMMA WindowExits ==
  ASSUME Window, home, ~hasTable, Exits
  PROVE  Window'
  BY DEF Window, ServerKeepsRunning, Exits, account

LEMMA TreeWindow ==
  ASSUME IInv, Window, NEW t \in Tree, TreeArrives(t) \/ TreeStep(t)
  PROVE  Window'
<1>1. trees \in [Tree -> TreeState]
  BY DEF IInv, TypeOK
<1>2. ASSUME NEW st, trees' = [trees EXCEPT ![t] = st]
      PROVE  trees'[t] = st /\ \A s \in Tree : s # t => trees'[s] = trees[s]
  BY <1>1, <1>2
<1>3. ASSUME NEW pc, TreeGoes(t, pc)
      PROVE  trees'[t].pc = pc /\ \A s \in Tree : s # t => trees'[s] = trees[s]
  BY <1>1, <1>3 DEF TreeGoes, TreeState
<1>4. \A left, first : Attempt(t, left, first).pc = "walk"
  BY <1>1 DEF Attempt, TreeState
<1>5. CASE TreeArrives(t)
  BY <1>3, <1>5, WindowKept DEF TreeArrives, account, Window
<1>6. CASE TreeChecksFolder(t)
  <2>1. CASE home
    <3>1. trees' = [trees EXCEPT ![t] = Attempt(t, Attempts, TRUE)] /\ trees[t].pc = "exists"
      BY <1>6, <2>1 DEF TreeChecksFolder
    <3>2. trees'[t].pc = "walk" /\ \A s \in Tree : s # t => trees'[s] = trees[s]
      BY <1>1, <1>4, <3>1
    <3> QED
      BY <1>6, <2>1, <3>1, <3>2, WindowKept DEF TreeChecksFolder, account, Window
  <2>2. CASE ~home
    BY <1>3, <1>6, <2>2, WindowKept DEF TreeChecksFolder, account, Window
  <2> QED
    BY <2>1, <2>2
<1>7. CASE TreeCreatesFolder(t)
  BY <1>3, <1>7 DEF TreeCreatesFolder, Window, ServerKeepsRunning
<1>8. CASE CreateTable(t)
  BY <1>2, <1>4, <1>8 DEF CreateTable, Window, ServerKeepsRunning
<1>9. CASE TreeListsFile(t)
  <2>1. home /\ trees[t].pc = "walk" /\ alive
    BY <1>9 DEF TreeListsFile, Window
  <2>2. PICK f \in trees[t].ahead \cap File :
          IF hasTable
            THEN /\ trees' = [trees EXCEPT ![t].ahead = @ \ {f},
                                           ![t].listed[f] = row[f]]
                 /\ UNCHANGED <<alive, account, folders, disk, row, removals,
                                uploads, fresh>>
            ELSE Exits
    BY <1>9 DEF TreeListsFile
  <2>3. CASE hasTable
    <3>1. \A s \in Tree : trees'[s].pc = trees[s].pc
      BY <1>1, <2>2, <2>3 DEF TreeState
    <3> QED
      BY <2>1, <2>2, <2>3, <3>1, WindowKept DEF account, Window
  <2>4. CASE ~hasTable
    BY <2>1, <2>2, <2>4, WindowExits
  <2> QED
    BY <2>3, <2>4
<1>10. CASE TreeOpensFolder(t)
  <2>1. \A s \in Tree : trees'[s].pc = trees[s].pc
    BY <1>1, <1>10 DEF TreeOpensFolder, TreeState
  <2> QED
    BY <1>10, <2>1, WindowKept DEF TreeOpensFolder, account, Window
<1>11. CASE TreeRetries(t)
  BY <1>2, <1>4, <1>11, WindowKept DEF TreeRetries, account, Window
<1>12. CASE TreeGivesUp(t) \/ TreeIsDone(t)
  <2>1. [NoTree EXCEPT !.pc = "done"].pc = "done"
    BY NoTreeType DEF TreeState
  <2>2. trees[t].pc = "walk" /\ alive /\ TreeAnswers(t)
    BY <1>12 DEF TreeGivesUp, TreeIsDone
  <2> QED
    BY <1>2, <2>1, <2>2, WindowKept DEF TreeAnswers, Window
<1> QED
  BY <1>5, <1>6, <1>7, <1>8, <1>9, <1>10, <1>11, <1>12 DEF TreeStep

LEMMA RemovalWindow ==
  ASSUME IInv, Window, NEW r \in Removal, RemovalArrives(r) \/ RemovalStep(r)
  PROVE  Window'
<1>1. alive /\ home
  BY DEF RemovalArrives, RemovalStep, RemovesFile, RemovalFindsParent, RemovalLooksInside,
         RemovesFolder, RemovesRow, Window
<1>2. ASSUME UNCHANGED <<alive, account, uploads>>,
             \A t \in Tree : trees'[t].pc = trees[t].pc
      PROVE  Window'
  BY <1>1, <1>2, WindowKept DEF account, Window
<1>3. CASE RemovalArrives(r) \/ RemovalFindsParent(r) \/ RemovalLooksInside(r)
  BY <1>2, <1>3 DEF RemovalArrives, RemovalFindsParent, RemovalLooksInside
<1>4. CASE RemovesFolder(r)
  <2>1. trees \in [Tree -> TreeState]
    BY DEF IInv, TypeOK
  <2>2. \A t \in Tree : trees'[t].pc = trees[t].pc
    BY <1>4, <2>1 DEF RemovesFolder, TreeState
  <2> QED
    BY <1>2, <1>4, <2>2 DEF RemovesFolder
<1>5. CASE RemovesFile(r)
  <2>1. \A t \in Tree : trees'[t].pc = trees[t].pc
    BY <1>5, Listed, Touched DEF RemovesFile, SameTrees
  <2> QED
    BY <1>2, <1>5, <2>1 DEF RemovesFile
<1>6. CASE RemovesRow(r) /\ hasTable
  <2>1. \A t \in Tree : trees'[t].pc = trees[t].pc
    BY <1>6, Listed, Touched DEF RemovesRow, SameTrees
  <2> QED
    BY <1>2, <1>6, <2>1 DEF RemovesRow
<1>7. CASE RemovesRow(r) /\ ~hasTable
  BY <1>1, <1>7, WindowExits DEF RemovesRow
<1> QED
  BY <1>3, <1>4, <1>5, <1>6, <1>7 DEF RemovalStep

LEMMA UploadWindow ==
  ASSUME IInv, Window, NEW u \in Upload,
         UploadStep(u) \/ \E cut \in {"none", "name", "user", "tiny"} : UploadArrives(u, cut)
  PROVE  Window'
<1>1. alive /\ home /\ uploads[u].file \in File
  <2>1. ASSUME UploadStep(u) PROVE alive /\ uploads[u].pc # "idle"
    BY <2>1 DEF UploadStep, UploadMakesFolder, UploadOpens, UploadReceives, UploadBreaks,
                UploadDigests, UploadChecksExists, UploadInserts, UploadRemovesCorrupt
  <2>2. ASSUME NEW cut \in {"none", "name", "user", "tiny"}, UploadArrives(u, cut)
        PROVE  alive /\ known
    BY <2>2, Zenon DEF UploadArrives
  <2>3. uploads[u] \in UploadState
    BY DEF IInv, TypeOK
  <2> QED
    BY <2>1, <2>2, <2>3 DEF Window, UploadState
<1>2. ASSUME UNCHANGED <<account, removals>>,
             alive' \/ \E v \in Upload : uploads'[v].cut = "tiny",
             \A t \in Tree : trees'[t].pc = trees[t].pc
      PROVE  Window'
  BY <1>1, <1>2, WindowKept DEF account, Window
<1>3. trees' = TreesTouched(uploads[u].file) => \A t \in Tree : trees'[t].pc = trees[t].pc
  BY <1>1, Touched DEF SameTrees
<1>4. ASSUME NEW cut \in {"none", "name", "user", "tiny"}, UploadArrives(u, cut)
      PROVE  Window'
  <2>1. /\ UNCHANGED <<account, trees, removals>>
        /\ alive' = (cut # "tiny")
    BY <1>4, Zenon DEF UploadArrives
  <2>2. uploads'[u].cut = cut
    BY <1>4, UploadArrivesType
  <2> QED
    BY <1>2, <2>1, <2>2
<1>5. CASE UploadMakesFolder(u) \/ UploadBreaks(u) \/ UploadDigests(u)
             \/ UploadChecksExists(u) \/ \E whole \in BOOLEAN : UploadReceives(u, whole)
  BY <1>1, <1>2, <1>5 DEF UploadMakesFolder, UploadBreaks, UploadDigests,
                          UploadChecksExists, UploadReceives
<1>6. CASE UploadOpens(u)
  BY <1>1, <1>2, <1>3, <1>6 DEF UploadOpens
<1>7. CASE UploadRemovesCorrupt(u)
  BY <1>1, <1>2, <1>3, <1>7 DEF UploadRemovesCorrupt
<1>8. CASE UploadInserts(u) /\ hasTable
  BY <1>1, <1>2, <1>3, <1>8 DEF UploadInserts
<1>9. CASE UploadInserts(u) /\ ~hasTable
  BY <1>1, <1>9, WindowExits DEF UploadInserts
<1> QED
  BY <1>4, <1>5, <1>6, <1>7, <1>8, <1>9 DEF UploadStep

LEMMA NextWindow == IInv /\ Window /\ [Next]_vars => Window'
<1> SUFFICES ASSUME IInv, Window, [Next]_vars PROVE Window'
  OBVIOUS
<1>1. CASE UNCHANGED vars
  BY <1>1 DEF vars, account, Window, ServerKeepsRunning
<1>2. CASE Next
  BY <1>2, TreeWindow, RemovalWindow, UploadWindow DEF Next
<1> QED
  BY <1>1, <1>2

(* However many clients ask for the tree of a new account, and whatever the *)
(* other requests do meanwhile: a request finds the account without its     *)
(* table only while the handler that created the folder has not come to     *)
(* createTable.  A server stopped in between leaves the account so for good *)
(* ("halfway").                                                             *)
THEOREM ServerRuns ==
  ASSUME "halfway" \notin Trouble
  PROVE  Spec => []ServerKeepsRunning
<1>1. Init => Window
  BY InitWindow
<1>2. Window => ServerKeepsRunning
  BY DEF Window
<1> QED
  BY <1>1, <1>2, NextWindow, Invariance, PTL DEF Spec

-----------------------------------------------------------------------------
(* The account, its walks and its uploads when one handler creates it.      *)

LEMMA InitAInv ==
  ASSUME Init
  PROVE  AInv
<1>1. /\ known = home /\ (hasTable => home)
      /\ home /\ "halfway" \notin Trouble => hasTable
  <2>1. PICK b \in BOOLEAN, stored \in SUBSET File :
          /\ home = b /\ known = b
          /\ hasTable \in IF "halfway" \in Trouble /\ stored = {} THEN {FALSE, b} ELSE {b}
    BY DEF Init
  <2>2. CASE b = TRUE
    BY <2>1, <2>2
  <2>3. CASE b = FALSE
    BY <2>1, <2>3
  <2> QED
    BY <2>1, <2>2, <2>3
<1>2. /\ \A t \in Tree : trees[t].pc = "idle" /\ trees[t].stable = {}
      /\ \A r \in Removal : removals[r].pc = "idle"
      /\ \A u \in Upload : uploads[u].pc = "idle" /\ uploads[u].answer = 0
      /\ alive /\ fresh = {}
  BY DEF Init, NoTree, NoRemoval
<1>3. AccountInv
  BY <1>1, <1>2 DEF AccountInv, TreeInv, Creating, Settled
<1>4. UploadInv /\ \A t \in Tree : WalkInv(t)
  BY <1>2 DEF UploadInv, WalkInv, Active
<1> QED
  BY <1>3, <1>4 DEF AInv

(* The account keeps what it has when only uploads and removals that have   *)
(* begun go on.                                                             *)
LEMMA AccountKept ==
  ASSUME AccountInv, UNCHANGED account, Settled, alive,
         \A t \in Tree : trees'[t].pc = trees[t].pc,
         alive' \/ \E u \in Upload : uploads'[u].cut = "tiny"
  PROVE  AccountInv'
<1>1. Settled'
  BY DEF Settled, account
<1>2. \A t \in Tree : TreeInv(t)' /\ Creating(t)' = Creating(t)
  BY <1>1 DEF AccountInv, TreeInv, Creating, account
<1> QED
  BY <1>1, <1>2 DEF AccountInv, account

LEMMA WalkKept ==
  ASSUME IInv, SameTrees, \A t \in Tree : WalkInv(t), NEW f,
         \A t \in Tree : f \notin trees'[t].stable,
         \A g \in File : g # f => disk'[g] = disk[g] \/ disk'[g] # NoFile,
         \A g \in File : g # f => row'[g] = row[g]
  PROVE  \A t \in Tree : WalkInv(t)'
<1> SUFFICES ASSUME NEW t \in Tree, trees'[t].pc = "walk", NEW g \in trees'[t].stable
             PROVE  /\ disk'[g] # NoFile
                    /\ \/ g \in trees'[t].ahead
                       \/ trees'[t].listed[g] = row'[g]
                       \/ \E i \in 1 .. Len(Path[g]) : Path[g][i] \in trees'[t].ahead
  BY DEF WalkInv
<1>1. /\ trees[t].pc = "walk" /\ g \in trees[t].stable
      /\ trees'[t].ahead = trees[t].ahead /\ trees'[t].listed = trees[t].listed
      /\ g # f /\ g \in File
  BY DEF SameTrees, IInv, TypeOK, TreeState
<1> QED
  BY <1>1 DEF WalkInv

(* Nothing but the walks has gone on.                                       *)
LEMMA UploadsKept ==
  ASSUME UploadInv, UNCHANGED <<disk, row, uploads, fresh>>
  PROVE  UploadInv'
  BY DEF UploadInv, FreshInv, Active, Opened, SameFile

(* A server that ends for want of a table has been stopped before.          *)
LEMMA ExitsAInv ==
  ASSUME AInv, Settled, ~hasTable, Exits
  PROVE  AInv'
<1>1. /\ UNCHANGED <<account, folders, disk, row, trees, removals, uploads, fresh>>
      /\ "halfway" \in Trouble
  BY DEF Exits, AInv, AccountInv
<1>2. AccountInv'
  BY <1>1 DEF AInv, AccountInv, TreeInv, Creating, Settled, account
<1>3. UploadInv' /\ \A t \in Tree : WalkInv(t)'
  BY <1>1, UploadsKept DEF AInv, WalkInv
<1> QED
  BY <1>2, <1>3 DEF AInv

(* A removal takes a file, or its row, from the uploads that have it.       *)
LEMMA UploadsSpared ==
  ASSUME IInv, UploadInv, UNCHANGED uploads, NEW f, fresh' = FreshTouched(f),
         \A g \in File : g # f => disk'[g] = disk[g] /\ row'[g] = row[g]
  PROVE  UploadInv'
<1>1. \A u \in fresh' : u \in fresh /\ uploads[u].file # f /\ uploads[u].file \in File
  BY DEF FreshTouched, IInv, TypeOK, UploadState
<1>2. \A u \in fresh' : FreshInv(u)'
  BY <1>1 DEF UploadInv, FreshInv, Opened, SameFile
<1> QED
  BY <1>2 DEF UploadInv, Active, SameFile

-----------------------------------------------------------------------------
(* The steps of message 2.                                                  *)

(* The handler of one tree goes on.                                         *)
LEMMA WalkStep ==
  ASSUME IInv, AInv, NEW t \in Tree, NEW s, trees' = [trees EXCEPT ![t] = s],
         UNCHANGED <<disk, row, uploads, fresh>>,
         AccountInv', WalkInv(t)'
  PROVE  AInv'
<1>1. \A q \in Tree : q # t => trees'[q] = trees[q]
  BY DEF IInv, TypeOK
<1>2. \A q \in Tree : WalkInv(q)'
  BY <1>1 DEF AInv, WalkInv
<1> QED
  BY <1>2, UploadsKept DEF AInv

(* It has not come to its walk yet, or has ended it.                        *)
LEMMA WalkMoves ==
  ASSUME IInv, AccountInv, NEW t \in Tree, NEW s, trees' = [trees EXCEPT ![t] = s],
         alive, UNCHANGED <<alive, home, hasTable, removals, uploads>>,
         known' => Settled,
         trees[t].pc # "table",
         s.pc = "create" => ~home /\ ~hasTable,
         s.pc # "table",
         s.pc = "walk" => Settled,
         s.pc = "exists" /\ home => Settled,
         Creating(t)' => Creating(t)
  PROVE  AccountInv'
<1>1. trees'[t] = s /\ \A q \in Tree : q # t => trees'[q] = trees[q]
  BY DEF IInv, TypeOK
<1>2. Settled' <=> Settled
  BY <1>1 DEF Settled
<1>3. \A q \in Tree : TreeInv(q)'
  BY <1>1, <1>2 DEF AccountInv, TreeInv
<1>4. \A p, q \in Tree : Creating(p)' /\ Creating(q)' /\ ~hasTable => p = q
  BY <1>1 DEF AccountInv, Creating
<1> QED
  BY <1>1, <1>2, <1>3, <1>4 DEF AccountInv

(* The place of a handler that is not walking.                              *)
LEMMA Placed ==
  ASSUME IInv, NEW t \in Tree, NEW pc, TreeGoes(t, pc)
  PROVE  /\ trees' = [trees EXCEPT ![t] = trees'[t]] /\ trees'[t].pc = pc
         /\ \A q \in Tree : q # t => trees'[q] = trees[q]
<1>1. trees \in [Tree -> TreeState] /\ trees[t] \in TreeState
  BY DEF IInv, TypeOK
<1> QED
  BY <1>1 DEF TreeGoes, TreeState

LEMMA TreeArrivesAInv ==
  ASSUME IInv, AInv, NEW t \in Tree, TreeArrives(t), OneCreator
  PROVE  AInv'
<1>1. /\ trees' = [trees EXCEPT ![t] = trees'[t]] /\ trees'[t].pc = "exists"
      /\ \A q \in Tree : q # t => trees'[q] = trees[q]
      /\ alive /\ UNCHANGED <<alive, account, folders, disk, row, removals, uploads, fresh>>
      /\ hasTable \/ \A q \in Tree : ~Creating(q)
      /\ trees[t].pc = "idle"
  BY Placed DEF TreeArrives, OneCreator
<1>2. home => Settled
  BY <1>1 DEF AInv, AccountInv, TreeInv, Creating, Settled
<1>3. (Settled' <=> Settled) /\ \A q \in Tree : TreeInv(q)'
  BY <1>1, <1>2 DEF AInv, AccountInv, TreeInv, Settled, account
<1>4. \A p, q \in Tree : Creating(p)' /\ Creating(q)' /\ ~hasTable => p = q
  BY <1>1 DEF Creating
<1>5. AccountInv'
  BY <1>1, <1>2, <1>3, <1>4 DEF AInv, AccountInv, account
<1>6. WalkInv(t)'
  BY <1>1 DEF WalkInv
<1> QED
  BY <1>1, <1>5, <1>6, WalkStep

LEMMA TreeCreatesFolderAInv ==
  ASSUME IInv, AInv, NEW t \in Tree, TreeCreatesFolder(t)
  PROVE  AInv'
<1>1. /\ trees' = [trees EXCEPT ![t] = trees'[t]] /\ trees'[t].pc = "table"
      /\ \A q \in Tree : q # t => trees'[q] = trees[q]
      /\ alive /\ home' /\ trees[t].pc = "create"
      /\ UNCHANGED <<alive, hasTable, known, folders, disk, row, removals, uploads, fresh>>
  BY Placed DEF TreeCreatesFolder
<1>2. ~hasTable
  BY <1>1 DEF AInv, AccountInv, TreeInv
<1>3. \A q \in Tree : Creating(q) => q = t
  BY <1>1, <1>2 DEF AInv, AccountInv, Creating
<1>4. ~home /\ ~Settled /\ ~Settled'
  BY <1>1 DEF AInv, AccountInv, TreeInv, Settled
<1>5. \A q \in Tree : TreeInv(q)' /\ (Creating(q)' => q = t)
  BY <1>1, <1>2, <1>3, <1>4 DEF AInv, AccountInv, TreeInv, Creating
<1>6. AccountInv'
  BY <1>1, <1>2, <1>4, <1>5 DEF AInv, AccountInv
<1>7. WalkInv(t)'
  BY <1>1 DEF WalkInv
<1> QED
  BY <1>1, <1>6, <1>7, WalkStep

(* At the beginning of an attempt the iterator has everything before it.    *)
LEMMA AllAhead ==
  ASSUME IInv, NEW f \in File, disk[f] # NoFile
  PROVE  \/ f \in Entries(Home)
         \/ \E i \in 1 .. Len(Path[f]) : Path[f][i] \in Entries(Home)
<1>1. /\ Path[f] \in Seq(Folder) /\ Len(Path[f]) \in Nat /\ Reachable(f)
      /\ \A i \in 1 .. Len(Path[f]) :
            Path[f][i] \in Folder /\ Path[Path[f][i]] = SubSeq(Path[f], 1, i - 1)
  BY Paths DEF IInv, PathInv, Entry
<1>2. CASE Path[f] = <<>>
  BY <1>2 DEF Entries, ParentOf
<1>3. CASE Path[f] # <<>>
  <2>1. 1 \in 1 .. Len(Path[f]) /\ 1 - 1 = 0
    BY <1>1, <1>3
  <2>2. SubSeq(Path[f], 1, 0) = <<>>
    BY <1>1
  <2>3. Path[f][1] \in folders /\ Path[Path[f][1]] = <<>>
    BY <1>1, <2>1, <2>2 DEF Reachable
  <2>4. Path[f][1] \in Entries(Home)
    BY <2>3 DEF Entries, ParentOf
  <2> QED
    BY <2>1, <2>4
<1> QED
  BY <1>2, <1>3

(* An attempt begins; stable is what it was, or everything that is there.   *)
LEMMA AttemptWalks ==
  ASSUME IInv, NEW t \in Tree, UNCHANGED disk,
         trees'[t].ahead = Entries(Home), trees'[t].stable \subseteq File,
         \A f \in trees'[t].stable : disk[f] # NoFile
  PROVE  WalkInv(t)'
<1>1. \A f \in trees'[t].stable :
         \/ f \in Entries(Home)
         \/ \E i \in 1 .. Len(Path[f]) : Path[f][i] \in Entries(Home)
  BY AllAhead
<1> QED
  BY <1>1 DEF WalkInv

LEMMA FirstWalks ==
  ASSUME IInv, NEW t \in Tree, trees' = [trees EXCEPT ![t] = Attempt(t, Attempts, TRUE)],
         UNCHANGED disk
  PROVE  WalkInv(t)' /\ trees'[t].pc = "walk" /\ \A q \in Tree : q # t => trees'[q] = trees[q]
<1>1. /\ trees'[t] = Attempt(t, Attempts, TRUE)
      /\ \A q \in Tree : q # t => trees'[q] = trees[q]
  BY DEF IInv, TypeOK
<1>2. /\ trees'[t].ahead = Entries(Home) /\ trees'[t].pc = "walk"
      /\ trees'[t].stable = {f \in File : disk[f] \in Version}
  BY <1>1, FirstAttempt
<1>3. \A f \in trees'[t].stable : disk[f] # NoFile /\ f \in File
  BY <1>2, NothingAssumption
<1>4. WalkInv(t)'
  BY <1>2, <1>3, AttemptWalks
<1> QED
  BY <1>1, <1>2, <1>4

LEMMA TreeChecksFolderAInv ==
  ASSUME IInv, AInv, NEW t \in Tree, TreeChecksFolder(t)
  PROVE  AInv'
<1>1. /\ alive /\ trees[t].pc = "exists"
      /\ UNCHANGED <<alive, account, folders, disk, row, removals, uploads, fresh>>
  BY DEF TreeChecksFolder
<1>2. CASE home /\ trees' = [trees EXCEPT ![t] = Attempt(t, Attempts, TRUE)]
  <2> DEFINE s == Attempt(t, Attempts, TRUE)
  <2>1. WalkInv(t)' /\ s.pc = "walk"
    BY <1>1, <1>2, FirstWalks, FirstAttempt
  <2>2. Settled /\ trees' = [trees EXCEPT ![t] = s]
    BY <1>1, <1>2 DEF AInv, AccountInv, TreeInv
  <2> HIDE DEF s
  <2>3. AccountInv'
    BY <1>1, <2>1, <2>2, WalkMoves DEF AInv, account, Creating
  <2> QED
    BY <1>1, <2>1, <2>2, <2>3, WalkStep
<1>3. CASE ~home /\ TreeGoes(t, "create")
  <2>1. trees' = [trees EXCEPT ![t] = trees'[t]] /\ trees'[t].pc = "create"
    BY <1>3, Placed
  <2>2. ~hasTable /\ ~known
    BY <1>3 DEF AInv, AccountInv, Settled
  <2>3. AccountInv'
    BY <1>1, <1>3, <2>1, <2>2, WalkMoves DEF AInv, account, Creating
  <2>4. WalkInv(t)'
    BY <2>1 DEF WalkInv
  <2> QED
    BY <1>1, <2>1, <2>3, <2>4, WalkStep
<1> QED
  BY <1>2, <1>3 DEF TreeChecksFolder

(* No walk and no upload is under way when the table is created.            *)
LEMMA CreateTableAInv ==
  ASSUME IInv, AInv, NEW t \in Tree, CreateTable(t)
  PROVE  AInv'
<1>1. /\ alive /\ trees[t].pc = "table" /\ hasTable'
      /\ trees' = [trees EXCEPT ![t] = Attempt(t, Attempts, TRUE)]
      /\ UNCHANGED <<alive, home, known, folders, disk, removals, uploads, fresh>>
  BY DEF CreateTable
<1>2. WalkInv(t)' /\ trees'[t].pc = "walk" /\ \A q \in Tree : q # t => trees'[q] = trees[q]
  BY <1>1, FirstWalks
<1>3. home /\ ~hasTable /\ ~Settled
  BY <1>1 DEF AInv, AccountInv, TreeInv, Settled
<1>4. \A q \in Tree : q # t => trees[q].pc \notin {"exists", "create", "table", "walk"}
  BY <1>1, <1>3 DEF AInv, AccountInv, TreeInv, Creating
<1>5. Settled' /\ \A q \in Tree : TreeInv(q)' /\ WalkInv(q)'
  BY <1>1, <1>2, <1>3, <1>4 DEF TreeInv, WalkInv, Settled
<1>6. AccountInv'
  BY <1>1, <1>3, <1>5 DEF AInv, AccountInv
<1>7. \A u \in Upload : uploads[u].pc = "idle"
  BY <1>3 DEF AInv, AccountInv
<1>8. fresh = {}
  BY <1>7 DEF AInv, UploadInv, FreshInv, IInv, TypeOK
<1>9. UploadInv'
  BY <1>1, <1>8 DEF AInv, UploadInv, Active, SameFile
<1> QED
  BY <1>5, <1>6, <1>9 DEF AInv

(* An account that is settled while some handler walks.                     *)
LEMMA WalkGoesOn ==
  ASSUME IInv, AInv, NEW t \in Tree, trees[t].pc = "walk", alive,
         trees' = [trees EXCEPT ![t] = trees'[t]],
         trees'[t].pc \in {"walk", "done"}, WalkInv(t)',
         UNCHANGED <<alive, home, hasTable, folders, disk, row, removals, uploads, fresh>>
  PROVE  AInv'
<1>1. Settled /\ ~Creating(t)'
  BY DEF AInv, AccountInv, TreeInv, Creating
<1>2. AccountInv'
  BY <1>1, WalkMoves DEF AInv
<1> QED
  BY <1>2, WalkStep

LEMMA TreeListsFileAInv ==
  ASSUME IInv, AInv, NEW t \in Tree, TreeListsFile(t)
  PROVE  AInv'
<1> SUFFICES ASSUME hasTable PROVE AInv'
  BY ExitsAInv DEF AInv, AccountInv, TreeInv, TreeListsFile
<1>1. alive /\ trees[t].pc = "walk"
  BY DEF TreeListsFile
<1>2. PICK f \in File :
        /\ trees' = [trees EXCEPT ![t].ahead = @ \ {f}, ![t].listed[f] = row[f]]
        /\ UNCHANGED <<alive, account, folders, disk, row, removals, uploads, fresh>>
  BY DEF TreeListsFile
<1>3. /\ trees' = [trees EXCEPT ![t] = trees'[t]] /\ trees'[t].pc = "walk"
      /\ trees'[t].stable = trees[t].stable /\ trees'[t].ahead = trees[t].ahead \ {f}
      /\ trees'[t].listed = [trees[t].listed EXCEPT ![f] = row[f]]
  BY <1>1, <1>2, ListedState
<1>4. ASSUME NEW g \in trees'[t].stable
      PROVE  /\ disk'[g] # NoFile
             /\ \/ g \in trees'[t].ahead
                \/ trees'[t].listed[g] = row'[g]
                \/ \E i \in 1 .. Len(Path[g]) : Path[g][i] \in trees'[t].ahead
  <2>1. /\ g \in File /\ disk[g] # NoFile
        /\ trees[t].listed \in [File -> Version \cup {NoRow, NoFile}]
        /\ \/ g \in trees[t].ahead
           \/ trees[t].listed[g] = row[g]
           \/ \E i \in 1 .. Len(Path[g]) : Path[g][i] \in trees[t].ahead
    BY <1>1, <1>3 DEF AInv, WalkInv, IInv, TypeOK, TreeState
  <2>2. \A i \in 1 .. Len(Path[g]) : Path[g][i] # f
    BY <2>1, Paths, PathAssumption DEF Entry
  <2>3. CASE g = f
    <3>1. trees'[t].listed[g] = row'[g]
      BY <1>2, <1>3, <2>1, <2>3 DEF account
    <3> QED
      BY <1>2, <2>1, <3>1
  <2>4. CASE g # f
    <3>1. trees'[t].listed[g] = trees[t].listed[g]
      BY <1>3, <2>1, <2>4
    <3> QED
      BY <1>2, <1>3, <2>1, <2>2, <2>4, <3>1
  <2> QED
    BY <2>3, <2>4
<1>5. WalkInv(t)'
  BY <1>4 DEF WalkInv
<1> QED
  BY <1>1, <1>2, <1>3, <1>5, WalkGoesOn DEF account

LEMMA TreeOpensFolderAInv ==
  ASSUME IInv, AInv, NEW t \in Tree, TreeOpensFolder(t)
  PROVE  AInv'
<1>1. alive /\ trees[t].pc = "walk"
      /\ UNCHANGED <<alive, account, folders, disk, row, removals, uploads, fresh>>
  BY DEF TreeOpensFolder
<1>2. PICK d \in folders : trees' = [trees EXCEPT ![t].ahead = (@ \ {d}) \cup Entries(d)]
  BY DEF TreeOpensFolder
<1>3. /\ trees' = [trees EXCEPT ![t] = trees'[t]] /\ trees'[t].pc = "walk"
      /\ trees'[t].stable = trees[t].stable /\ trees'[t].listed = trees[t].listed
      /\ trees'[t].ahead = (trees[t].ahead \ {d}) \cup Entries(d)
  BY <1>1, <1>2, OpenedState
<1>4. ASSUME NEW g \in trees'[t].stable
      PROVE  /\ disk'[g] # NoFile
             /\ \/ g \in trees'[t].ahead
                \/ trees'[t].listed[g] = row'[g]
                \/ \E i \in 1 .. Len(Path[g]) : Path[g][i] \in trees'[t].ahead
  <2>1. /\ g \in File /\ disk[g] # NoFile
        /\ \/ g \in trees[t].ahead
           \/ trees[t].listed[g] = row[g]
           \/ \E i \in 1 .. Len(Path[g]) : Path[g][i] \in trees[t].ahead
    BY <1>1, <1>3 DEF AInv, WalkInv, IInv, TypeOK, TreeState
  <2>2. g # d
    BY <1>2, <2>1, PathAssumption DEF IInv, TypeOK
  <2>3. ASSUME NEW i \in 1 .. Len(Path[g]), Path[g][i] \in trees[t].ahead
        PROVE  \/ g \in trees'[t].ahead
               \/ \E j \in 1 .. Len(Path[g]) : Path[g][j] \in trees'[t].ahead
    <3>1. CASE Path[g][i] # d
      BY <1>3, <2>3, <3>1
    <3>2. CASE Path[g][i] = d
      <4>1. g \notin Folder /\ g \in Entry /\ Reachable(g)
        BY <2>1, PathAssumption DEF Entry, IInv, PathInv
      <4>2. \/ g \in Entries(d)
            \/ i + 1 \in 1 .. Len(Path[g]) /\ Path[g][i + 1] \in Entries(d)
        BY <2>1, <3>2, <4>1, Below
      <4> QED
        BY <1>3, <4>2
    <3> QED
      BY <3>1, <3>2
  <2> QED
    BY <1>1, <1>3, <2>1, <2>2, <2>3
<1>5. WalkInv(t)'
  BY <1>4 DEF WalkInv
<1> QED
  BY <1>1, <1>3, <1>5, WalkGoesOn DEF account

LEMMA TreeRetriesAInv ==
  ASSUME IInv, AInv, NEW t \in Tree, TreeRetries(t)
  PROVE  AInv'
<1> DEFINE left == trees[t].left - 1
<1>1. /\ alive /\ trees[t].pc = "walk" /\ trees[t] \in TreeState /\ trees[t].left > 1
      /\ trees' = [trees EXCEPT ![t] = Attempt(t, left, FALSE)]
      /\ UNCHANGED <<alive, account, folders, disk, row, removals, uploads, fresh>>
  BY DEF TreeRetries, IInv, TypeOK
<1>2. left \in 1 .. Attempts
  BY <1>1, RequestsAssumption DEF TreeState
<1> HIDE DEF left
<1>3. trees'[t] = Attempt(t, left, FALSE) /\ trees' = [trees EXCEPT ![t] = trees'[t]]
  BY <1>1 DEF IInv, TypeOK
<1>4. /\ trees'[t].pc = "walk" /\ trees'[t].ahead = Entries(Home)
      /\ trees'[t].stable = trees[t].stable
  <2> DEFINE s == Attempt(t, left, FALSE)
  <2>1. s.pc = "walk" /\ s.ahead = Entries(Home) /\ s.stable = trees[t].stable
    BY <1>2, NextAttempt
  <2>2. trees'[t] = s
    BY <1>3
  <2> HIDE DEF s
  <2> QED
    BY <2>1, <2>2
<1>5. trees'[t].stable \subseteq File /\ \A f \in trees'[t].stable : disk[f] # NoFile
  BY <1>1, <1>4 DEF AInv, WalkInv, TreeState
<1>6. WalkInv(t)'
  BY <1>1, <1>4, <1>5, AttemptWalks
<1> QED
  BY <1>1, <1>3, <1>4, <1>6, WalkGoesOn DEF account

LEMMA TreeAnswersAInv ==
  ASSUME IInv, AInv, NEW t \in Tree, TreeGivesUp(t) \/ TreeIsDone(t)
  PROVE  AInv'
<1>1. alive /\ trees[t].pc = "walk" /\ TreeAnswers(t) /\ UNCHANGED alive
  BY DEF TreeGivesUp, TreeIsDone, TreeAnswers
<1>2. trees' = [trees EXCEPT ![t] = trees'[t]] /\ trees'[t].pc = "done"
  <2>1. trees'[t] = [NoTree EXCEPT !.pc = "done"]
    BY <1>1 DEF TreeAnswers, IInv, TypeOK
  <2> QED
    BY <1>1, <2>1 DEF TreeAnswers, NoTree
<1>3. WalkInv(t)'
  BY <1>2 DEF WalkInv
<1> QED
  BY <1>1, <1>2, <1>3, WalkGoesOn DEF TreeAnswers

LEMMA TreeAInvKept ==
  ASSUME IInv, AInv, NEW t \in Tree, TreeArrives(t) \/ TreeStep(t), OneCreator
  PROVE  AInv'
  BY TreeArrivesAInv, TreeChecksFolderAInv, TreeCreatesFolderAInv, CreateTableAInv,
     TreeListsFileAInv, TreeOpensFolderAInv, TreeRetriesAInv, TreeAnswersAInv DEF TreeStep

-----------------------------------------------------------------------------
(* The steps of message 3.                                                  *)

(* A handler is under way, and so the account is settled.                   *)
LEMMA RemovalKnown ==
  ASSUME AInv, NEW r \in Removal, RemovalArrives(r) \/ RemovalStep(r)
  PROVE  Settled /\ alive
<1>1. known \/ removals[r].pc # "idle"
  BY DEF RemovalArrives, RemovalStep, RemovesFile, RemovalFindsParent, RemovalLooksInside,
         RemovesFolder, RemovesRow
<1>2. alive
  BY DEF RemovalArrives, RemovalStep, RemovesFile, RemovalFindsParent, RemovalLooksInside,
         RemovesFolder, RemovesRow
<1> QED
  BY <1>1, <1>2 DEF AInv, AccountInv

LEMMA RemovalAInvKept ==
  ASSUME IInv, AInv, NEW r \in Removal, RemovalArrives(r) \/ RemovalStep(r)
  PROVE  AInv'
<1>1. Settled /\ alive
  BY RemovalKnown
<1>2. ASSUME UNCHANGED <<alive, account, disk, row, trees, uploads, fresh>>
      PROVE  AInv'
  <2>1. AccountInv'
    BY <1>1, <1>2, AccountKept DEF AInv
  <2>2. UploadInv' /\ \A t \in Tree : WalkInv(t)'
    BY <1>2, UploadsKept DEF AInv, WalkInv
  <2> QED
    BY <2>1, <2>2 DEF AInv
<1>3. ASSUME RemovalArrives(r) \/ RemovalFindsParent(r) \/ RemovalLooksInside(r)
      PROVE  AInv'
  BY <1>2, <1>3 DEF RemovalArrives, RemovalFindsParent, RemovalLooksInside
<1>4. ASSUME RemovesFolder(r) PROVE AInv'
  <2>1. /\ UNCHANGED <<alive, account, disk, row, uploads, fresh>>
        /\ trees' = [t \in Tree |-> [trees[t] EXCEPT !.gone =
                        IF folders' # folders /\ trees[t].pc = "walk" THEN @ + 1 ELSE @]]
    BY <1>4 DEF RemovesFolder
  <2>2. ASSUME NEW t \in Tree
        PROVE  /\ trees'[t].pc = trees[t].pc /\ trees'[t].ahead = trees[t].ahead
               /\ trees'[t].listed = trees[t].listed /\ trees'[t].stable = trees[t].stable
    <3>1. trees[t] \in TreeState
      BY DEF IInv, TypeOK
    <3> QED
      BY <2>1, <3>1 DEF TreeState
  <2>3. AccountInv'
    BY <1>1, <2>1, <2>2, AccountKept DEF AInv
  <2>4. UploadInv' /\ \A t \in Tree : WalkInv(t)'
    BY <2>1, <2>2, UploadsKept DEF AInv, WalkInv
  <2> QED
    BY <2>3, <2>4 DEF AInv
<1>5. ASSUME UNCHANGED <<alive, account, uploads>>, NEW f \in File,
             trees' = TreesTouched(f), fresh' = FreshTouched(f),
             \A g \in File : g # f => disk'[g] = disk[g] /\ row'[g] = row[g]
      PROVE  AInv'
  <2>1. SameTrees /\ \A t \in Tree : f \notin trees'[t].stable
    BY <1>5, Touched
  <2>2. AccountInv'
    BY <1>1, <1>5, <2>1, AccountKept DEF AInv, SameTrees
  <2>3. UploadInv' /\ \A t \in Tree : WalkInv(t)'
    BY <1>5, <2>1, UploadsSpared, WalkKept DEF AInv
  <2> QED
    BY <2>2, <2>3 DEF AInv
<1>6. ASSUME RemovesFile(r) PROVE AInv'
  <2>1. FileOf(r) \in File
    BY <1>6, Listed DEF RemovesFile
  <2>2. \A g \in File : g # FileOf(r) => disk'[g] = disk[g] /\ row'[g] = row[g]
    BY <1>6 DEF RemovesFile, IInv, TypeOK
  <2> QED
    BY <1>5, <1>6, <2>1, <2>2 DEF RemovesFile
<1>7. ASSUME RemovesRow(r), hasTable PROVE AInv'
  <2>1. FileOf(r) \in File
    BY <1>7, Listed DEF RemovesRow
  <2>2. \A g \in File : g # FileOf(r) => disk'[g] = disk[g] /\ row'[g] = row[g]
    BY <1>7 DEF RemovesRow, IInv, TypeOK
  <2> QED
    BY <1>5, <1>7, <2>1, <2>2 DEF RemovesRow
<1>8. ASSUME RemovesRow(r), ~hasTable PROVE AInv'
  BY <1>1, <1>8, ExitsAInv DEF RemovesRow
<1> QED
  BY <1>3, <1>4, <1>6, <1>7, <1>8 DEF RemovalStep

-----------------------------------------------------------------------------
(* The steps of an upload.                                                  *)

(* The place of a handler, and nothing else of it.                          *)
LEMMA UploadPlaced ==
  ASSUME IInv, NEW u \in Upload, NEW pc, UploadGoes(u, pc)
  PROVE  /\ uploads'[u].pc = pc /\ uploads'[u].file = uploads[u].file
         /\ uploads'[u].answer = uploads[u].answer /\ uploads'[u].cut = uploads[u].cut
         /\ \A v \in Upload : v # u => uploads'[v] = uploads[v]
<1>1. uploads \in [Upload -> UploadState] /\ uploads[u] \in UploadState
  BY DEF IInv, TypeOK
<1> QED
  BY <1>1 DEF UploadGoes, UploadState

LEMMA UploadAnswered ==
  ASSUME IInv, NEW u \in Upload, NEW answer, UploadAnswers(u, answer)
  PROVE  /\ uploads'[u].pc = "done" /\ uploads'[u].file = uploads[u].file
         /\ uploads'[u].answer = answer /\ uploads'[u].cut = uploads[u].cut
         /\ \A v \in Upload : v # u => uploads'[v] = uploads[v]
<1>1. uploads \in [Upload -> UploadState] /\ uploads[u] \in UploadState
  BY DEF IInv, TypeOK
<1> QED
  BY <1>1 DEF UploadAnswers, UploadState

(* An upload that goes on: what has to hold of it if nobody has interfered, *)
(* and what it may do to the others.                                        *)
LEMMA UploadGoesOn ==
  ASSUME IInv, UploadInv, NEW u \in Upload, Active(u),
         \A v \in Upload : v # u => uploads'[v] = uploads[v],
         uploads'[u].file = uploads[u].file,
         uploads'[u].answer = 1 => uploads'[u].pc = "done",
         \A g \in File : g # uploads[u].file => disk'[g] = disk[g] /\ row'[g] = row[g],
         fresh' \subseteq fresh \cup {u},
         \A v \in fresh' : v # u /\ SameFile(u, v) => UNCHANGED <<disk, row>> /\ ~Opened(u)',
         u \in fresh' =>
            /\ uploads'[u].pc \notin {"idle", "mkdir", "open"}
            /\ uploads'[u].pc \in {"exists", "insert"} => disk'[uploads[u].file] = u
            /\ uploads'[u].answer = 1 =>
                  disk'[uploads[u].file] = u /\ row'[uploads[u].file] = u
  PROVE  UploadInv'
<1>1. \A v \in Upload : /\ uploads'[v].file = uploads[v].file
                        /\ Active(v)' => Active(v)
                        /\ v # u => (Opened(v)' => Opened(v))
  BY DEF Active, Opened
<1>2. \A v, w \in Upload : Active(v)' /\ Active(w)' /\ SameFile(v, w)' => v = w
  BY <1>1 DEF UploadInv, SameFile
<1>3. \A v \in Upload : uploads'[v].answer = 1 => uploads'[v].pc = "done"
  BY DEF UploadInv
<1>4. ASSUME u \in fresh' PROVE FreshInv(u)'
  <2>1. ASSUME NEW v \in Upload, Opened(v)', SameFile(u, v)', v # u PROVE FALSE
    <3>1. Opened(v) /\ SameFile(u, v)
      BY <1>1, <2>1 DEF SameFile
    <3>2. Active(v)
      BY <3>1 DEF Opened, Active
    <3> QED
      BY <2>1, <3>1, <3>2 DEF UploadInv
  <2> QED
    BY <1>1, <1>3, <1>4, <2>1 DEF FreshInv
<1>5. ASSUME NEW v \in fresh', v # u PROVE FreshInv(v)'
  <2>1. v \in fresh /\ v \in Upload /\ uploads[v].file \in File /\ FreshInv(v)
    BY <1>5 DEF UploadInv, IInv, TypeOK, UploadState
  <2>2. uploads'[v] = uploads[v]
    BY <1>5, <2>1
  <2>3. CASE SameFile(u, v)
    <3>1. UNCHANGED <<disk, row>> /\ ~Opened(u)'
      BY <1>5, <2>3
    <3>2. \A w \in Upload : Opened(w)' /\ SameFile(v, w)' => v = w
      BY <1>1, <2>1, <3>1 DEF FreshInv, SameFile
    <3> QED
      BY <2>1, <2>2, <3>1, <3>2 DEF FreshInv
  <2>4. CASE ~SameFile(u, v)
    <3>1. disk'[uploads[v].file] = disk[uploads[v].file]
            /\ row'[uploads[v].file] = row[uploads[v].file]
      BY <2>1, <2>4 DEF SameFile
    <3>2. \A w \in Upload : Opened(w)' /\ SameFile(v, w)' => v = w
      BY <1>1, <2>1, <2>4 DEF FreshInv, SameFile
    <3> QED
      BY <2>1, <2>2, <3>1, <3>2 DEF FreshInv
  <2> QED
    BY <2>3, <2>4
<1>6. fresh' \subseteq Upload
  BY DEF IInv, TypeOK
<1> QED
  BY <1>2, <1>3, <1>4, <1>5, <1>6 DEF UploadInv

(* No file goes and no row changes: the walks are as right as before.       *)
LEMMA WalkSame ==
  ASSUME IInv, \A t \in Tree : WalkInv(t), UNCHANGED <<trees, row>>,
         \A g \in File : disk[g] # NoFile => disk'[g] # NoFile
  PROVE  \A t \in Tree : WalkInv(t)'
<1>1. \A t \in Tree : trees[t].stable \subseteq File
  BY DEF IInv, TypeOK, TreeState
<1> QED
  BY <1>1 DEF WalkInv

(* An upload is under way, and so the account is settled.                   *)
LEMMA UploadKnown ==
  ASSUME AInv, NEW u \in Upload, UploadStep(u)
  PROVE  Settled /\ alive /\ Active(u)
<1>1. Active(u) /\ uploads[u].pc # "idle" /\ alive
  BY DEF Active, UploadStep, UploadMakesFolder, UploadOpens, UploadReceives, UploadBreaks,
         UploadDigests, UploadChecksExists, UploadInserts, UploadRemovesCorrupt
<1> QED
  BY <1>1 DEF AInv, AccountInv

LEMMA UploadArrivesAInv ==
  ASSUME IInv, AInv, NEW u \in Upload, NEW cut \in {"none", "name", "user", "tiny"},
         UploadArrives(u, cut)
  PROVE  AInv'
<1>1. /\ alive /\ uploads[u].pc = "idle" /\ known /\ alive' = (cut # "tiny")
      /\ UNCHANGED <<account, folders, disk, row, trees, removals, fresh>>
      /\ uploads \in [Upload -> UploadState] /\ uploads[u] \in UploadState
      /\ uploads' \in [Upload -> UploadState]
  BY UploadArrivesType DEF UploadArrives, IInv, TypeOK
<1>2. PICK f \in File :
        /\ \A v \in Upload : Active(v) => uploads[v].file # f
        /\ uploads'[u].file = f /\ uploads'[u].cut = cut
        /\ uploads'[u].answer = uploads[u].answer
        /\ uploads'[u].pc \in {"gone", "deaf", "open", "mkdir"}
        /\ \A v \in Upload : v # u => uploads'[v] = uploads[v]
  <2>1. PICK f \in IF cut = "name" THEN Shortened[Target[u]] ELSE {Target[u]} :
          /\ \A v \in Upload : Active(v) => uploads[v].file # f
          /\ uploads' = [uploads EXCEPT
                ![u].file = f, ![u].cut = cut,
                ![u].missing = IF cut \in {"tiny", "user"} THEN {} ELSE Missing(f),
                ![u].pc = CASE cut = "tiny" -> "gone"
                            [] cut = "user" -> "deaf"
                            [] cut \in {"none", "name"} /\ Missing(f) = {} -> "open"
                            [] OTHER -> "mkdir"]
    BY DEF UploadArrives
  <2> DEFINE missing == IF cut \in {"tiny", "user"} THEN {} ELSE Missing(f)
             pc == CASE cut = "tiny" -> "gone"
                     [] cut = "user" -> "deaf"
                     [] cut \in {"none", "name"} /\ Missing(f) = {} -> "open"
                     [] OTHER -> "mkdir"
  <2>2. pc \in {"gone", "deaf", "open", "mkdir"}
    OBVIOUS
  <2>3. uploads' = [uploads EXCEPT ![u].file = f, ![u].cut = cut,
                                   ![u].missing = missing, ![u].pc = pc]
    BY <2>1
  <2> HIDE DEF missing, pc
  <2>4. /\ uploads'[u].file = f /\ uploads'[u].cut = cut /\ uploads'[u].pc = pc
        /\ uploads'[u].answer = uploads[u].answer
        /\ \A v \in Upload : v # u => uploads'[v] = uploads[v]
    BY <1>1, <2>3 DEF UploadState
  <2>5. f \in File
    BY <2>1, RequestsAssumption
  <2> QED
    BY <2>1, <2>2, <2>4, <2>5
<1>3. Settled /\ uploads[u].answer # 1 /\ u \notin fresh
  BY <1>1 DEF AInv, AccountInv, UploadInv, FreshInv
<1>4. AccountInv'
  BY <1>1, <1>2, <1>3, AccountKept DEF AInv
<1>5. \A t \in Tree : WalkInv(t)'
  BY <1>1, WalkSame DEF AInv
<1>6. \A v, w \in Upload : Active(v)' /\ Active(w)' /\ SameFile(v, w)' => v = w
  BY <1>2 DEF AInv, UploadInv, SameFile, Active
<1>7. \A v \in Upload : uploads'[v].answer = 1 => uploads'[v].pc = "done"
  BY <1>2, <1>3 DEF AInv, UploadInv
<1>8. ASSUME NEW v \in fresh' PROVE FreshInv(v)'
  <2>1. v \in Upload /\ v # u /\ FreshInv(v)
    BY <1>1, <1>3, <1>8 DEF AInv, UploadInv, IInv, TypeOK
  <2>2. ~Opened(u)'
    BY <1>2 DEF Opened
  <2>3. \A w \in Upload : Opened(w)' /\ SameFile(v, w)' => v = w
    BY <1>2, <2>1, <2>2 DEF FreshInv, Opened, SameFile
  <2>4. uploads'[v] = uploads[v]
    BY <1>2, <2>1
  <2> QED
    BY <1>1, <2>1, <2>3, <2>4 DEF FreshInv
<1> QED
  BY <1>4, <1>5, <1>6, <1>7, <1>8 DEF AInv, UploadInv

(* A step that leaves the files, the rows and the walks as they are.        *)
LEMMA UploadPlainAInv ==
  ASSUME IInv, AInv, NEW u \in Upload, UploadStep(u),
         UNCHANGED <<alive, account, disk, row, trees, removals, fresh>>,
         \A v \in Upload : v # u => uploads'[v] = uploads[v],
         uploads'[u].file = uploads[u].file, uploads'[u].answer # 1,
         uploads'[u].pc # "idle", uploads[u].pc # "open",
         uploads'[u].pc \in {"mkdir", "open"} => uploads[u].pc = "mkdir",
         uploads[u].pc = "mkdir" => ~Opened(u)',
         uploads'[u].pc \in {"exists", "insert"} => disk[uploads[u].file] = u
  PROVE  AInv'
<1>1. Settled /\ alive /\ Active(u)
  BY UploadKnown
<1>2. AccountInv'
  BY <1>1, AccountKept DEF AInv
<1>3. \A t \in Tree : WalkInv(t)'
  BY WalkSame DEF AInv
<1>4. ASSUME NEW v \in fresh', v # u, SameFile(u, v) PROVE ~Opened(u)'
  <2>1. ~Opened(u)
    BY <1>4 DEF AInv, UploadInv, FreshInv, SameFile
  <2>2. uploads[u].pc = "mkdir"
    BY <1>1, <2>1 DEF Opened, Active, IInv, TypeOK, UploadState
  <2> QED
    BY <2>2
<1>5. u \in fresh' => uploads'[u].pc \notin {"idle", "mkdir", "open"}
  BY DEF AInv, UploadInv, FreshInv
<1>6. UploadInv'
  BY <1>1, <1>4, <1>5, UploadGoesOn DEF AInv
<1> QED
  BY <1>2, <1>3, <1>6 DEF AInv

(* A step that changes a file or a row, which the walks and the other       *)
(* uploads are then told.                                                   *)
LEMMA UploadTouchesAInv ==
  ASSUME IInv, AInv, NEW u \in Upload, UploadStep(u), UNCHANGED <<alive, account, removals>>,
         trees' = TreesTouched(uploads[u].file), UploadInv',
         \A g \in File : g # uploads[u].file => disk'[g] = disk[g] /\ row'[g] = row[g],
         \A v \in Upload : v # u => uploads'[v] = uploads[v],
         uploads'[u].pc # "idle"
  PROVE  AInv'
<1>1. Settled /\ alive /\ Active(u) /\ uploads[u].file \in File
  BY UploadKnown DEF IInv, TypeOK, UploadState
<1>2. SameTrees /\ \A t \in Tree : uploads[u].file \notin trees'[t].stable
  BY <1>1, Touched
<1>3. AccountInv'
  BY <1>1, <1>2, AccountKept DEF AInv, SameTrees
<1>4. \A t \in Tree : WalkInv(t)'
  BY <1>2, WalkKept DEF AInv
<1> QED
  BY <1>3, <1>4 DEF AInv

LEMMA UploadMakesFolderAInv ==
  ASSUME IInv, AInv, NEW u \in Upload, UploadMakesFolder(u)
  PROVE  AInv'
<1>1. /\ UNCHANGED <<alive, account, disk, row, trees, removals, fresh>>
      /\ uploads[u].pc = "mkdir" /\ uploads[u].answer # 1
      /\ uploads \in [Upload -> UploadState] /\ uploads[u] \in UploadState
  BY DEF UploadMakesFolder, IInv, TypeOK, AInv, UploadInv
<1>2. PICK d \in uploads[u].missing :
        LET rest == uploads[u].missing \ {d}
        IN  IF Exists(ParentOf(d))
              THEN /\ folders' = folders \cup {d}
                   /\ uploads' = [uploads EXCEPT ![u].missing = rest,
                                     ![u].pc = IF rest = {} THEN "open" ELSE @]
              ELSE /\ uploads' = [uploads EXCEPT ![u].missing = {}, ![u].pc = "robbed"]
                   /\ UNCHANGED folders
  BY DEF UploadMakesFolder
<1>3. /\ uploads'[u].file = uploads[u].file /\ uploads'[u].answer = uploads[u].answer
      /\ uploads'[u].pc \in {"mkdir", "open", "robbed"}
      /\ \A v \in Upload : v # u => uploads'[v] = uploads[v]
  <2>1. CASE Exists(ParentOf(d))
    BY <1>1, <1>2, <2>1 DEF UploadState
  <2>2. CASE ~Exists(ParentOf(d))
    BY <1>1, <1>2, <2>2 DEF UploadState
  <2> QED
    BY <2>1, <2>2
<1> QED
  BY <1>1, <1>3, UploadPlainAInv DEF UploadStep, Opened

LEMMA UploadOpensAInv ==
  ASSUME IInv, AInv, NEW u \in Upload, UploadOpens(u)
  PROVE  AInv'
<1> DEFINE f == uploads[u].file
<1>1. /\ disk' = IF Exists(ParentOf(f)) THEN [disk EXCEPT ![f] = Partial] ELSE disk
      /\ trees' = TreesTouched(f) /\ fresh' = FreshTouched(f) \cup {u}
      /\ uploads[u].pc = "open" /\ UploadGoes(u, "receive")
      /\ UNCHANGED <<alive, account, folders, row, removals>>
  BY DEF UploadOpens
<1>2. /\ uploads'[u].pc = "receive" /\ uploads'[u].file = f
      /\ uploads'[u].answer = uploads[u].answer
      /\ \A v \in Upload : v # u => uploads'[v] = uploads[v]
  BY <1>1, UploadPlaced
<1>3. f \in File /\ uploads[u].answer # 1
  BY <1>1 DEF IInv, TypeOK, UploadState, AInv, UploadInv
<1>4. \A g \in File : g # f => disk'[g] = disk[g] /\ row'[g] = row[g]
  BY <1>1 DEF IInv, TypeOK
<1>5. /\ fresh' \subseteq fresh \cup {u}
      /\ \A v \in fresh' : v # u => ~SameFile(u, v)
  BY <1>1 DEF FreshTouched, SameFile
<1>6. UploadInv'
  <2>1. Active(u)
    BY <1>1 DEF Active
  <2> QED
    BY <1>2, <1>3, <1>4, <1>5, <2>1, UploadGoesOn DEF AInv
<1> QED
  BY <1>1, <1>2, <1>4, <1>6, UploadTouchesAInv DEF UploadStep

LEMMA UploadReceivesAInv ==
  ASSUME IInv, AInv, NEW u \in Upload, NEW whole \in BOOLEAN, UploadReceives(u, whole)
  PROVE  AInv'
<1> DEFINE f == uploads[u].file
<1>1. /\ uploads[u].pc = "receive" /\ alive /\ UploadGoes(u, "digest")
      /\ UNCHANGED <<alive, account, folders, row, trees, removals, fresh>>
  BY DEF UploadReceives
<1>2. /\ uploads'[u].pc = "digest" /\ uploads'[u].file = f
      /\ uploads'[u].answer = uploads[u].answer
      /\ \A v \in Upload : v # u => uploads'[v] = uploads[v]
  BY <1>1, UploadPlaced
<1>3. disk' = disk \/ disk' = [disk EXCEPT ![f] = u]
  BY DEF UploadReceives
<1>4. /\ f \in File /\ uploads[u].answer # 1 /\ u # NoFile
      /\ disk \in [File -> Version \cup {Partial, NoFile}]
  BY <1>1, NothingAssumption DEF IInv, TypeOK, UploadState, AInv, UploadInv, Version
<1>5. \A g \in File : /\ g # f => disk'[g] = disk[g]
                      /\ disk[g] # NoFile => disk'[g] # NoFile
  BY <1>3, <1>4
<1>6. Active(u) /\ Opened(u) /\ Settled
  BY <1>1 DEF Active, Opened, AInv, AccountInv
<1>7. \A v \in fresh' : v # u => ~SameFile(u, v)
  BY <1>1, <1>6 DEF AInv, UploadInv, FreshInv, SameFile
<1>8. UploadInv'
  BY <1>1, <1>2, <1>4, <1>5, <1>6, <1>7, UploadGoesOn DEF AInv
<1>9. AccountInv'
  BY <1>1, <1>2, <1>6, AccountKept DEF AInv
<1>10. \A t \in Tree : WalkInv(t)'
  BY <1>1, <1>5, WalkSame DEF AInv
<1> QED
  BY <1>8, <1>9, <1>10 DEF AInv

(* UploadInserts writes the row of the version that the file holds.         *)
LEMMA UploadInsertsAInv ==
  ASSUME IInv, AInv, NEW u \in Upload, UploadInserts(u)
  PROVE  AInv'
<1> DEFINE f == uploads[u].file
<1>1. uploads[u].pc = "insert" /\ Settled /\ Active(u) /\ Opened(u)
  BY DEF UploadInserts, Active, Opened, AInv, AccountInv
<1> SUFFICES ASSUME hasTable PROVE AInv'
  BY <1>1, ExitsAInv DEF UploadInserts
<1>2. /\ row' = [row EXCEPT ![f] = u] /\ trees' = TreesTouched(f) /\ UploadAnswers(u, 1)
      /\ UNCHANGED <<alive, account, folders, disk, removals, fresh>>
  BY <1>1 DEF UploadInserts
<1>3. /\ uploads'[u].pc = "done" /\ uploads'[u].file = f
      /\ \A v \in Upload : v # u => uploads'[v] = uploads[v]
  BY <1>2, UploadAnswered
<1>4. f \in File /\ row \in [File -> Version \cup {NoRow}]
  BY DEF IInv, TypeOK, UploadState
<1>5. row'[f] = u /\ \A g \in File : g # f => disk'[g] = disk[g] /\ row'[g] = row[g]
  BY <1>2, <1>4
<1>6. \A v \in fresh' : v # u => ~SameFile(u, v)
  BY <1>1, <1>2 DEF AInv, UploadInv, FreshInv, SameFile
<1>7. u \in fresh' => disk'[f] = u
  BY <1>1, <1>2 DEF AInv, UploadInv, FreshInv
<1>8. UploadInv'
  BY <1>1, <1>2, <1>3, <1>5, <1>6, <1>7, UploadGoesOn DEF AInv
<1> QED
  BY <1>2, <1>3, <1>5, <1>8, UploadTouchesAInv DEF UploadStep

LEMMA UploadRemovesCorruptAInv ==
  ASSUME IInv, AInv, NEW u \in Upload, UploadRemovesCorrupt(u)
  PROVE  AInv'
<1> DEFINE f == uploads[u].file
<1>1. /\ uploads[u].pc = "remove" /\ disk' = [disk EXCEPT ![f] = NoFile]
      /\ trees' = TreesTouched(f) /\ UploadAnswers(u, 0)
      /\ UNCHANGED <<alive, account, folders, row, removals, fresh>>
  BY DEF UploadRemovesCorrupt
<1>2. Active(u) /\ Opened(u)
  BY <1>1 DEF Active, Opened
<1>3. /\ uploads'[u].pc = "done" /\ uploads'[u].file = f /\ uploads'[u].answer # 1
      /\ \A v \in Upload : v # u => uploads'[v] = uploads[v]
  BY <1>1, UploadAnswered
<1>4. \A g \in File : g # f => disk'[g] = disk[g] /\ row'[g] = row[g]
  BY <1>1 DEF IInv, TypeOK
<1>5. \A v \in fresh' : v # u => ~SameFile(u, v)
  BY <1>1, <1>2 DEF AInv, UploadInv, FreshInv, SameFile
<1>6. UploadInv'
  BY <1>1, <1>2, <1>3, <1>4, <1>5, UploadGoesOn DEF AInv
<1> QED
  BY <1>1, <1>3, <1>4, <1>6, UploadTouchesAInv DEF UploadStep

LEMMA UploadAInvKept ==
  ASSUME IInv, AInv, NEW u \in Upload,
         UploadStep(u) \/ \E cut \in {"none", "name", "user", "tiny"} : UploadArrives(u, cut)
  PROVE  AInv'
<1>1. ASSUME UploadBreaks(u) PROVE AInv'
  <2>1. /\ uploads[u].pc = "receive" /\ UploadGoes(u, "gone") /\ UploadStep(u)
        /\ UNCHANGED <<alive, account, disk, row, trees, removals, fresh>>
    BY <1>1 DEF UploadBreaks, UploadStep
  <2>2. /\ uploads'[u].pc = "gone" /\ uploads'[u].file = uploads[u].file
        /\ uploads'[u].answer # 1 /\ \A v \in Upload : v # u => uploads'[v] = uploads[v]
    BY <2>1, UploadPlaced DEF AInv, UploadInv
  <2> QED
    BY <2>1, <2>2, UploadPlainAInv
<1>2. ASSUME UploadDigests(u) PROVE AInv'
  <2>1. /\ uploads[u].pc = "digest" /\ UploadStep(u)
        /\ UploadGoes(u, IF disk[uploads[u].file] = u THEN "exists" ELSE "remove")
        /\ UNCHANGED <<alive, account, disk, row, trees, removals, fresh>>
    BY <1>2 DEF UploadDigests, UploadStep
  <2>2. /\ uploads'[u].pc = IF disk[uploads[u].file] = u THEN "exists" ELSE "remove"
        /\ uploads'[u].file = uploads[u].file
        /\ uploads'[u].answer # 1 /\ \A v \in Upload : v # u => uploads'[v] = uploads[v]
    BY <2>1, UploadPlaced DEF AInv, UploadInv
  <2> QED
    BY <2>1, <2>2, UploadPlainAInv
<1>3. ASSUME UploadChecksExists(u) PROVE AInv'
  <2>1. /\ uploads[u].pc = "exists" /\ UploadStep(u) /\ uploads[u].answer # 1
        /\ UNCHANGED <<alive, account, disk, row, trees, removals, fresh>>
    BY <1>3 DEF UploadChecksExists, UploadStep, AInv, UploadInv
  <2>2. /\ uploads'[u].pc \in {"insert", "done"} /\ uploads'[u].file = uploads[u].file
        /\ uploads'[u].answer # 1 /\ \A v \in Upload : v # u => uploads'[v] = uploads[v]
    <3>1. CASE UploadGoes(u, "insert")
      BY <2>1, <3>1, UploadPlaced
    <3>2. CASE UploadAnswers(u, 0)
      BY <3>2, UploadAnswered
    <3> QED
      BY <1>3, <3>1, <3>2 DEF UploadChecksExists
  <2>3. CASE u \in fresh
    BY <2>1, <2>2, <2>3, UploadPlainAInv DEF AInv, UploadInv, FreshInv
  <2>4. CASE u \notin fresh
    <3>1. Settled /\ alive /\ Active(u) /\ Opened(u)
      BY <2>1, UploadKnown DEF Opened
    <3>2. AccountInv' /\ \A t \in Tree : WalkInv(t)'
      BY <2>1, <2>2, <3>1, AccountKept, WalkSame DEF AInv
    <3>3. \A v \in fresh' : v # u => ~SameFile(u, v)
      BY <2>1, <3>1 DEF AInv, UploadInv, FreshInv, SameFile
    <3>4. UploadInv'
      BY <2>1, <2>2, <2>4, <3>1, <3>3, UploadGoesOn DEF AInv
    <3> QED
      BY <3>2, <3>4 DEF AInv
  <2> QED
    BY <2>3, <2>4
<1> QED
  BY <1>1, <1>2, <1>3, UploadArrivesAInv, UploadMakesFolderAInv, UploadOpensAInv,
     UploadReceivesAInv, UploadInsertsAInv, UploadRemovesCorruptAInv DEF UploadStep

-----------------------------------------------------------------------------
LEMMA NextAInv == OneCreator /\ IInv /\ AInv /\ [Next]_vars => AInv'
<1> SUFFICES ASSUME OneCreator, IInv, AInv, [Next]_vars PROVE AInv'
  OBVIOUS
<1>1. CASE UNCHANGED vars
  BY <1>1 DEF vars, account, AInv, AccountInv, TreeInv, Creating, Settled, WalkInv, UploadInv,
              FreshInv, Active, Opened, SameFile
<1>2. CASE Next
  BY <1>2, TreeAInvKept, RemovalAInvKept, UploadAInvKept DEF Next
<1> QED
  BY <1>1, <1>2

LEMMA AccountInvariance ==
  ASSUME OneCreator
  PROVE  Spec => []AInv
<1>1. Init => AInv
  BY InitAInv
<1>2. IInv /\ AInv /\ [Next]_vars => AInv'
  BY NextAInv
<1> QED
  BY <1>1, <1>2, Invariance, PTL DEF Spec

(* What the answer 1 tells the client is so, and stays so until another     *)
(* request concerns the file; also after a stop that left the account       *)
(* without a table, when the answer does not come.                          *)
THEOREM AnswerIsTrue ==
  ASSUME OneCreator
  PROVE  Spec => []AnsweredIsStored
<1>1. AInv => AnsweredIsStored
  BY DEF AInv, UploadInv, FreshInv, AnsweredIsStored
<1> QED
  BY <1>1, AccountInvariance, PTL

(* A tree that was not given up has every file that was there while it was  *)
(* made, with the time of its row; without a table none with files is sent. *)
THEOREM Complete ==
  ASSUME OneCreator
  PROVE  Spec => TreeIsComplete
<1>1. AInv /\ [Next]_vars =>
        [\A t \in Tree : trees[t].pc = "walk" /\ trees[t].ahead = {} /\ trees'[t].pc = "done" =>
              \A f \in trees[t].stable : trees[t].listed[f] = row[f]]_vars
  BY DEF AInv, WalkInv
<1> QED
  BY <1>1, AccountInvariance, PTL DEF Spec, TreeIsComplete
=============================================================================
