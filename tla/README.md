# Verification of Progetto Backup

Progetto Backup keeps a copy of a user's folder on a server. The client watches
the folder, keeps a status table in it (`.hash.db`), compares the folder with
the server's list of files, tells the server what to remove and uploads what is
missing, several files at a time. Client and server are C++17 with boost.asio
and SQLite. The repository's README describes the command line only, so every
definition here is translated from the sources.

This directory holds TLA+ modules for the parts of the system where concurrency,
failures and ordering decide whether the backup is right, the TLC configurations
that check them, and TLAPS proofs about the upload queue, the status table, the
control connections and the server's store. `PROJECT.json` maps each definition
to its source lines and lists the runs, the findings and the hazards.

## The system

| Component | State | Operations | Talks to |
|---|---|---|---|
| `main` (client) | `is_terminated` | start, signal, shutdown | `Client`, `Sender`, `SharedQueue::setFlag` |
| `Client` | endpoint, folder | `Auth`, `RecoverSending`, `Syncro` (`InitHash`, `RequestTree`, `SendRemoval`) | status table, `Patch`, server port P |
| `DatabaseConnection` | rows (name, hash, lmt, status) under a static mutex | `InsertDB`, `CleanOldRows`, `AlignStatus`, the `ChangeStatus...` functions | `.hash.db`, inside the watched folder |
| `TreeT`, `Patch` | two name-to-time maps, their differences | the constructors, `Dispatch` | status table, `SharedQueue::insert` |
| `Watcher`, Panoptes | batches of events, every second | `listenerFunction` | calls `Syncro` on the collector's thread |
| `SharedQueue`, `Sender` | list of sippers, counter, flag, mutex, condition variable; thread pool | `insert`, `get_ready_FileSipper`, `remove_element`, `setFlag`, `Sender_Action` | watcher's thread, sender's thread, pool threads, main |
| `FileSipper` | socket, file, status | `Send`, `Connect`, `Sip`, `WaitOk`, `UpdateFileStatus` | server port P+10, status table |
| `Config`, `Authentication` | settings | prompts, JSON | every client part |
| `Server`, `AcceptClient`, `Service` | a detached thread per request | messages 1 (authenticate), 2 (tree), 3 (remove), 5 (stop) | files, `Database` |
| `AsyncServer`, `AsyncAcceptClient`, `AsyncService` | one object per upload, handlers on a pool | `onRequestReceived`, `onFinish`, `onAbort` | files, `Database` |
| `Database`, `TreeT` (server) | accounts, one `UserTree` table per account | `auth`, `getUserPath`, `createTable`, `getTimeFromPath`, `insertFile`, `deleteFile` | SQLite |

What is hard in it, and what correctness means there:

- *Threads of the client.* The watcher's thread inserts into the queue, the
  sender's thread takes, the pool's threads remove, main shuts down. The counter
  of active sippers is kept by hand, the flag is changed without the mutex. The
  queue is right when no sipper is lost or sent twice, the limit holds, and a
  shutdown ends.
- *Uploads of one file that overlap* with each other, with removals and with the
  next `Syncro`. The backup is right when the status SENT tells the truth and what
  the server holds of a file is neither removed nor truncated for good.
- *Failures.* Connections break before, during and after the transfer, each side
  may be stopped at any moment. Right means that the row comes back to NEW and
  the backup completes in the end.
- *Requests of one account that overlap on the server.* Every message 2 and 3 has
  a detached thread, uploads have a pool; a tree is listed while folders vanish,
  folders are removed while an upload makes them, and an account is created in
  two steps. Right means that an answer is true, that a list is whole, and that
  no request finds the table missing, which ends the server, once it is created.
- *One process for everybody.* A failed write, a message that cannot be parsed or
  a missing table calls `std::exit` or aborts in a thread of the server. Right
  means that clients that behave never do this, and that a server asked to stop
  does stop although it has to connect to itself for it.
- *Triggers.* Retrying relies on events of the file system, which the program
  itself causes by writing its table in the folder it watches.

## The modules

| Module | What it is |
|---|---|
| `WorkPool` | abstract specification: jobs wait, at most `Limit` are worked on, they finish; a closed pool begins none |
| `SharedQueue` | the client's queue, sender, pool and shutdown; implements `WorkPool` |
| `MCSharedQueue` | instances for TLC |
| `SharedQueueProofs` | inductive invariant and TLAPS proofs about `SharedQueue` |
| `Backup` | the backup of one account: user, `Syncro`, status table, FileSipper and AsyncService of every upload, removals, files and table of the server, stops and starts |
| `MCBackup` | instances for TLC |
| `BackupProofs` | inductive invariants and TLAPS proofs about `Backup`: types, and no row forgotten in SENDING |
| `BackupStored` | extends `BackupProofs`: what SENT promises, and that a registered copy is kept |
| `Store` | the requests of one account that overlap on the server: trees, removals and uploads on its folders, files and table |
| `MCStore` | the instance for TLC |
| `StoreProofs` | inductive invariants and TLAPS proofs about `Store`: types, attempts, tables, answers, trees |
| `StoreFolders` | extends `StoreProofs`: no request leaves an empty folder that nobody answers for |
| `Settings` | `config.json` and what a client process does with it until it has its settings |
| `Session` | extends `Settings`: the control connections, the server's Services, acceptor and main |
| `MCSession` | instances for TLC |
| `SessionProofs` | inductive invariant and TLAPS proofs about `Session` |

In each module an operator whose comment begins with "Bug:" or "A bug:" is a
mutated form of the definition that follows it. No action uses it; it is there to show that a
run notices the bug.

### SharedQueue

State: `fs_list`, `status`, `active_fs`, `flag`, `mutex` are the members of
`SharedQueue`; `senderFlag` is `Sender::flag`; `pc`, `chosen_fs` and
`sawShutdown` belong to the sender's thread, `posted` and `running` to the pool,
`mainPc` to `main`, and `made` counts what `Dispatch` created. The critical
sections of `insert` and `remove_element` are one action each.
`get_ready_FileSipper` is several, because `setFlag` changes the flag and
notifies without the mutex: `SenderTests` evaluates the predicate,
`SenderBlocks` starts the wait, and the notification may fall between them.
`Sender::flag` is a plain bool written by main while the sender reads it:
until the sender has synchronised with main (it has read the queue's flag as
false) a read may return either value.

`WorkPool` is implemented under the mapping: waiting = listed and not active,
working = listed and active, finished = made and not listed, open = the flag.

### Backup

Contents are numbers, one for each change by the user; a digest is the content.
Each upload is a record that holds the FileSipper (`c`) and the AsyncService
(`s`) side by side. One action of `Backup` is one operation that the code
performs without another thread being able to come between, for one file, or,
inside `Syncro`, for all files: files do not depend on each other, except that a
name may be a folder of another (`Above`).

- `Syncro` is `WatcherCalls`, `InitHashStat`, `InitHashInsert`, `CleanOldRows`,
  `ClientTree`, `RequestTree`, `AlignStatus`, `SendRemoval`, `Dispatch`,
  `SyncroEnds`, in the order of `Client::Syncro`, with the user and the uploads
  acting between any two.
- A FileSipper does `Connect`, `ReadAndSend`, `ClientGetsAnswer`; `ConnectFails`
  (the connection is refused, or the file is there and cannot be opened), `Break` (the
  connection breaks, or a read of the file fails, which the server cannot tell from the
  end of the file) and `SeesServerGone` are its error handlers. A name that has
  become a folder opens on Linux and fails at the first read: `Connect` then ends the
  sipper with the metadata sent and the row back in NEW. It takes two names and `user`
  to get there, which no passing run has; the theorems that do not assume `Orderly` cover it.
- An AsyncService does `ServerOpens` (which truncates), `ServerCloses`,
  `ServerDigests`, `ServerChecksExists`, `ServerInserts`, or
  `ServerRemovesCorrupt`, or `ServerRefuses`; `ServerWriteFails` is a write that fails
  (a full disk), after which the service reads on to the end and finds another digest.
  These are separate steps because the handlers of different connections run on
  different threads.
- A file that was truncated by one service and removed or opened by another is
  tracked with `linked`: a service whose file has been unlinked writes to an
  inode without a name.
- `RemovalUnlinks` and `RemovalDeletesRow` are message 3 on its detached thread.
- `dirty` says that the collector holds events. Writing `.hash.db` sets it too:
  SQLite's journal is a file in the watched folder, and the listener ignores only
  a batch that holds nothing but `.hash.db`.

`CurrentCopyKept` is about what the server *holds*: the content a file has now, under
the time it has now, or the same copy truncated for a service that is receiving this content
once more (`Rewrites`), as happens when the client missed the answer. What is held is
held after every step that leaves the user's file alone. A late upload that truncates
the copy to write anything else violates it at once, and so do one that is cut short
in the middle, a removal, and the loss of the row.

`Trouble` names guards that a run lifts. Without any, the user changes a file
only when its last change is backed up and no removal of it is on its way, never
during the first `Syncro` and never twice within a second, and a FileSipper does
not connect while the server still works on an older upload of the file. The
code enforces none of this. The passing runs show what is right under these
assumptions with faults at any moment; what goes wrong without each of them is
listed under "What the guards hide".

### Store

`Backup` treats one account with the steps of a removal and an upload that matter
for one file. `Store` is the same server from the other side: any number of
requests at once, folders within folders, and the account itself. Each call into
the file system or the database is a step, because `Database` holds its mutex for
one function only and nothing holds a lock over two calls.

- `home`, `hasTable` and `known` are the account's folder, its database and
  whether a client has been told of it. `folders`, `disk` and `row` are what lies
  in the folder and in `UserTree`; a version is the upload that brought it.
- Message 2 (`trees`): `TreeArrives`, `TreeChecksFolder`, `TreeCreatesFolder` and
  `CreateTable` for a new account; then `TreeT`, whose iterator is the set
  `ahead` of what it has read and not yet visited: `TreeListsFile` asks for the
  row of a file, `TreeOpensFolder` reads a folder, `TreeRetries` is the exception
  of the iterator when a folder it has read the name of is gone, and
  `TreeGivesUp` and `TreeIsDone` answer.
- Message 3 (`removals`): for each name `RemovesFile`, then `RemovalFindsParent`,
  `RemovalLooksInside` and `RemovesFolder` up the path until a folder is not
  empty, then `RemovesRow`. `is_empty` throws when the folder has gone.
- Uploads: `UploadArrives` reads the first sip (all of it, or cut after what TCP
  delivered), `UploadMakesFolder` is one `mkdir` of `create_directories`, then
  `UploadOpens`, `UploadReceives` or `UploadBreaks`, `UploadDigests`,
  `UploadChecksExists`, `UploadInserts` or `UploadRemovesCorrupt`.
- Two uploads of one file do not run at once here: `UploadArrives` waits for the one
  before. The code has no such guard; `Backup` is where uploads of a file overlap. The
  removals, and the uploads of other files, run at any moment.
- `alive` is the process. Every function of `Database` that finds no table ends it; `ServerKeepsRunning`
  says that this happens only while the handler that has created the account's folder is
  on its way to `createTable`. (`tiny` is an upload whose first read ended within the
  metadata's first bytes, which the metadata parser does not survive.)
- `stable`, `gone` and `fresh` are history variables: the files nobody has
  touched since a tree began, how many folders have gone since, and the uploads
  whose file nobody else has touched.

### Settings and Session

`Settings` is the client before it has a connection: `config.json` is a function
of its keys, missing, or unreadable. The steps are those of `Config`: the test
that the file is there (not what is in it), the default, one read, one truncation
and one write for each option, and the two reads of the credentials, which come
before every request. `linked` says whether the file a process has open is still
the one in the folder.

`Session` adds one connection for each client process and one for the server's
own message to itself (`Main`). A connection is in the backlog or accepted, with
what the client has sent, whether it has closed or is lost, what was answered and
whether the send side is shut. The client's steps are `Connects`, `ConnectFails`
(the attempts of `ConnectServer`), `Sends`, `Receives`, `Syncro`; the server's are
`AcceptorTests`, `Accepts`, `Spawns` (the loop of `Server::Run`), the steps of a
Service (`ServiceReads`, `ServiceRefuses`, `ServiceCreatesFolder`, `ServiceCreatesTable`,
`ServiceAnswers`, `ServiceRemoves`, `ServiceThrows`, and
`ServiceAborts` and `ServiceReadFails` for what a message that is no message does)
and `Signal`, `MainConnects`, `MainReturns` (main and `Server::Stop`). Where the
code calls `std::exit`, or an exception or an assertion leaves a thread,
`ServerEnds` closes every connection; a service manager may start the server
again. The type of the message that stands for a read error is never initialised:
`ServiceReadFails` takes either outcome.

`store` says how far the account of each user has come on the server's disk: nothing, a folder
without its table (between the two steps of message 2, or for good after a stop there), the same
once a client was told that it is empty and may therefore upload, the same with a file
that such an upload left (`UploadLeavesFile`, `UploadInserts`), or folder and table. `Made` are the
users who have theirs from the start. The functions of `Database` end the process
when there is no table, for messages 2 and 3 as for uploads; they are taken to fail for no other
reason. `OnlyTheFailedEndServer` therefore excuses two kinds of Service that end the server: one
whose own client failed (`Failed`), and one whose own message is about an account without its
table (`Tableless`). The run meets the second for message 2; that message 3 ends the
server takes a client that changed its account between the two, which only the
theorem covers.

Assumptions that are not in the code: a connection that is lost is noticed, by the reset that
ends a read (`Killed`); a loss that nobody ever hears of leaves the client in `SyncReadCM`, and
`NobodyWaits` does not speak of it. A client whose connection the server has closed ends at
its next message, although the first write after that usually succeeds and message 3 needs no
answer. Of the options a process has at most one in the run; a `-d` in the wrong place
counts as a wrong option at the first place, since the code looks for it before it
takes any option.

## The runs

Bounds are in the `.cfg` files. Deadlock is checked in `session` and
`session_refused`, where somebody can always start a process again. It is not
in the others: in the runs of `SharedQueue` main returns and the program ends, in
those of `Backup` nothing happens any more once the user's changes are used up
and backed up, and in `Store` each request comes once. That nothing stops before
is what the liveness properties say.

| Run | Shows | Bounds |
|---|---|---|
| `queue` | type, exact counter, no sipper handed over twice, no lost work, clean exit, no null but at shutdown, refinement of `WorkPool`; every other sipper is sent though one server is silent and nobody asks to stop; a shutdown ends unless that upload holds it or the sender sleeps with the flag down | 4 sippers, limit 3, 2 threads: the limit, the list end and a busy pool are all met |
| `queue_shutdown_hang` | *violated:* shutdown ends | 3 sippers, limit 2, 2 threads, no silent server |
| `backup_safety` | SENT means stored; what the server holds of a file it holds until the file changes; the backup completes or a row is stuck in SENDING | 1 file, 4 changes, 1 fault, `restart` and `throw` lifted |
| `backup_progress` | the backup completes | 2 files (one refused by the server), 2 changes, 1 fault, `restart` lifted |
| `backup_uploads_end` | types; no row in SENDING is forgotten; a FileSipper that waits for an answer stops waiting | 1 file, 2 changes, 1 fault, `user`, `removal`, `early`, `restart` lifted |
| `backup_overlap` | *violated:* a change while the older upload is queued; the older one truncates and removes the copy that was confirmed | 2 changes |
| `backup_two_faults` | *violated:* `AlignStatus` marks SENT what is queued to be sent again, and the second upload is cut short | 1 change, 2 faults |
| `backup_throw` | *violated:* `shutdown` throws before the status is updated | 1 change, 1 fault |
| `backup_file_to_folder` | *violated:* the server stops reading when it cannot create a folder | 2 names, 3 changes, 1 fault |
| `store_requests` | what was answered 1 is stored until somebody else asks for the file; a tree that was not given up is complete; each lost attempt has cost a folder; a request finds the table missing only on its way to be created; removals leave no empty folder; every request ends | 2 files, 2 folders one in the other, 1 tree with 2 attempts, 2 removals (of both files and of one), 1 upload; 554219 states |
| `session` | only right credentials log in; a Service ends the server only for a client that was refused or lost, or an account without its table; the message of `Stop` is never read; a server asked to stop stops; no client waits for ever | 2 processes one after the other, one with an option, 2 accounts of which one has no folder yet, 2 attempts to connect, either killed or cut off at any moment; 318618 states |
| `session_refused` | *violated:* the server runs until it is stopped | 1 process, which may have a wrong password, no trouble |

Why these bounds: a hazard of `Backup` needs at most two versions of a file, two
uploads at once (`Slot`), one removal under way and one or two faults; a deletion
and a new creation make four changes. `MaxRemovals = 1` makes `Syncro` wait for
an older removal of the same file, which leaves out two removals of one file at
the same time. Two faults are left to `backup_two_faults`, because with two the
safety property fails.

In `Store` the two removals share a folder, which makes each of them the one that
finds it gone; the folder in a folder makes a removal go up twice and an upload
make two; two attempts are the first and the last. For what is proved the sizes do
not matter; with two trees, or with two uploads of one file, one after the other,
in place of the second removal (595895 and 878663 states), TLC finds no error in
the safety properties either. In `Session` one process that runs after
another is enough for the settings one left behind, and the server serves old
connections of the first meanwhile.

### What the guards hide

Lifting a guard (a member of `Trouble`) in a configuration of `Backup`, or
filling `TooDeep`, shows what the code does when the assumption is not met. The
first three are runs above; TLC finds the others in the same way.

| Lifted | Fails | Because |
|---|---|---|
| `"user"`, 2 changes | `CurrentCopyKept` | the older upload arrives last, truncates and rewrites the file, and removes it because its digest is the older one (`backup_overlap`) |
| `"throw"`, 1 change, 1 fault | `SendingHasSipper` | `sock_.shutdown` throws before `UpdateFileStatus` (`backup_throw`) |
| nothing, 1 change, 2 faults | `SentIsStored`, `CurrentCopyKept` | see `backup_two_faults`: the second fault leaves the truncated copy |
| `"retry"`, 1 change, 1 fault | `SentIsStored` | the service of the broken upload removes the file between the existence check and `insertFile` of the newer one |
| `"removal"`, 3 changes | `CurrentCopyKept` | the removal is executed after the file was created again, sent and registered |
| `"early"`, 1 change | `Converges` | between the scan of the first `Syncro` and `watcher_.Start` a change is no event |
| `"clock"`, 2 changes | `SentIsStored` | `AlreadyHashed` compares whole seconds |
| `"back"`, 3 changes, 1 fault | `SentIsStored` | the client stops after it sent a removal and before it dropped the row; nothing turns SENT into NEW |
| `TooDeep = {f1}`, 1 change | `EveryUploadEnds` | `onRequestReceived` returns without reading on |

In `Store`:

| Lifted | Fails | Because |
|---|---|---|
| `"creators"`, 2 trees | `AnsweredIsStored` | `createTable` drops the table, and with it the rows of files that were answered 1 |
| `"creators"`, 3 trees | `TreeIsComplete` | the table is dropped while another tree has already listed a file with its time |
| `"halfway"` | `ServerKeepsRunning` | a server was stopped after it created the folder: nothing creates the table later, and every upload of this account ends the process |

With `"creators"` lifted a request may also find the table missing, while the handler that created the
folder is on its way to `createTable`: of two first requests the other answers, the client sends a file, and
`insertFile` ends the process. That is the only way, which `ServerKeepsRunning` says and
the theorem `ServerRuns` proves for any number of first requests.

In `Session` a wrong password is enough to end the server (`session_refused`); a
process killed while it writes `config.json` (`"kill"`, allowed in `session`)
leaves a file that no later start can read, since `IsConfigStructureCorrect`
tests only that it is there. Two processes at once (`"two"`) are not in the run
for the size of its liveness check; the safety properties are proved for them, too.

**Fairness.** `SharedQueue`: weak fairness of each thread's steps (threads are
scheduled, a mutex that is free again and again is obtained), none of the
signal, of spurious wakeups, of the watcher's inserts, nor of an upload whose
server is silent. `Backup`: weak fairness of `Syncro` (the collector polls every
second), of every FileSipper and AsyncService, of removals, and of the start of
a stopped client; none of the user and of faults. `Store`: weak fairness of each
request once it has come (a thread that runs, a client that sends or is gone, so
that a read ends), none of its arrival. `Session`: weak fairness of each client,
each Service, the acceptor and main, strong fairness of accepting each client,
because the backlog is a queue; nobody has to start a process, change a file,
send a signal or kill anything.

## The proofs

`SharedQueueProofs` proves, for every finite set of sippers, every limit and
pool size, that `SharedQueue` satisfies `TypeOK`, `CounterExact`,
`HandedOverOnce`, `NoLostWork`, `NothingRunsAfterExit`, `NullOnlyAtShutdown` and
that it implements `WorkPool`. The assumptions are those named in `SharedQueue`:
the limit and the pool size are positive, the sippers are finitely many, and the
null pointer is none of them.

None of these is inductive by itself. The invariant `IInv` adds where a sipper
can be: each active sipper is exactly at one place (chosen by the sender, posted
or running), an inactive one is at none, the list has no repetition, the mutex is
held by the sender exactly at the program points between lock and unlock, and
what the sender knows about the flag at each point. The counter is exact because
each step changes the number of active sippers by what it does to the counter;
the lemmas about `PushFront`, `Erase` and cardinality give that number. The
theorem `Invariance` has one step for each action, and every property follows
from `IInv`.

`BackupProofs` proves, for every set of files and names, every number of
uploads, changes, faults and removals:

- `TypeCorrect`: `Spec => []TypeOK`, whichever guards are lifted. `TypeOK` is not
  inductive: that the clock stays in its range needs `now <= edits`, and that
  the two counters of removals do needs a bound on their sum. `IInv` has these.
- `NoRowForgotten`: `Spec => []SendingHasSipper`, if `Trouble` holds none of
  `clock`, `back` and `throw`; each of the three breaks it, and `user`,
  `removal`, `early`, `retry` and `restart` do not matter. `TimesInv` strengthens
  it: no version, and no time in the table or read by `InitHash`, is later than
  the clock, so a new version is newer than the row. A FileSipper that ends
  either settles its row or found no file; a step that ends none and writes no
  SENDING keeps the property (`NoneForgotten`); `Dispatch` writes SENDING
  together with the FileSipper. The assumption `NothingAssumption`, which says
  that the values for "nothing" are none of the others, is used here.

`BackupStored` proves two theorems about the same module. Both assume that `Trouble`
holds none of `user`, `removal`, `clock` and `retry` (`Orderly`), that there is at most
one fault, and that `back` is not lifted (`Single`); `early`, `restart` and `throw` may be
lifted. One fault is a connection that breaks or is refused, a file that cannot be opened or
read, a write that fails on the server, or a side that stops, at any of the steps of any upload.

- `SentMeansStored`: `Spec => []SentIsStored`. No assumption can be dropped: TLC finds a
  violation with any one of the five guards lifted, and with a second fault.
- `RegisteredCopyKept`: `Spec => CurrentCopyKept`. With one fault a file may be sent
  again although the server has it, so its copy is truncated while it is registered; the
  theorem says that such an upload always writes the whole content again, and that
  nothing else touches the copy or its row. TLC finds a violation with `user`,
  `removal` or `retry` lifted, and with a second fault. `clock` and `back` are assumed
  for the invariant's sake: with five changes, three uploads and two removals
  at once TLC finds no violation of this property without them.

The assumptions are what the code does not enforce, and the bound on faults belongs to
the code: the theorems say that nothing else is needed, and the table above what
happens without each.

The invariant `SInv` says of each file where its row, its file, the two trees that
`Syncro` holds, its uploads and the server's copy may stand to each other:

- `UploadsFit`, the part that carries the proof: every upload that is not settled
  sends what the file contains now (or, when its FileSipper has failed, nothing or a
  prefix), the service is at work on one upload of a file only, and what the
  service has found out so far (`equal`, `exists`, `answered`) is true of the
  server's copy. An upload queued twice is not excluded, and
  `UploadsFit` holds after any number of faults.
- `UnsentInv` and `StatInv`: a row in NEW or SENDING is up to date once `InitHash`
  has run, although the user may change the file between the `stat` and the write
  of the row. `RowInv`: a row with the file's time has its digest, also when the file
  was moved out and comes back (`AwayFits`).
- `GoneInv`: no removal is on its way for a file that exists, and no tree makes
  `SendRemoval` send one. `VersionInv`: no version is later than the clock.
- With one fault, `FirstInv` (before the fault nothing is sent twice) and
  `ListedInv` (what the server lists with the time of the file has its content, or
  the service that has truncated it will write all of it). `ListedInv` is what
  `AlignStatus` relies on when it marks rows SENT, and what a second fault breaks. It
  is also why a held copy stays held: `RowKept` and `FileKept` say that no step takes the
  row or the file, so the file is still listed, and what is listed is held (`ListedIsHeld`).
- `RunsInv`: what the program points of `Syncro` say about the process.

A step changes the view of one file, its row, one upload, or the server's copy, and leaves the rest
alone. The lemmas `Untouched`, `OneFile` and `OneUpload` say what the invariant
needs in each case, so that the lemma of an action only says what the action does.

`StoreProofs` proves, for every tree of folders (`PathAssumption` says that the
path to a folder on a path is the beginning of that path), every set of trees,
removals and uploads, every list of names and every number of attempts:

- `TypeCorrect` and `Deserved` (`Spec => AttemptsAreDeserved`), whichever guards
  are lifted. `IInv` adds to the types where a removal is in its list (`RemovalInv`), that
  whatever exists lies in folders that exist (`PathInv`), and that as many folders have gone
  as attempts have been lost, and one more when the iterator still has a folder
  before it that is no more (`AttemptInv`). `PathInv` is what makes a new attempt
  start with nothing vanished before it, and it is kept by `RemovesFolder` because
  a folder on the path of something that exists is never empty (`Below`).
- `ServerRuns`, assuming only that no server was stopped halfway through creating the account
  (`"halfway"` not lifted): however many handlers create it at once, a request finds no table
  only while one of them is at `createTable`. `Window` says what this rests on: nothing is
  done to an account before its folder is there, and whoever created the folder either
  has created the table or is about to. The step that could end it is `CreateTable`, and it
  leaves a table.
- `AnswerIsTrue` and `Complete`, assuming that one handler at a time creates an account
  (`"creators"` not lifted); the table above says what fails otherwise. `AInv` adds that an account is settled before
  anything is done to it, which means that its folder is there and nobody is about to
  create its table (`Settled`, `AccountInv`); that the iterator still comes to every
  file that was there all the while, or to a folder above it (`WalkInv`, again by
  `Below`); and that an
  upload nobody has interfered with is the only one to have its file open, with
  its own content in it from the digest on (`UploadInv`). An account that a stopped
  server has left without its table (`"halfway"`) is settled, too: every request that
  asks for a row ends the process (`ExitsAInv`), but no answer is ever wrong.

`StoreFolders` proves `FoldersAnsweredFor`, `Spec => []NoEmptyFolders`, whichever
guards are lifted. While requests run there are empty folders, so the invariant
`FolderInv` says who answers for each: a folder holds something, or a removal has
it before it (`Handled`), or an upload has named a file below it and is under way or
not answered 1. The delicate step is `RemovesFolder`: what it removes may have been
the last entry of the folder above, and the same removal goes on to that one,
which its position in the path shows (`ClimbInv`). An upload whose first read ended
before the name of its file has made no folder, and excuses none.

`SessionProofs` proves, for every set of accounts, client processes and command
lines, and whichever guards are lifted, `TypeCorrect`, `StopMessageIsUnread`,
`LoginIsRight` and `FailedEndServer`. `IInv` relates the two ends of a
connection: a client that waits has its message on its connection, an answer on it
is the answer to this message, "true" only for a message with the name and hash of
an account, a Service belongs to an accepted connection, and the connection of
`Server::Stop` exists only after `stop_` is set, so that `Spawns` drops it.
`FailedEndServer` holds wherever the accounts stand at the start, and in
whatever order Services, uploads, stops and starts bring them on.
`Spawns` reads `accepted`, a step after `Accepts` has set it: what keeps the two together is
the part about the acceptor. The assumptions are that accounts are pairs of a
name and a hash, that the server's own connection is no client's, that the
options are options, and that the values for "no file", "unreadable" and "wrong
option" are none of the others.

Every invariant and every property of steps that a passing run checks is stated by one of
these theorems, and so is the refinement of `WorkPool`. Only model-checked are the
liveness properties (`EverySipperSent`, `ShutdownEndsOrSleeps`, `Converges`,
`ConvergesOrSticks`, `EveryUploadEnds`, `EveryRequestEnds`, `ServerStops`,
`NobodyWaits`): they hold by fairness, and liveness is beyond the prover. So is what
the code does without the guards that a theorem assumes; the runs that expect a
violation show some of it.

## Plan

1. `SharedQueue`, `WorkPool`, `SharedQueueProofs`: done.
2. `Backup`, `BackupProofs`, `BackupStored`: done for one account, with files sent in one step.
3. `Store`, `StoreProofs`, `StoreFolders`: done for one account.
4. `Settings`, `Session`, `SessionProofs`: done.
5. Left to prove: `AnswerIsTrue` for an account that has its table when `creators` is
   lifted.
6. Left to model, in this order: FileSipper and AsyncService sip by sip, as an
   implementation of the one step that `Backup` takes; the batches of the
   collector as an implementation of `dirty`; the unsynchronised `get_Instance`;
   several accounts, which share only the database's mutex.

## Not modelled

- *Sips.* A file is sent and received in one step. What a transfer in pieces can
  make differ is in the models: a first read that is cut short (`cut` in `Store`),
  a connection that breaks at any moment, a file that changes or vanishes while it
  is read, and a digest that differs for any of these reasons.
- *The collector's batches.* One flag of `Backup` says that events wait.
- *`SharedQueue::get_Instance`.* The queue exists from the beginning; whether two
  threads may create it at once is listed as a hazard.
- *Address and port.* A port above 65535 passes the pattern of the endpoint and is
  narrowed when it is used; that is arithmetic of one line, not a state.
- *The acceptor of uploads.* `AsyncAcceptClient` accepts for ever; what its `Stop`
  does to handlers that run is a part of `Signal`.
- *`Patch` as an algorithm.* The merges are `std::set_difference` and
  `std::set_intersection`; `Backup` states what they compute.
- *Prompts, printing and JSON.* They hold no state that the properties speak of;
  what a message without a member or an unreadable file does to a process is
  modelled. The digest is taken to be injective. Files ending in `~` and sizes are
  left out.
- *Third-party code.* SQLite, SQLiteCpp, asio, Panoptes, rapidjson and Crypto++ are
  vendored as sources and headers: nearly all of the lines under `src/` are theirs.
  They are represented by what the sources rely on; Panoptes' collector, which runs
  `Syncro`, is the only one with a part in a model.
- *The client's test program* is written against classes that no longer exist.
