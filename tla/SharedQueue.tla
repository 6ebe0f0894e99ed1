---------------------------- MODULE SharedQueue -----------------------------
(***************************************************************************)
(* The client's upload queue: SharedQueue (the list of FileSippers), the   *)
(* Sender loop that takes them from it, the boost thread pool that runs    *)
(* FileSipper::Send, and the shutdown that main() performs on SIGINT.      *)
(*                                                                         *)
(* Threads: the watcher (Syncro -> Patch::Dispatch -> insert), the sender  *)
(* (Sender_Action), the pool's workers (Send, then remove_element), main   *)
(* (its busy loop on is_terminated, then the two setFlag and the join).    *)
(*                                                                         *)
(* A critical section of insert and remove_element is one action: it never *)
(* waits while it holds the mutex.  get_ready_FileSipper is several,       *)
(* because setFlag changes the flag without taking the mutex.              *)
(***************************************************************************)
EXTENDS Naturals, Integers, FiniteSets, SequencesExt

CONSTANTS
    Sipper,     \* every FileSipper the watcher may create in a run (a bound)
    MaxActive,  \* MAX_CONCURRENT_ACTIVE_FS
    PoolSize,   \* threads of the pool: std::thread::hardware_concurrency()
    Silent,     \* sippers whose server neither answers nor closes the socket
    None        \* the null shared_ptr

ASSUME MaxActiveAssumption == MaxActive \in Nat \ {0}
ASSUME PoolSizeAssumption == PoolSize \in Nat \ {0}
ASSUME SipperAssumption == /\ IsFiniteSet(Sipper)
                           /\ Silent \subseteq Sipper
                           /\ None \notin Sipper

VARIABLES
    fs_list,     \* SharedQueue::fs_list, front first
    status,      \* FileSipper::status of each sipper
    active_fs,   \* SharedQueue::active_fs
    flag,        \* SharedQueue::flag, atomic
    mutex,       \* who holds SharedQueue::m between two actions
    senderFlag,  \* Sender::flag, a plain bool shared by two threads
    made,        \* sippers Dispatch has created so far
    pc,          \* where the sender thread is
    chosen_fs,   \* what get_ready_FileSipper returned last
    sawShutdown, \* the sender has read flag = FALSE: it synchronised with main
    posted,      \* tasks posted to the pool and not yet taken by a worker
    running,     \* tasks a worker is executing
    mainPc       \* where main() is

queueVars  == <<fs_list, status, active_fs, flag, mutex, made>>
senderVars == <<pc, chosen_fs, sawShutdown>>
poolVars   == <<posted, running>>
mainVars   == <<senderFlag, mainPc>>
vars == <<queueVars, senderVars, poolVars, mainVars>>

SenderPc == {"loop", "lock", "prewait", "waiting", "ready", "post", "join", "ended"}
MainPc   == {"spin", "terminated", "clearing", "notifying", "joining", "exited"}

Listed == ToSet(fs_list)
Active == {s \in Listed : status[s]}
Idle   == Listed \ Active

Init ==
    /\ fs_list = <<>>
    /\ status = [s \in Sipper |-> FALSE]
    /\ active_fs = 0
    /\ flag = TRUE
    /\ mutex = "free"
    /\ senderFlag = TRUE
    /\ made = {}
    /\ pc = "loop"
    /\ chosen_fs = None
    /\ sawShutdown = FALSE
    /\ posted = <<>>
    /\ running = {}
    /\ mainPc = "spin"

-----------------------------------------------------------------------------
(* cv.notify_all: the sender is the only thread that waits on cv.           *)
Woken == IF pc = "waiting" THEN "lock" ELSE pc

(* size() is a size_t: the counter is converted to it, and a negative one   *)
(* becomes larger than any size.                                            *)
AllActive == active_fs < 0 \/ Len(fs_list) <= active_fs

(* Bug: the limit is compared with > instead of >=.                         *)
MustWaitOffByOne == fs_list = <<>> \/ AllActive \/ active_fs > MaxActive

(* Bug: the wait does not ask whether every listed sipper is active.        *)
MustWaitIgnoresActive == fs_list = <<>> \/ active_fs >= MaxActive

(* The condition the predicate of cv.wait calls A.                          *)
MustWait == fs_list = <<>> \/ AllActive \/ active_fs >= MaxActive

(* Bug: insert does not notify.                                             *)
InsertSilently(s) ==
    /\ mutex = "free" /\ s \notin made /\ mainPc # "exited"
    /\ made' = made \cup {s}
    /\ fs_list' = <<s>> \o fs_list
    /\ UNCHANGED <<status, active_fs, flag, mutex, senderVars, poolVars, mainVars>>

(* SharedQueue::insert, called by Patch::Dispatch: in the first Syncro by   *)
(* main before the sender thread exists, later by the watcher thread.       *)
insert(s) ==
    /\ mutex = "free"
    /\ s \notin made
    /\ mainPc # "exited"
    /\ made' = made \cup {s}
    /\ fs_list' = <<s>> \o fs_list
    /\ pc' = Woken
    /\ UNCHANGED <<status, active_fs, flag, mutex, chosen_fs, sawShutdown>>
    /\ UNCHANGED <<poolVars, mainVars>>

(* Bug: remove_element does not notify.                                     *)
RemoveSilently(s) ==
    /\ mutex = "free"
    /\ \E i \in DOMAIN fs_list : fs_list[i] = s /\ fs_list' = RemoveAt(fs_list, i)
    /\ active_fs' = active_fs - 1
    /\ UNCHANGED <<status, flag, mutex, made, senderVars>>

(* SharedQueue::remove_element.  A sipper is inserted once, so list::remove *)
(* takes out the one element that is equal to it.                           *)
remove_element(s) ==
    /\ mutex = "free"
    /\ \E i \in DOMAIN fs_list : /\ fs_list[i] = s
                                 /\ fs_list' = RemoveAt(fs_list, i)
    /\ active_fs' = active_fs - 1
    /\ pc' = IF fs_list' # <<>> /\ 0 <= active_fs' /\ active_fs' < Len(fs_list')
               THEN Woken
               ELSE pc
    /\ UNCHANGED <<status, flag, mutex, made, chosen_fs, sawShutdown>>

-----------------------------------------------------------------------------
(* The sender thread.                                                       *)

(* while(flag): a plain bool written by main without synchronisation, so    *)
(* until the sender has synchronised with main (it read the atomic flag     *)
(* as false) it may read the new value or still the old one.                *)
SenderContinues ==
    /\ pc = "loop"
    /\ senderFlag \/ ~sawShutdown
    /\ pc' = "lock"
    /\ UNCHANGED <<queueVars, chosen_fs, sawShutdown, poolVars, mainVars>>

SenderLeavesLoop ==
    /\ pc = "loop"
    /\ ~senderFlag
    /\ pc' = "join"
    /\ UNCHANGED <<queueVars, chosen_fs, sawShutdown, poolVars, mainVars>>

(* cv.wait: take the mutex and evaluate the predicate.                      *)
SenderTests ==
    /\ pc = "lock"
    /\ mutex = "free"
    /\ mutex' = "sender"
    /\ pc' = IF MustWait /\ flag THEN "prewait" ELSE "ready"
    /\ UNCHANGED <<fs_list, status, active_fs, flag, made, chosen_fs, sawShutdown>>
    /\ UNCHANGED <<poolVars, mainVars>>

(* The predicate was false: release the mutex and block.  Whoever notifies  *)
(* between SenderTests and this step finds nobody waiting.                  *)
SenderBlocks ==
    /\ pc = "prewait"
    /\ mutex' = "free"
    /\ pc' = "waiting"
    /\ UNCHANGED <<fs_list, status, active_fs, flag, made, chosen_fs, sawShutdown>>
    /\ UNCHANGED <<poolVars, mainVars>>

SpuriousWakeup ==
    /\ pc = "waiting"
    /\ pc' = "lock"
    /\ UNCHANGED <<queueVars, chosen_fs, sawShutdown, poolVars, mainVars>>

(* Bug: the loop does not test the returned pointer for null.               *)
NullIsPosted ==
    /\ pc = "ready" /\ ~flag
    /\ sawShutdown' = TRUE /\ chosen_fs' = None
    /\ mutex' = "free" /\ pc' = "post"
    /\ UNCHANGED <<fs_list, status, active_fs, flag, made, poolVars, mainVars>>

(* if(!flag.load()) return nullptr.                                         *)
SenderSeesShutdown ==
    /\ pc = "ready"
    /\ ~flag
    /\ sawShutdown' = TRUE
    /\ chosen_fs' = None
    /\ mutex' = "free"
    /\ pc' = "loop"
    /\ UNCHANGED <<fs_list, status, active_fs, flag, made, poolVars, mainVars>>

(* Bug: the sipper handed over is not marked.                               *)
SearchWithoutMark ==
    /\ pc = "ready" /\ flag
    /\ \E i \in DOMAIN fs_list : ~status[fs_list[i]] /\ chosen_fs' = fs_list[i]
    /\ active_fs' = active_fs + 1 /\ mutex' = "free" /\ pc' = "post"
    /\ UNCHANGED <<fs_list, status, flag, made, sawShutdown, poolVars, mainVars>>

(* Bug: the search does not look at the flag first.                         *)
SearchAfterShutdown ==
    /\ pc = "ready"
    /\ \E i \in DOMAIN fs_list :
          /\ ~status[fs_list[i]]
          /\ status' = [status EXCEPT ![fs_list[i]] = TRUE]
          /\ chosen_fs' = fs_list[i]
    /\ active_fs' = active_fs + 1 /\ mutex' = "free" /\ pc' = "post"
    /\ UNCHANGED <<fs_list, flag, made, sawShutdown, poolVars, mainVars>>

(* The first element whose status is false is the one inserted last.  When  *)
(* the search finds none "there was a problem": a null pointer as well.     *)
SenderSearches ==
    /\ pc = "ready"
    /\ flag
    /\ IF Idle = {}
         THEN /\ chosen_fs' = None
              /\ pc' = "loop"
              /\ UNCHANGED <<status, active_fs>>
         ELSE \E i \in DOMAIN fs_list :
              /\ ~status[fs_list[i]]
              /\ \A j \in 1 .. (i-1) : status[fs_list[j]]
              /\ status' = [status EXCEPT ![fs_list[i]] = TRUE]
              /\ chosen_fs' = fs_list[i]
              /\ active_fs' = active_fs + 1
              /\ pc' = "post"
    /\ mutex' = "free"
    /\ UNCHANGED <<fs_list, flag, made, sawShutdown, poolVars, mainVars>>

(* boost::asio::post(pool, task).                                           *)
SenderPosts ==
    /\ pc = "post"
    /\ posted' = Append(posted, chosen_fs)
    /\ chosen_fs' = None
    /\ pc' = "loop"
    /\ UNCHANGED <<queueVars, sawShutdown, running, mainVars>>

(* Bug: the pool is stopped instead of joined.                              *)
SenderStopsPool ==
    /\ pc = "join"
    /\ pc' = "ended"
    /\ UNCHANGED <<queueVars, chosen_fs, sawShutdown, poolVars, mainVars>>

(* pool.join() returns when every posted task has run.                      *)
SenderJoinsPool ==
    /\ pc = "join"
    /\ posted = <<>>
    /\ running = {}
    /\ pc' = "ended"
    /\ UNCHANGED <<queueVars, chosen_fs, sawShutdown, poolVars, mainVars>>

-----------------------------------------------------------------------------
(* The workers of the pool.                                                 *)

WorkerTakes ==
    /\ posted # <<>>
    /\ Cardinality(running) < PoolSize
    /\ running' = running \cup {Head(posted)}
    /\ posted' = Tail(posted)
    /\ UNCHANGED <<queueVars, senderVars, mainVars>>

(* Send ends: through the callback that WaitOk calls after the answer, or   *)
(* with an exception that the task catches.  Both call remove_element once. *)
SendEnds(s) ==
    /\ s \in running
    /\ remove_element(s)
    /\ running' = running \ {s}
    /\ UNCHANGED <<posted, mainVars>>

-----------------------------------------------------------------------------
(* main().                                                                  *)

(* SIGINT or SIGTERM sets is_terminated, which the busy loop reads.         *)
Signal ==
    /\ mainPc = "spin"
    /\ mainPc' = "terminated"
    /\ UNCHANGED <<queueVars, senderVars, poolVars, senderFlag>>

(* sender.setFlag(false).                                                   *)
MainClearsSenderFlag ==
    /\ mainPc = "terminated"
    /\ senderFlag' = FALSE
    /\ mainPc' = "clearing"
    /\ UNCHANGED <<queueVars, senderVars, poolVars>>

(* Bug: main lowers only the flag of the Sender.                            *)
QueueFlagForgotten ==
    /\ mainPc = "clearing"
    /\ mainPc' = "notifying"
    /\ UNCHANGED <<queueVars, senderVars, poolVars, senderFlag>>

(* SharedQueue::setFlag(false), first statement: the store, no mutex.       *)
MainStoresFlag ==
    /\ mainPc = "clearing"
    /\ flag' = FALSE
    /\ mainPc' = "notifying"
    /\ UNCHANGED <<fs_list, status, active_fs, mutex, made, senderVars, poolVars, senderFlag>>

(* SharedQueue::setFlag(false), second statement: the notify, no mutex.     *)
MainNotifies ==
    /\ mainPc = "notifying"
    /\ pc' = Woken
    /\ mainPc' = "joining"
    /\ UNCHANGED <<queueVars, chosen_fs, sawShutdown, poolVars, senderFlag>>

(* thread_sender.join() returns and the program ends.                       *)
MainJoins ==
    /\ mainPc = "joining"
    /\ pc = "ended"
    /\ mainPc' = "exited"
    /\ UNCHANGED <<queueVars, senderVars, poolVars, senderFlag>>

-----------------------------------------------------------------------------
SenderNext == \/ SenderContinues \/ SenderLeavesLoop
              \/ SenderTests \/ SenderBlocks
              \/ SenderSeesShutdown \/ SenderSearches
              \/ SenderPosts \/ SenderJoinsPool

MainNext == MainClearsSenderFlag \/ MainStoresFlag \/ MainNotifies \/ MainJoins

Next == \/ \E s \in Sipper : insert(s) \/ SendEnds(s)
        \/ SenderNext
        \/ SpuriousWakeup
        \/ WorkerTakes
        \/ MainNext
        \/ Signal

Spec == Init /\ [][Next]_vars

(* Every thread that can go on eventually does.  A thread blocked on the    *)
(* mutex gets it, however often others hold it meanwhile: hence the strong  *)
(* fairness of remove_element.  The user need not press ^C, the folder need *)
(* not change, no wakeup need be spurious, and a silent server never lets   *)
(* Send end.                                                                *)
Fairness == /\ WF_vars(SenderNext)
            /\ WF_vars(MainNext)
            /\ WF_vars(WorkerTakes)
            /\ \A s \in Sipper \ Silent : SF_vars(SendEnds(s))

FairSpec == Spec /\ Fairness

-----------------------------------------------------------------------------
(* The values the variables may take.                                       *)
TypeOK ==
    /\ fs_list \in Seq(Sipper)
    /\ status \in [Sipper -> BOOLEAN]
    /\ active_fs \in Int
    /\ flag \in BOOLEAN /\ senderFlag \in BOOLEAN /\ sawShutdown \in BOOLEAN
    /\ mutex \in {"free", "sender"}
    /\ made \in SUBSET Sipper
    /\ pc \in SenderPc /\ mainPc \in MainPc
    /\ chosen_fs \in Sipper \cup {None}
    /\ posted \in Seq(Sipper)
    /\ running \in SUBSET Sipper

(* active_fs, which insert, get_ready_FileSipper and remove_element keep by *)
(* hand, is the number of sippers of the list that were handed over, and    *)
(* never more than MAX_CONCURRENT_ACTIVE_FS of them exist.                  *)
CounterExact == active_fs = Cardinality(Active) /\ active_fs <= MaxActive

(* Every sipper of the list whose status is true is in exactly one pair of  *)
(* hands (the sender's, the pool's queue, a worker), and no other sipper    *)
(* is in any: none is sent twice at once, none is marked and then forgotten.*)
HandedOverOnce ==
    LET inHand == {chosen_fs} \ {None}
    IN  /\ Active = inHand \cup ToSet(posted) \cup running
        /\ inHand \cap ToSet(posted) = {}
        /\ running \cap (inHand \cup ToSet(posted)) = {}
        /\ IsInjective(posted)

(* When the sender sleeps on the condition variable and nobody asked to     *)
(* stop, there is nothing it could hand over: no notify of insert or        *)
(* remove_element was lost, although remove_element does not always notify. *)
NoLostWork == pc = "waiting" /\ flag => MustWait

(* get_ready_FileSipper returns a null pointer only at shutdown: the end of *)
(* the search that its comment calls "a problem" is not reached.            *)
NullOnlyAtShutdown == [][pc = "ready" /\ pc' = "loop" => ~flag]_vars

(* When main returns, and with it the objects the tasks use go away, no     *)
(* task runs or waits for a worker: a file in transfer is finished first.   *)
NothingRunsAfterExit ==
    mainPc = "exited" => Active = {} /\ posted = <<>> /\ running = {}

(* As long as nobody asks to stop, every FileSipper that Dispatch inserted  *)
(* is sent and removed, if fewer servers stay silent than uploads may run.  *)
EverySipperSent ==
    \A s \in Sipper \ Silent : s \in made ~> (s \notin Listed \/ ~flag)

(* After ^C the program ends, unless the sender sleeps on the condition     *)
(* variable with the flag already false, or a worker still waits for a      *)
(* server that does not answer.                                             *)
ShutdownEndsOrSleeps ==
    mainPc = "terminated" ~>
        \/ mainPc = "exited"
        \/ pc = "waiting" /\ ~flag
        \/ running \cap Silent # {}

(* "We do notify to wakeup all the thead waiting on a cv. They will wakeup  *)
(* to terminate the program." (shared_queue.cpp, setFlag): after ^C the     *)
(* program ends.                                                            *)
ShutdownEnds == mainPc = "terminated" ~> mainPc = "exited"

-----------------------------------------------------------------------------
(* The queue implements the pool of jobs.                                   *)
Pool == INSTANCE WorkPool WITH
            Job <- Sipper, Limit <- MaxActive,
            waiting <- Idle, working <- Active,
            finished <- made \ Listed, open <- flag

(* A sipper is submitted, begun (never after shutdown, never above the      *)
(* limit) and ended once, in that order, whatever the threads do.           *)
ImplementsWorkPool == Pool!Spec
=============================================================================
