------------------------------ MODULE WorkPool ------------------------------
(***************************************************************************)
(* What SharedQueue and Sender promise together, without the list, the     *)
(* counter, the condition variable and the flags they do it with: a job is *)
(* submitted once, begun once, at most Limit jobs are in progress at once, *)
(* no job is begun after the pool was closed, and a job that was begun may *)
(* still end when the pool was closed meanwhile.                           *)
(***************************************************************************)
EXTENDS Naturals, FiniteSets

CONSTANTS Job,   \* the jobs that may ever be submitted
          Limit  \* how many may be in progress at once

VARIABLES waiting, working, finished, open

poolVars == <<waiting, working, finished, open>>

Init == /\ waiting = {}
        /\ working = {}
        /\ finished = {}
        /\ open = TRUE

Submit(j) == /\ j \notin waiting \cup working \cup finished
             /\ waiting' = waiting \cup {j}
             /\ UNCHANGED <<working, finished, open>>

Begin(j) == /\ open
            /\ j \in waiting
            /\ Cardinality(working) < Limit
            /\ waiting' = waiting \ {j}
            /\ working' = working \cup {j}
            /\ UNCHANGED <<finished, open>>

End(j) == /\ j \in working
          /\ working' = working \ {j}
          /\ finished' = finished \cup {j}
          /\ UNCHANGED <<waiting, open>>

Close == /\ open' = FALSE
         /\ UNCHANGED <<waiting, working, finished>>

Next == \/ \E j \in Job : Submit(j) \/ Begin(j) \/ End(j)
        \/ Close

Spec == Init /\ [][Next]_poolVars
=============================================================================
