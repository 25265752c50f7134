------------------------------ MODULE JobPool ------------------------------
(***************************************************************************)
(* What the server expects of its thread pool: a job that was added is     *)
(* started, in the order of adding, once, and runs to its end, unless the  *)
(* pool is destroyed before it starts.                                     *)
(***************************************************************************)
EXTENDS Sequences

CONSTANT Jobs

VARIABLES pending,   \* the jobs that wait, in order
          running,   \* the jobs some thread executes
          done       \* the jobs that ended

vars == <<pending, running, done>>

Init == pending = <<>> /\ running = {} /\ done = {}

Known == {pending[i] : i \in DOMAIN pending} \cup running \cup done

Add == /\ \E j \in Jobs \ Known : pending' = Append(pending, j)
       /\ UNCHANGED <<running, done>>

Start == /\ pending # <<>>
         /\ running' = running \cup {Head(pending)}
         /\ pending' = Tail(pending)
         /\ UNCHANGED done

Finish(j) == /\ j \in running
             /\ running' = running \ {j}
             /\ done' = done \cup {j}
             /\ UNCHANGED pending

\* The pool is destroyed when no job runs; the jobs that wait are dropped.
Drop == /\ running = {}
        /\ pending' = <<>>
        /\ UNCHANGED <<running, done>>

Next == Add \/ Start \/ (\E j \in Jobs : Finish(j)) \/ Drop

Spec == Init /\ [][Next]_vars
LiveSpec == Spec /\ WF_vars(Start) /\ \A j \in Jobs : WF_vars(Finish(j))
=============================================================================
