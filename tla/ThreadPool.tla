----------------------------- MODULE ThreadPool -----------------------------
(***************************************************************************)
(* The thread pool of the server (src/src/thpool.c): a queue of jobs, a    *)
(* binary semaphore that stands for "there are jobs", two counters, and    *)
(* threads that wait on the semaphore.  One owner creates the pool, adds   *)
(* jobs, may wait for all of them, and destroys the pool; a job may add    *)
(* further jobs while it runs.                                             *)
(*                                                                         *)
(* A critical section is one action.  A condition variable is the set of   *)
(* threads asleep on it: a signal takes one of them out, a broadcast all,  *)
(* and a thread may also wake up by itself.                                *)
(***************************************************************************)
EXTENDS Naturals, Sequences, FiniteSets

CONSTANTS Threads, Jobs, NoJob

ASSUME PoolAssumption == /\ IsFiniteSet(Threads) /\ Threads # {}
                         /\ NoJob \notin Jobs

VARIABLES
    queue,      \* the jobs of the queue, from front to rear
    v, asleep,  \* the binary semaphore and the threads asleep on it
    keepalive,  \* threads_keepalive
    alive,      \* num_threads_alive
    working,    \* num_threads_working
    pc, job,    \* what each thread does next, and the job it runs
    owner,      \* what the owner of the pool does next
    todo,       \* the jobs nobody has added yet
    done        \* the jobs that ended

sem     == <<v, asleep>>
counts  == <<alive, working>>
vars == <<queue, sem, keepalive, counts, pc, job, owner, todo, done>>

Init ==
    /\ queue = <<>> /\ v = 0 /\ asleep = {}
    /\ keepalive = TRUE /\ alive = 0 /\ working = 0
    /\ pc = [t \in Threads |-> "start"]
    /\ job = [t \in Threads |-> NoJob]
    /\ owner = "init" /\ todo = Jobs /\ done = {}

----------------------------------------------------------------------------
(* The binary semaphore and the queue. *)

Wake_None == asleep' = asleep
Wake == \/ asleep = {} /\ asleep' = {}
        \/ \E t \in asleep : asleep' = asleep \ {t}

bsem_post == v' = 1 /\ Wake
bsem_post_all == v' = 1 /\ asleep' = {}

\* jobqueue_push: the semaphore is posted for every job.
jobqueue_push_Front(j) == queue' = <<j>> \o queue /\ bsem_post
jobqueue_push(j) == queue' = Append(queue, j) /\ bsem_post

\* jobqueue_pull: the semaphore is posted again if jobs remain.
Repost_Never == UNCHANGED sem
Repost == IF Len(queue) > 1 THEN bsem_post ELSE UNCHANGED sem
jobqueue_pull_Kept == queue' = queue /\ Repost
jobqueue_pull == queue' = Tail(queue) /\ Repost

----------------------------------------------------------------------------
(* A thread of the pool (thread_do). *)

Goto(t, next) == pc' = [pc EXCEPT ![t] = next]

ThreadStart(t) ==
    /\ pc[t] = "start"
    /\ alive' = alive + 1
    /\ Goto(t, "test")
    /\ UNCHANGED <<queue, sem, keepalive, working, job, owner, todo, done>>

ThreadTest(t) ==
    /\ pc[t] = "test"
    /\ Goto(t, IF keepalive THEN "bsem" ELSE "exit")
    /\ UNCHANGED <<queue, sem, keepalive, counts, job, owner, todo, done>>

\* bsem_wait: takes the token, or sleeps until there is one.
ThreadSem(t) ==
    /\ pc[t] = "bsem" /\ t \notin asleep
    /\ IF v = 1 THEN v' = 0 /\ Goto(t, "woken") /\ UNCHANGED asleep
                ELSE asleep' = asleep \cup {t} /\ UNCHANGED <<v, pc>>
    /\ UNCHANGED <<queue, keepalive, counts, job, owner, todo, done>>

SpuriousWakeup(t) ==
    /\ t \in asleep /\ asleep' = asleep \ {t}
    /\ UNCHANGED <<queue, v, keepalive, counts, pc, job, owner, todo, done>>

ThreadWoken(t) ==
    /\ pc[t] = "woken"
    /\ Goto(t, IF keepalive THEN "count" ELSE "test")
    /\ UNCHANGED <<queue, sem, keepalive, counts, job, owner, todo, done>>

ThreadCount_Skipped(t) ==
    /\ pc[t] = "count"
    /\ Goto(t, "pull")
    /\ UNCHANGED <<queue, sem, keepalive, counts, job, owner, todo, done>>
ThreadCount(t) ==
    /\ pc[t] = "count"
    /\ working' = working + 1
    /\ Goto(t, "pull")
    /\ UNCHANGED <<queue, sem, keepalive, alive, job, owner, todo, done>>

\* The token may have been for a job another thread has taken.
ThreadPull(t) ==
    /\ pc[t] = "pull"
    /\ IF queue = <<>>
       THEN Goto(t, "uncount") /\ UNCHANGED <<queue, sem, job>>
       ELSE /\ jobqueue_pull
            /\ job' = [job EXCEPT ![t] = Head(queue)]
            /\ Goto(t, "run")
    /\ UNCHANGED <<keepalive, counts, owner, todo, done>>

\* A job adds another job (thpool_add_work), as dispatch_read does ...
ThreadAdd(t, j) ==
    /\ pc[t] = "run" /\ j \in todo
    /\ jobqueue_push(j)
    /\ todo' = todo \ {j}
    /\ UNCHANGED <<keepalive, counts, pc, job, owner, done>>

\* ... and ends.
ThreadRun(t) ==
    /\ pc[t] = "run"
    /\ done' = done \cup {job[t]}
    /\ job' = [job EXCEPT ![t] = NoJob]
    /\ Goto(t, "uncount")
    /\ UNCHANGED <<queue, sem, keepalive, counts, owner, todo>>

\* The last working thread signals threads_all_idle.
AllIdle_Missed(n) == UNCHANGED owner
AllIdle(n) == owner' = IF n = 0 /\ owner = "asleep" THEN "wait" ELSE owner
ThreadUncount(t) ==
    /\ pc[t] = "uncount"
    /\ working' = working - 1
    /\ AllIdle(working')
    /\ Goto(t, "test")
    /\ UNCHANGED <<queue, sem, keepalive, alive, job, todo, done>>

\* The counter goes down before the mutex beside it is unlocked.
ThreadExit(t) ==
    /\ pc[t] = "exit"
    /\ alive' = alive - 1
    /\ Goto(t, "unlock")
    /\ UNCHANGED <<queue, sem, keepalive, working, job, owner, todo, done>>

ThreadGone(t) ==
    /\ pc[t] = "unlock"
    /\ Goto(t, "gone")
    /\ UNCHANGED <<queue, sem, keepalive, counts, job, owner, todo, done>>

ThreadStep(t) ==
    \/ ThreadStart(t) \/ ThreadTest(t) \/ ThreadSem(t) \/ ThreadWoken(t)
    \/ ThreadCount(t) \/ ThreadPull(t) \/ ThreadRun(t) \/ ThreadUncount(t)
    \/ ThreadExit(t) \/ ThreadGone(t)
Thread(t) == ThreadStep(t) \/ SpuriousWakeup(t) \/ \E j \in todo : ThreadAdd(t, j)

----------------------------------------------------------------------------
(* The owner of the pool. *)

\* thpool_init returns when every thread is alive.
OwnerInit ==
    /\ owner = "init" /\ alive = Cardinality(Threads)
    /\ owner' = "use"
    /\ UNCHANGED <<queue, sem, keepalive, counts, pc, job, todo, done>>

OwnerAdd(j) ==
    /\ owner = "use" /\ j \in todo
    /\ jobqueue_push(j)
    /\ todo' = todo \ {j}
    /\ UNCHANGED <<keepalive, counts, pc, job, owner, done>>

OwnerCallsWait ==
    /\ owner = "use" /\ owner' = "wait"
    /\ UNCHANGED <<queue, sem, keepalive, counts, pc, job, todo, done>>

\* thpool_wait: until no job is queued and no thread works.
Busy_IgnoresQueue == working # 0
Busy == Len(queue) # 0 \/ working # 0
OwnerWait ==
    /\ owner = "wait"
    /\ owner' = IF Busy THEN "asleep" ELSE "waited"
    /\ UNCHANGED <<queue, sem, keepalive, counts, pc, job, todo, done>>

OwnerSpuriousWakeup ==
    /\ owner = "asleep" /\ owner' = "wait"
    /\ UNCHANGED <<queue, sem, keepalive, counts, pc, job, todo, done>>

\* thpool_destroy: wakes the threads until none is alive, then frees all.
OwnerDestroy ==
    /\ owner \in {"use", "waited"} /\ owner' = "polling"
    /\ keepalive' = FALSE
    /\ UNCHANGED <<queue, sem, counts, pc, job, todo, done>>

OwnerPoll ==
    /\ owner = "polling" /\ alive # 0
    /\ bsem_post_all
    /\ UNCHANGED <<queue, keepalive, counts, pc, job, owner, todo, done>>

OwnerFree ==
    /\ owner = "polling" /\ alive = 0
    /\ owner' = "freed"
    /\ queue' = <<>> /\ v' = 0
    /\ UNCHANGED <<asleep, keepalive, counts, pc, job, todo, done>>

OwnerStep == OwnerInit \/ OwnerWait \/ OwnerPoll \/ OwnerFree
Owner == \/ OwnerStep \/ OwnerCallsWait \/ OwnerSpuriousWakeup \/ OwnerDestroy
         \/ \E j \in todo : OwnerAdd(j)

Ended == /\ owner = "freed" /\ \A t \in Threads : pc[t] = "gone"
         /\ UNCHANGED vars

Next == (\E t \in Threads : Thread(t)) \/ Owner \/ Ended

\* Threads run and calls of the library go on; nobody has to add or to wait.
Fairness == /\ \A t \in Threads : WF_vars(ThreadStep(t))
            /\ WF_vars(OwnerStep)

Spec == Init /\ [][Next]_vars
FairSpec == Spec /\ Fairness

----------------------------------------------------------------------------
(* Correctness. *)

TypeOK ==
    /\ queue \in Seq(Jobs) /\ v \in {0, 1} /\ asleep \subseteq Threads
    /\ keepalive \in BOOLEAN /\ alive \in Nat /\ working \in Nat
    /\ pc \in [Threads -> {"start", "test", "bsem", "woken", "count", "pull",
                           "run", "uncount", "exit", "unlock", "gone"}]
    /\ job \in [Threads -> Jobs \cup {NoJob}]
    /\ owner \in {"init", "use", "wait", "asleep", "waited", "polling", "freed"}
    /\ todo \subseteq Jobs /\ done \subseteq Jobs

\* No wake-up is lost: while there is a token, not every thread is asleep over
\* it, and while there are jobs there is a token or a thread on its way to the
\* queue (bsem_post signals one thread only; jobqueue_pull posts again).
NoLostWakeup ==
    /\ v = 1 /\ asleep # {} => \E t \in Threads : pc[t] = "bsem" /\ t \notin asleep
    /\ queue # <<>> /\ keepalive =>
          v = 1 \/ \E t \in Threads : pc[t] \in {"woken", "count", "pull"}

\* thpool_wait returns only when every job that was added has ended, even those
\* a job added while the owner slept.
WaitMeansDone == owner = "waited" => todo \cup done = Jobs

\* Each job is in one place: not added, in the queue once, run by one thread,
\* or ended; only destroying the pool drops any.
Running == {t \in Threads : pc[t] = "run"}
JobsAreDistinct ==
    /\ \A i, k \in DOMAIN queue : queue[i] = queue[k] => i = k
    /\ \A i \in DOMAIN queue : queue[i] \notin todo \cup done
    /\ \A t \in Running : /\ job[t] \in Jobs \ (todo \cup done)
                          /\ \A i \in DOMAIN queue : queue[i] # job[t]
                          /\ \A u \in Running : job[u] = job[t] => u = t
    /\ \A j \in todo : j \notin done

\* The pool is what the server expects.
JP == INSTANCE JobPool WITH pending <- queue, running <- {job[t] : t \in Running}
ImplementsJobPool == JP!Spec
EachJobRuns == JP!LiveSpec

\* A thpool_wait returns, and so does a thpool_destroy.
CallsReturn == /\ owner = "wait" ~> owner = "waited"
               /\ owner = "polling" ~> owner = "freed"

\* thpool_destroy frees the pool only when no thread uses it any more.
FreedOnlyWhenUnused ==
    owner = "freed" => \A t \in Threads : pc[t] = "gone"
=============================================================================
