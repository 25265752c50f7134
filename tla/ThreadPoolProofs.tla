--------------------------- MODULE ThreadPoolProofs ---------------------------
(***************************************************************************)
(* Proofs about ThreadPool, for any number of threads and of jobs.         *)
(*                                                                         *)
(* The parts of the inductive invariant, in the order they are proved: the *)
(* types and the two counters (Typed), the semaphore (SemInv), and the     *)
(* places of the jobs (JobsAreDistinct, Accounted).                        *)
(***************************************************************************)
EXTENDS ThreadPool, FiniteSetTheorems, TLAPS

\* The threads that num_threads_alive and num_threads_working count.
Working == {t \in Threads : pc[t] \in {"pull", "run", "uncount"}}
Alive == {t \in Threads : pc[t] \notin {"start", "unlock", "gone"}}

CountsAgree == alive = Cardinality(Alive) /\ working = Cardinality(Working)

RunnersHaveJobs == \A t \in Running : job[t] \in Jobs

Typed == TypeOK /\ CountsAgree /\ RunnersHaveJobs

SleepersWait == \A t \in asleep : pc[t] = "bsem"

\* Where a job may be.  The owner goes on when nothing is queued or running,
\* and no job can be added to an empty pool behind its back.
Queued == {queue[i] : i \in DOMAIN queue}
Executing == {job[t] : t \in Running}
Accounted ==
    /\ owner # "freed" => Jobs = todo \cup done \cup Queued \cup Executing
    /\ owner = "waited" => queue = <<>> /\ Running = {}

----------------------------------------------------------------------------
(* Types and counters. *)

\* One thread more, or one fewer, in a finite set of threads.
LEMMA CountThread ==
    ASSUME NEW S, S \subseteq Threads, NEW t \in Threads
    PROVE  /\ Cardinality(S) \in Nat
           /\ t \notin S => Cardinality(S \cup {t}) = Cardinality(S) + 1
           /\ t \in S => /\ Cardinality(S \ {t}) = Cardinality(S) - 1
                         /\ Cardinality(S) > 0
<1>1. IsFiniteSet(S)
    BY PoolAssumption, FS_Subset DEF PoolAssumption
<1>2. Cardinality(S) \in Nat
    BY <1>1, FS_CardinalityType
<1>3. t \notin S => Cardinality(S \cup {t}) = Cardinality(S) + 1
    BY <1>1, FS_AddElement
<1>4. t \in S => Cardinality(S \ {t}) = Cardinality(S) - 1
    BY <1>1, FS_RemoveElement
<1>5. t \in S => Cardinality(S) > 0
    BY <1>1, <1>2, FS_EmptySet
<1> QED
    BY <1>2, <1>3, <1>4, <1>5

\* At first no thread counts.
LEMMA InitTypes == Init => Typed
<1> SUFFICES ASSUME Init PROVE Typed
    OBVIOUS
<1>1. TypeOK
    BY DEF Init, TypeOK
<1>2. Working = {} /\ Alive = {} /\ Running = {}
    BY DEF Init, Working, Alive, Running
<1> QED
    BY <1>1, <1>2, FS_EmptySet DEF Typed, CountsAgree, RunnersHaveJobs, Init

\* A thread that moves between two points of the code enters or leaves the sets
\* that the counters count.
LEMMA GotoCounts ==
    ASSUME TypeOK, NEW t \in Threads, NEW p, Goto(t, p)
    PROVE  /\ Working' = IF p \in {"pull", "run", "uncount"}
                         THEN Working \cup {t} ELSE Working \ {t}
           /\ Alive' = IF p \notin {"start", "unlock", "gone"}
                       THEN Alive \cup {t} ELSE Alive \ {t}
           /\ Running' = IF p = "run" THEN Running \cup {t} ELSE Running \ {t}
BY DEF TypeOK, Goto, Working, Alive, Running

\* What jobqueue_push and jobqueue_pull do to the types.
LEMMA PushTypes ==
    ASSUME TypeOK, NEW j \in Jobs, jobqueue_push(j)
    PROVE  queue' \in Seq(Jobs) /\ v' \in {0, 1} /\ asleep' \subseteq Threads
BY DEF TypeOK, jobqueue_push, bsem_post, Wake

LEMMA PullTypes ==
    ASSUME TypeOK, queue # <<>>, jobqueue_pull
    PROVE  /\ queue' \in Seq(Jobs) /\ v' \in {0, 1} /\ asleep' \subseteq Threads
           /\ Head(queue) \in Jobs
BY DEF TypeOK, jobqueue_pull, Repost, bsem_post, Wake, sem

\* A thread keeps the types, and the counters follow it.
LEMMA ThreadTypes ==
    ASSUME Typed, NEW t \in Threads, Thread(t)
    PROVE  TypeOK' /\ CountsAgree'
<1> USE DEF Typed, CountsAgree, sem, counts
<1>0. /\ Working \subseteq Threads /\ Alive \subseteq Threads
      /\ t \in Working <=> pc[t] \in {"pull", "run", "uncount"}
      /\ t \in Alive <=> pc[t] \notin {"start", "unlock", "gone"}
    BY DEF Working, Alive
<1>1. /\ t \notin Working => Cardinality(Working \cup {t}) = working + 1
      /\ t \in Working => /\ Cardinality(Working \ {t}) = working - 1
                          /\ working > 0
    BY <1>0, CountThread
<1>2. /\ t \notin Alive => Cardinality(Alive \cup {t}) = alive + 1
      /\ t \in Alive => /\ Cardinality(Alive \ {t}) = alive - 1
                        /\ alive > 0
    BY <1>0, CountThread
<1>3. CASE ThreadStart(t)
    <2>1. TypeOK'
        BY <1>3 DEF TypeOK, ThreadStart, Goto
    <2>2. Working' = Working /\ Alive' = Alive \cup {t} /\ t \notin Alive
        BY <1>0, <1>3, GotoCounts DEF ThreadStart
    <2> QED
        BY <1>2, <1>3, <2>1, <2>2 DEF ThreadStart
<1>4. CASE ThreadTest(t)
    <2>1. TypeOK'
        BY <1>4 DEF TypeOK, ThreadTest, Goto
    <2>2. Working' = Working /\ Alive' = Alive
        BY <1>0, <1>4, GotoCounts DEF ThreadTest
    <2> QED
        BY <1>4, <2>1, <2>2 DEF ThreadTest
<1>5. CASE ThreadSem(t)
    <2>1. TypeOK'
        BY <1>5 DEF TypeOK, ThreadSem, Goto
    <2>2. Working' = Working /\ Alive' = Alive
        <3>1. CASE v = 1
            BY <1>0, <1>5, <3>1, GotoCounts DEF ThreadSem
        <3>2. CASE v # 1
            BY <1>5, <3>2 DEF ThreadSem, Working, Alive
        <3> QED
            BY <3>1, <3>2
    <2> QED
        BY <1>5, <2>1, <2>2 DEF ThreadSem
<1>6. CASE ThreadWoken(t)
    <2>1. TypeOK'
        BY <1>6 DEF TypeOK, ThreadWoken, Goto
    <2>2. Working' = Working /\ Alive' = Alive
        BY <1>0, <1>6, GotoCounts DEF ThreadWoken
    <2> QED
        BY <1>6, <2>1, <2>2 DEF ThreadWoken
<1>7. CASE ThreadCount(t)
    <2>1. TypeOK'
        BY <1>7 DEF TypeOK, ThreadCount, Goto
    <2>2. Working' = Working \cup {t} /\ t \notin Working /\ Alive' = Alive
        BY <1>0, <1>7, GotoCounts DEF ThreadCount
    <2> QED
        BY <1>1, <1>7, <2>1, <2>2 DEF ThreadCount
<1>8. CASE ThreadPull(t)
    <2>1. TypeOK'
        <3>1. CASE queue = <<>>
            BY <1>8, <3>1 DEF TypeOK, ThreadPull, Goto
        <3>2. CASE queue # <<>>
            BY <1>8, <3>2, PullTypes DEF TypeOK, ThreadPull, Goto
        <3> QED
            BY <3>1, <3>2
    <2>2. Working' = Working /\ Alive' = Alive
        <3>1. CASE queue = <<>>
            <4>1. Goto(t, "uncount") /\ pc[t] = "pull"
                BY <1>8, <3>1 DEF ThreadPull
            <4> QED
                BY <1>0, <4>1, GotoCounts
        <3>2. CASE queue # <<>>
            <4>1. Goto(t, "run") /\ pc[t] = "pull"
                BY <1>8, <3>2 DEF ThreadPull
            <4> QED
                BY <1>0, <4>1, GotoCounts
        <3> QED
            BY <3>1, <3>2
    <2> QED
        BY <1>8, <2>1, <2>2 DEF ThreadPull
<1>9. CASE \E j \in todo : ThreadAdd(t, j)
    <2>1. PICK j \in todo : ThreadAdd(t, j)
        BY <1>9
    <2>2. j \in Jobs
        BY DEF TypeOK
    <2>3. TypeOK'
        BY <2>1, <2>2, PushTypes DEF TypeOK, ThreadAdd
    <2> QED
        BY <2>1, <2>3 DEF ThreadAdd, Working, Alive
<1>10. CASE ThreadRun(t)
    <2>1. job[t] \in Jobs
        BY <1>10 DEF RunnersHaveJobs, Running, ThreadRun
    <2>2. Working' = Working /\ Alive' = Alive
        BY <1>0, <1>10, GotoCounts DEF ThreadRun
    <2>3. TypeOK'
        BY <1>10, <2>1 DEF TypeOK, ThreadRun, Goto
    <2> QED
        BY <1>10, <2>2, <2>3 DEF ThreadRun
<1>11. CASE ThreadUncount(t)
    <2>1. Working' = Working \ {t} /\ t \in Working /\ Alive' = Alive
        BY <1>0, <1>11, GotoCounts DEF ThreadUncount
    <2>2. TypeOK'
        BY <1>1, <1>11, <2>1 DEF TypeOK, ThreadUncount, AllIdle, Goto
    <2> QED
        BY <1>1, <1>11, <2>1, <2>2 DEF ThreadUncount
<1>12. CASE ThreadExit(t)
    <2>1. Alive' = Alive \ {t} /\ t \in Alive /\ Working' = Working
        BY <1>0, <1>12, GotoCounts DEF ThreadExit
    <2>2. TypeOK'
        BY <1>2, <1>12, <2>1 DEF TypeOK, ThreadExit, Goto
    <2> QED
        BY <1>2, <1>12, <2>1, <2>2 DEF ThreadExit
<1>13. CASE ThreadGone(t)
    <2>1. TypeOK'
        BY <1>13 DEF TypeOK, ThreadGone, Goto
    <2>2. Working' = Working /\ Alive' = Alive
        BY <1>0, <1>13, GotoCounts DEF ThreadGone
    <2> QED
        BY <1>13, <2>1, <2>2 DEF ThreadGone
<1>14. CASE SpuriousWakeup(t)
    BY <1>14 DEF TypeOK, SpuriousWakeup, Working, Alive
<1> QED
    BY <1>3, <1>4, <1>5, <1>6, <1>7, <1>8, <1>9, <1>10, <1>11, <1>12, <1>13,
       <1>14 DEF Thread, ThreadStep

\* The owner keeps the types and moves no thread.
LEMMA OwnerTypes ==
    ASSUME TypeOK, CountsAgree, Owner PROVE TypeOK' /\ CountsAgree'
<1>1. TypeOK'
    <2>1. CASE \E j \in todo : OwnerAdd(j)
        <3>1. PICK j \in todo : OwnerAdd(j)
            BY <2>1
        <3>2. j \in Jobs
            BY DEF TypeOK
        <3> QED
            BY <3>1, <3>2, PushTypes DEF TypeOK, OwnerAdd, counts
    <2>2. CASE OwnerInit \/ OwnerWait
        BY <2>2 DEF TypeOK, OwnerInit, OwnerWait, sem, counts
    <2>3. CASE OwnerCallsWait \/ OwnerSpuriousWakeup \/ OwnerDestroy
        BY <2>3 DEF TypeOK, OwnerCallsWait, OwnerSpuriousWakeup, OwnerDestroy, sem,
           counts
    <2>4. CASE OwnerPoll
        BY <2>4 DEF TypeOK, OwnerPoll, bsem_post_all, counts
    <2>5. CASE OwnerFree
        BY <2>5 DEF TypeOK, OwnerFree, counts
    <2> QED
        BY <2>1, <2>2, <2>3, <2>4, <2>5 DEF Owner, OwnerStep
<1>2. UNCHANGED <<pc, alive, working>>
    BY DEF Owner, OwnerStep, OwnerInit, OwnerWait, OwnerPoll, OwnerFree, OwnerAdd,
       OwnerCallsWait, OwnerSpuriousWakeup, OwnerDestroy, counts
<1> QED
    BY <1>1, <1>2 DEF CountsAgree, Working, Alive

\* A thread that runs has the job it took from the queue.
LEMMA RunnersKeepJobs ==
    ASSUME Typed, [Next]_vars PROVE RunnersHaveJobs'
<1> USE DEF Typed, TypeOK, RunnersHaveJobs, Running, Goto
<1>1. CASE \E t \in Threads : ThreadPull(t)
    <2>1. PICK t \in Threads : ThreadPull(t)
        BY <1>1
    <2>2. queue # <<>> => Head(queue) \in Jobs
        OBVIOUS
    <2> QED
        BY <2>1, <2>2 DEF ThreadPull
<1>2. CASE \E t \in Threads : ThreadRun(t)
    BY <1>2 DEF ThreadRun
<1>3. CASE UNCHANGED <<pc, job>>
    BY <1>3
<1>4. CASE /\ UNCHANGED job
           /\ \E t \in Threads :
                 \E p \in {"test", "bsem", "woken", "count", "pull", "exit",
                           "unlock", "gone"} : Goto(t, p)
    BY <1>4
<1> QED
    BY <1>1, <1>2, <1>3, <1>4 DEF Next, Thread, ThreadStep, Ended, Owner, OwnerStep,
       ThreadStart, ThreadTest, ThreadSem, ThreadWoken, ThreadCount, ThreadAdd,
       ThreadUncount, ThreadExit, ThreadGone, SpuriousWakeup, OwnerInit, OwnerAdd,
       OwnerCallsWait, OwnerWait, OwnerSpuriousWakeup, OwnerDestroy, OwnerPoll,
       OwnerFree, vars

LEMMA NextTypes == ASSUME Typed, [Next]_vars PROVE Typed'
<1>1. CASE UNCHANGED vars
    BY <1>1 DEF Typed, TypeOK, CountsAgree, Working, Alive, RunnersHaveJobs,
       Running, vars, sem, counts
<1>2. CASE Next
    <2>1. TypeOK' /\ CountsAgree'
        BY <1>1, <1>2, ThreadTypes, OwnerTypes DEF Next, Ended, Typed
    <2> QED
        BY <2>1, RunnersKeepJobs DEF Typed
<1> QED
    BY <1>1, <1>2

\* Every variable stays in its type, whatever the threads and the jobs: the
\* counters never fall below zero.
THEOREM TypeCorrect == Spec => []TypeOK
<1>1. Typed /\ [Next]_vars => Typed'
    BY NextTypes
<1>2. Typed => TypeOK
    BY DEF Typed
<1> QED
    BY InitTypes, <1>1, <1>2, PTL DEF Spec

----------------------------------------------------------------------------
(* The semaphore. *)

SemInv == SleepersWait /\ NoLostWakeup

\* A post leaves the token behind and, if anyone slept, somebody awake.
LEMMA PostKeeps ==
    ASSUME TypeOK, SemInv, bsem_post, UNCHANGED pc
    PROVE  SemInv'
BY DEF TypeOK, SemInv, SleepersWait, NoLostWakeup, bsem_post, Wake

LEMMA ThreadSemInv ==
    ASSUME TypeOK, SemInv, NEW t \in Threads, Thread(t)
    PROVE  SemInv'
<1> USE DEF TypeOK, SemInv, SleepersWait, NoLostWakeup, sem, counts, Goto
<1>1. CASE ThreadStart(t)
    BY <1>1 DEF ThreadStart
<1>2. CASE ThreadTest(t)
    BY <1>2 DEF ThreadTest
<1>3. CASE ThreadSem(t)
    <2>1. CASE v = 1
        BY <1>3, <2>1 DEF ThreadSem
    <2>2. CASE v # 1
        BY <1>3, <2>2 DEF ThreadSem
    <2> QED
        BY <2>1, <2>2
<1>4. CASE ThreadWoken(t)
    BY <1>4 DEF ThreadWoken
<1>5. CASE ThreadCount(t)
    BY <1>5 DEF ThreadCount
<1>6. CASE ThreadPull(t)
    <2>1. CASE queue = <<>>
        BY <1>6, <2>1 DEF ThreadPull
    <2>2. CASE queue # <<>> /\ Len(queue) > 1
        BY <1>6, <2>2 DEF ThreadPull, jobqueue_pull, Repost, bsem_post, Wake
    <2>3. CASE queue # <<>> /\ ~(Len(queue) > 1)
        <3>1. Tail(queue) = <<>>
            BY <2>3
        <3> QED
            BY <1>6, <2>3, <3>1 DEF ThreadPull, jobqueue_pull, Repost
    <2> QED
        BY <2>1, <2>2, <2>3
<1>7. CASE \E j \in todo : ThreadAdd(t, j)
    BY <1>7, PostKeeps DEF ThreadAdd, jobqueue_push
<1>8. CASE ThreadRun(t)
    BY <1>8 DEF ThreadRun
<1>9. CASE ThreadUncount(t)
    BY <1>9 DEF ThreadUncount
<1>10. CASE ThreadExit(t)
    BY <1>10 DEF ThreadExit
<1>11. CASE ThreadGone(t)
    BY <1>11 DEF ThreadGone
<1>12. CASE SpuriousWakeup(t)
    BY <1>12 DEF SpuriousWakeup
<1> QED
    BY <1>1, <1>2, <1>3, <1>4, <1>5, <1>6, <1>7, <1>8, <1>9, <1>10, <1>11,
       <1>12 DEF Thread, ThreadStep

LEMMA OwnerSemInv == ASSUME TypeOK, SemInv, Owner PROVE SemInv'
<1> USE DEF TypeOK, SemInv, SleepersWait, NoLostWakeup, sem, counts
<1>1. CASE \E j \in todo : OwnerAdd(j)
    BY <1>1, PostKeeps DEF OwnerAdd, jobqueue_push
<1>2. CASE OwnerInit \/ OwnerWait
    BY <1>2 DEF OwnerInit, OwnerWait
<1>3. CASE OwnerCallsWait \/ OwnerSpuriousWakeup \/ OwnerDestroy
    BY <1>3 DEF OwnerCallsWait, OwnerSpuriousWakeup, OwnerDestroy
<1>4. CASE OwnerPoll
    BY <1>4 DEF OwnerPoll, bsem_post_all
<1>5. CASE OwnerFree
    BY <1>5 DEF OwnerFree
<1> QED
    BY <1>1, <1>2, <1>3, <1>4, <1>5 DEF Owner, OwnerStep

\* No wake-up is lost, whatever the number of threads and of jobs: a signal for
\* one thread per job is enough.
THEOREM WakeupsAreKept == Spec => []NoLostWakeup
<1>1. Init => SemInv
    BY DEF Init, SemInv, SleepersWait, NoLostWakeup
<1>2. TypeOK /\ SemInv /\ [Next]_vars => SemInv'
    <2> SUFFICES ASSUME TypeOK, SemInv, [Next]_vars PROVE SemInv'
        OBVIOUS
    <2>1. CASE UNCHANGED vars
        BY <2>1 DEF SemInv, SleepersWait, NoLostWakeup, vars, sem
    <2> QED
        BY <2>1, ThreadSemInv, OwnerSemInv DEF Next, Ended
<1>3. SemInv => NoLostWakeup
    BY DEF SemInv
<1> QED
    BY TypeCorrect, <1>1, <1>2, <1>3, PTL DEF Spec

----------------------------------------------------------------------------
(* The places of the jobs.  A step adds a job, starts one, ends one or frees *)
(* the pool, or else it moves no job.                                        *)

Adds(j) ==
    /\ queue' = Append(queue, j) /\ todo' = todo \ {j}
    /\ owner = "use" \/ Running # {}
    /\ Running' = Running /\ UNCHANGED <<job, owner, done>>
Starts(t) ==
    /\ queue # <<>> /\ queue' = Tail(queue)
    /\ t \notin Running /\ Running' = Running \cup {t}
    /\ job' = [job EXCEPT ![t] = Head(queue)]
    /\ UNCHANGED <<owner, todo, done>>
Ends(t) ==
    /\ t \in Running /\ Running' = Running \ {t}
    /\ job' = [job EXCEPT ![t] = NoJob]
    /\ done' = done \cup {job[t]}
    /\ UNCHANGED <<queue, owner, todo>>
Frees ==
    /\ Running = {} /\ Running' = {} /\ queue' = <<>> /\ owner' = "freed"
    /\ UNCHANGED <<job, todo, done>>
MovesNoJob ==
    /\ Running' = Running /\ UNCHANGED <<queue, job, todo, done>>
    /\ owner = "freed" => owner' = "freed"
    /\ owner' = "waited" => owner = "waited" \/ (queue = <<>> /\ Running = {})

\* Only a thread that pulls a job starts one, and only a thread that runs one
\* ends it.
LEMMA ThreadMovesJobs ==
    ASSUME Typed, NEW t \in Threads, Thread(t)
    PROVE  \/ \E j \in todo : Adds(j)
           \/ Starts(t) \/ Ends(t) \/ MovesNoJob
<1> USE DEF sem, counts
<1>0. TypeOK
    BY DEF Typed
<1>1. CASE ThreadPull(t) /\ queue # <<>>
    <2>1. Goto(t, "run") /\ pc[t] = "pull"
        BY <1>1 DEF ThreadPull
    <2>2. Running' = Running \cup {t} /\ t \notin Running
        BY <1>0, <2>1, GotoCounts DEF Running
    <2> QED
        BY <1>1, <2>2 DEF ThreadPull, jobqueue_pull, Starts
<1>2. CASE ThreadRun(t)
    <2>1. Running' = Running \ {t} /\ t \in Running
        BY <1>0, <1>2, GotoCounts DEF ThreadRun, Running
    <2> QED
        BY <1>2, <2>1 DEF ThreadRun, Ends
<1>3. CASE \E j \in todo : ThreadAdd(t, j)
    BY <1>3 DEF ThreadAdd, jobqueue_push, Adds, Running
<1>4. ASSUME UNCHANGED <<queue, job, todo, done>>,
             UNCHANGED owner \/ (owner = "asleep" /\ owner' = "wait"),
             Running' = Running
      PROVE  MovesNoJob
    BY <1>4 DEF MovesNoJob
<1>5. CASE SpuriousWakeup(t)
    <2>1. Running' = Running
        BY <1>5 DEF SpuriousWakeup, Running
    <2> QED
        BY <1>4, <1>5, <2>1 DEF SpuriousWakeup
<1>6. ASSUME NEW p, p # "run", pc[t] # "run", Goto(t, p) PROVE Running' = Running
    BY <1>0, <1>6, GotoCounts DEF Running
<1>7. CASE ThreadPull(t) /\ queue = <<>>
    BY <1>4, <1>6, <1>7 DEF ThreadPull
<1>8. CASE ThreadUncount(t)
    BY <1>4, <1>6, <1>8 DEF ThreadUncount, AllIdle
<1>9. CASE ThreadSem(t)
    <2>1. CASE v = 1
        BY <1>4, <1>6, <1>9, <2>1 DEF ThreadSem
    <2>2. CASE v # 1
        BY <1>4, <1>9, <2>2 DEF ThreadSem, Running
    <2> QED
        BY <2>1, <2>2
<1>10. CASE ThreadStart(t)
    BY <1>4, <1>6, <1>10 DEF ThreadStart
<1>11. CASE ThreadTest(t)
    BY <1>4, <1>6, <1>11 DEF ThreadTest
<1>12. CASE ThreadWoken(t)
    BY <1>4, <1>6, <1>12 DEF ThreadWoken
<1>13. CASE ThreadCount(t)
    BY <1>4, <1>6, <1>13 DEF ThreadCount
<1>14. CASE ThreadExit(t)
    BY <1>4, <1>6, <1>14 DEF ThreadExit
<1>15. CASE ThreadGone(t)
    BY <1>4, <1>6, <1>15 DEF ThreadGone
<1> QED
    BY <1>1, <1>2, <1>3, <1>5, <1>7, <1>8, <1>9, <1>10, <1>11, <1>12, <1>13,
       <1>14, <1>15 DEF Thread, ThreadStep

\* No thread runs a job when none is alive, nor when none is working.
LEMMA CountedRun ==
    ASSUME Typed PROVE alive = 0 \/ working = 0 => Running = {}
<1>1. Running \subseteq Alive /\ Running \subseteq Working
    BY DEF Running, Alive, Working
<1>2. IsFiniteSet(Alive) /\ IsFiniteSet(Working)
    BY PoolAssumption, FS_Subset DEF PoolAssumption, Alive, Working
<1> QED
    BY <1>1, <1>2, FS_EmptySet DEF Typed, CountsAgree

LEMMA OwnerMovesJobs ==
    ASSUME Typed, Owner
    PROVE  (\E j \in todo : Adds(j)) \/ Frees \/ MovesNoJob
<1> USE DEF sem, counts
<1>1. CASE \E j \in todo : OwnerAdd(j)
    BY <1>1 DEF OwnerAdd, jobqueue_push, Adds, Running
<1>2. CASE OwnerFree
    BY <1>2, CountedRun DEF OwnerFree, Frees, Running
<1>3. CASE OwnerWait
    <2>1. owner' = "waited" => queue = <<>> /\ Running = {}
        BY <1>3, CountedRun DEF OwnerWait, Busy, Typed, TypeOK
    <2> QED
        BY <1>3, <2>1 DEF OwnerWait, MovesNoJob, Running
<1>4. CASE OwnerInit \/ OwnerCallsWait \/ OwnerSpuriousWakeup
    BY <1>4 DEF OwnerInit, OwnerCallsWait, OwnerSpuriousWakeup, MovesNoJob, Running
<1>5. CASE OwnerDestroy \/ OwnerPoll
    BY <1>5 DEF OwnerDestroy, OwnerPoll, MovesNoJob, Running
<1> QED
    BY <1>1, <1>2, <1>3, <1>4, <1>5 DEF Owner, OwnerStep

LEMMA NextMovesJobs ==
    ASSUME Typed, [Next]_vars
    PROVE  \/ \E j \in todo : Adds(j)
           \/ \E t \in Threads : Starts(t) \/ Ends(t)
           \/ Frees \/ MovesNoJob
<1>1. CASE UNCHANGED vars
    <2>1. MovesNoJob
        BY <1>1 DEF vars, MovesNoJob, Running
    <2> QED
        BY <2>1
<1> QED
    BY <1>1, ThreadMovesJobs, OwnerMovesJobs DEF Next, Ended

\* Where the jobs of a queue are after one is appended, and after one is taken.
LEMMA QueueAfterAppend ==
    ASSUME TypeOK, NEW j \in Jobs, queue' = Append(queue, j)
    PROVE  /\ DOMAIN queue' = DOMAIN queue \cup {Len(queue) + 1}
           /\ Len(queue) + 1 \notin DOMAIN queue
           /\ \A i \in DOMAIN queue : queue'[i] = queue[i]
           /\ queue'[Len(queue) + 1] = j
           /\ Queued' = Queued \cup {j}
<1>1. /\ queue \in Seq(Jobs) /\ queue' \in Seq(Jobs) /\ Len(queue) \in Nat
      /\ Len(queue') = Len(queue) + 1
    BY DEF TypeOK
<1>2. DOMAIN queue = 1..Len(queue) /\ DOMAIN queue' = 1..(Len(queue) + 1)
    BY <1>1
<1>3. /\ DOMAIN queue' = DOMAIN queue \cup {Len(queue) + 1}
      /\ Len(queue) + 1 \notin DOMAIN queue
    BY <1>1, <1>2
<1>4. /\ \A i \in DOMAIN queue : queue'[i] = queue[i]
      /\ queue'[Len(queue) + 1] = j
    BY <1>1, <1>2
<1> QED
    BY <1>3, <1>4 DEF Queued

LEMMA QueueAfterTail ==
    ASSUME TypeOK, queue # <<>>, queue' = Tail(queue)
    PROVE  /\ 1 \in DOMAIN queue /\ Head(queue) = queue[1]
           /\ \A i \in DOMAIN queue' : /\ i + 1 \in DOMAIN queue /\ i + 1 # 1
                                       /\ queue'[i] = queue[i + 1]
           /\ \A i, k \in DOMAIN queue' : i + 1 = k + 1 => i = k
           /\ Queued = Queued' \cup {Head(queue)}
<1>1. /\ queue \in Seq(Jobs) /\ queue' \in Seq(Jobs) /\ Len(queue) \in Nat
      /\ Len(queue) > 0 /\ Len(queue') = Len(queue) - 1
    BY DEF TypeOK
<1>2. DOMAIN queue = 1..Len(queue) /\ DOMAIN queue' = 1..(Len(queue) - 1)
    BY <1>1
<1>3. 1 \in DOMAIN queue /\ Head(queue) = queue[1]
    BY <1>1, <1>2
<1>4. \A i \in DOMAIN queue' : /\ i + 1 \in DOMAIN queue /\ i + 1 # 1
                               /\ queue'[i] = queue[i + 1]
    BY <1>1, <1>2
<1>5. \A i, k \in DOMAIN queue' : i + 1 = k + 1 => i = k
    BY <1>2
<1>6. \A i \in DOMAIN queue : i # 1 => i - 1 \in DOMAIN queue' /\ (i - 1) + 1 = i
    BY <1>1, <1>2
<1>7. Queued \subseteq Queued' \cup {Head(queue)}
    <2> SUFFICES ASSUME NEW i \in DOMAIN queue
                 PROVE  queue[i] \in Queued' \cup {Head(queue)}
        BY DEF Queued
    <2>1. CASE i = 1
        BY <1>3, <2>1
    <2>2. CASE i # 1
        BY <1>4, <1>6, <2>2 DEF Queued
    <2> QED
        BY <2>1, <2>2
<1>8. Queued' \cup {Head(queue)} \subseteq Queued
    BY <1>3, <1>4 DEF Queued
<1> QED
    BY <1>3, <1>4, <1>5, <1>7, <1>8

LEMMA DistinctKept ==
    ASSUME Typed, JobsAreDistinct, [Next]_vars PROVE JobsAreDistinct'
<1>0. TypeOK
    BY DEF Typed
<1>1. CASE \E j \in todo : Adds(j)
    <2>1. PICK j \in todo : Adds(j)
        BY <1>1
    <2>2. j \in Jobs /\ j \notin done
        BY <1>0 DEF TypeOK, JobsAreDistinct
    <2>3. queue' = Append(queue, j) /\ todo' = todo \ {j} /\ Running' = Running
          /\ job' = job /\ done' = done
        BY <2>1 DEF Adds
    <2>4. \A i \in DOMAIN queue : queue[i] # j
        BY DEF JobsAreDistinct
    <2>5. \A t \in Running : job[t] # j
        BY DEF JobsAreDistinct
    <2> QED
        BY <1>0, <2>2, <2>3, <2>4, <2>5, QueueAfterAppend DEF JobsAreDistinct
<1>2. CASE \E t \in Threads : Starts(t)
    <2>1. PICK t \in Threads : Starts(t)
        BY <1>2
    <2>2. /\ queue # <<>> /\ queue' = Tail(queue) /\ t \notin Running
          /\ Running' = Running \cup {t} /\ todo' = todo /\ done' = done
        BY <2>1 DEF Starts
    <2>3. job'[t] = Head(queue) /\ \A u \in Running : job'[u] = job[u]
        BY <1>0, <2>1 DEF Starts, Running, TypeOK
    <2>4. Head(queue) \in Jobs
        BY <1>0, <2>2 DEF TypeOK
    <2> QED
        BY <1>0, <2>2, <2>3, <2>4, QueueAfterTail DEF JobsAreDistinct
<1>3. CASE \E t \in Threads : Ends(t)
    <2>1. PICK t \in Threads : Ends(t)
        BY <1>3
    <2>2. /\ t \in Running /\ Running' = Running \ {t}
          /\ queue' = queue /\ todo' = todo /\ done' = done \cup {job[t]}
        BY <2>1 DEF Ends
    <2>3. \A u \in Running : u # t => job'[u] = job[u]
        BY <1>0, <2>1 DEF Ends, Running, TypeOK
    <2> QED
        BY <2>2, <2>3 DEF JobsAreDistinct
<1>4. CASE Frees
    BY <1>4 DEF Frees, JobsAreDistinct
<1>5. CASE MovesNoJob
    BY <1>5 DEF MovesNoJob, JobsAreDistinct
<1> QED
    BY <1>1, <1>2, <1>3, <1>4, <1>5, NextMovesJobs

\* Each job is in one place, whatever the number of threads and of jobs.
THEOREM EachJobInOnePlace == Spec => []JobsAreDistinct
<1>1. Init => JobsAreDistinct
    BY DEF Init, JobsAreDistinct, Running
<1>2. Typed /\ JobsAreDistinct /\ [Next]_vars => (Typed /\ JobsAreDistinct)'
    BY NextTypes, DistinctKept
<1> QED
    BY InitTypes, <1>1, <1>2, PTL DEF Spec

----------------------------------------------------------------------------
(* thpool_wait. *)

LEMMA AccountedKept ==
    ASSUME Typed, Accounted, [Next]_vars PROVE Accounted'
<1>0. TypeOK
    BY DEF Typed
<1>1. CASE \E j \in todo : Adds(j)
    <2>1. PICK j \in todo : Adds(j)
        BY <1>1
    <2>2. j \in Jobs
        BY <1>0 DEF TypeOK
    <2>3. /\ Executing' = Executing /\ Queued' = Queued \cup {j}
          /\ todo = todo' \cup {j} /\ done' = done
          /\ owner' = owner /\ Running' = Running
        BY <1>0, <2>1, <2>2, QueueAfterAppend DEF Adds, Executing
    <2>4. owner # "waited"
        BY <2>1 DEF Adds, Accounted
    <2> QED
        BY <2>3, <2>4 DEF Accounted
<1>2. CASE \E t \in Threads : Starts(t)
    <2>1. PICK t \in Threads : Starts(t)
        BY <1>2
    <2>2. /\ queue # <<>> /\ queue' = Tail(queue) /\ t \notin Running
          /\ Running' = Running \cup {t}
          /\ todo' = todo /\ done' = done /\ owner' = owner
        BY <2>1 DEF Starts
    <2>3. job'[t] = Head(queue) /\ \A u \in Running : job'[u] = job[u]
        BY <1>0, <2>1 DEF Starts, Running, TypeOK
    <2>4. Executing' = Executing \cup {Head(queue)}
        BY <2>2, <2>3 DEF Executing
    <2>5. Queued = Queued' \cup {Head(queue)}
        BY <1>0, <2>2, QueueAfterTail
    <2> QED
        BY <2>2, <2>4, <2>5 DEF Accounted
<1>3. CASE \E t \in Threads : Ends(t)
    <2>1. PICK t \in Threads : Ends(t)
        BY <1>3
    <2>2. /\ t \in Running /\ Running' = Running \ {t} /\ queue' = queue
          /\ todo' = todo /\ done' = done \cup {job[t]} /\ owner' = owner
        BY <2>1 DEF Ends
    <2>3. \A u \in Running : u # t => job'[u] = job[u]
        BY <1>0, <2>1 DEF Ends, Running, TypeOK
    <2>4. Executing \cup {job[t]} = Executing' \cup {job[t]}
        BY <2>2, <2>3 DEF Executing
    <2>5. job[t] \in Executing /\ Queued' = Queued
        BY <2>2 DEF Executing, Queued
    <2> QED
        BY <2>2, <2>4, <2>5 DEF Accounted
<1>4. CASE Frees
    BY <1>4 DEF Frees, Accounted
<1>5. CASE MovesNoJob
    <2>1. Executing' = Executing /\ Queued' = Queued
        BY <1>5 DEF MovesNoJob, Executing, Queued
    <2> QED
        BY <1>5, <2>1 DEF MovesNoJob, Accounted
<1> QED
    BY <1>1, <1>2, <1>3, <1>4, <1>5, NextMovesJobs

\* When thpool_wait returns, every job that was added has ended.
THEOREM WaitingIsEnough == Spec => []WaitMeansDone
<1>1. Init => Accounted
    BY DEF Init, Accounted, Queued, Executing, Running
<1>2. Typed /\ Accounted /\ [Next]_vars => (Typed /\ Accounted)'
    BY NextTypes, AccountedKept
<1>3. Accounted => WaitMeansDone
    <2> SUFFICES ASSUME Accounted, owner = "waited" PROVE todo \cup done = Jobs
        BY DEF WaitMeansDone
    <2>1. Queued = {} /\ Executing = {}
        BY DEF Accounted, Queued, Executing
    <2> QED
        BY <2>1 DEF Accounted
<1> QED
    BY InitTypes, <1>1, <1>2, <1>3, PTL DEF Spec

----------------------------------------------------------------------------
(* The pool is the job pool the server expects. *)

\* Every step is a step of the abstract pool, or leaves it as it is.
LEMMA StepImplements ==
    ASSUME Typed, JobsAreDistinct, [Next]_vars
    PROVE  [JP!Next]_(JP!vars)
<1> USE DEF JP!vars
<1>0. TypeOK
    BY DEF Typed
<1>1. CASE \E j \in todo : Adds(j)
    <2>1. PICK j \in todo : Adds(j)
        BY <1>1
    <2>2. j \in Jobs \ JP!Known
        BY <1>0 DEF TypeOK, JobsAreDistinct, JP!Known
    <2>3. queue' = Append(queue, j) /\ done' = done
        BY <2>1 DEF Adds
    <2>4. {job[t] : t \in Running}' = {job[t] : t \in Running}
        BY <2>1 DEF Adds
    <2>5. JP!Add
        BY <2>2, <2>3, <2>4 DEF JP!Add
    <2> QED
        BY <2>5 DEF JP!Next
<1>2. CASE \E t \in Threads : Starts(t)
    <2>1. PICK t \in Threads : Starts(t)
        BY <1>2
    <2>2. /\ queue # <<>> /\ queue' = Tail(queue) /\ t \notin Running
          /\ Running' = Running \cup {t} /\ done' = done
        BY <2>1 DEF Starts
    <2>3. job'[t] = Head(queue) /\ \A u \in Running : job'[u] = job[u]
        BY <1>0, <2>1 DEF Starts, Running, TypeOK
    <2>4. {job[u] : u \in Running}' = {job[u] : u \in Running} \cup {Head(queue)}
        BY <2>2, <2>3
    <2>5. JP!Start
        BY <2>2, <2>4 DEF JP!Start
    <2> QED
        BY <2>5 DEF JP!Next
<1>3. CASE \E t \in Threads : Ends(t)
    <2>1. PICK t \in Threads : Ends(t)
        BY <1>3
    <2>2. /\ t \in Running /\ Running' = Running \ {t} /\ queue' = queue
          /\ done' = done \cup {job[t]}
        BY <2>1 DEF Ends
    <2>3. \A u \in Running : u # t => job'[u] = job[u] /\ job[u] # job[t]
        BY <1>0, <2>1, <2>2 DEF Ends, Running, TypeOK, JobsAreDistinct
    <2>4. {job[u] : u \in Running}' = {job[u] : u \in Running} \ {job[t]}
        BY <2>2, <2>3
    <2>5. job[t] \in Jobs /\ job[t] \in {job[u] : u \in Running}
        BY <2>2 DEF JobsAreDistinct
    <2>6. PICK j \in Jobs : j = job[t]
        BY <2>5
    <2>7. JP!Finish(j)
        BY <2>2, <2>4, <2>5, <2>6 DEF JP!Finish
    <2> QED
        BY <2>7 DEF JP!Next
<1>4. CASE Frees
    <2>1. /\ {job[u] : u \in Running} = {} /\ {job[u] : u \in Running}' = {}
          /\ queue' = <<>> /\ done' = done
        BY <1>4 DEF Frees
    <2>2. JP!Drop
        BY <2>1 DEF JP!Drop
    <2> QED
        BY <2>2 DEF JP!Next
<1>5. CASE MovesNoJob
    <2>1. /\ {job[u] : u \in Running}' = {job[u] : u \in Running}
          /\ queue' = queue /\ done' = done
        BY <1>5 DEF MovesNoJob
    <2> QED
        BY <2>1
<1> QED
    BY <1>1, <1>2, <1>3, <1>4, <1>5, NextMovesJobs

\* The thread pool runs each job at most once, in the order of adding, and drops
\* jobs only when it is destroyed and none runs: it implements JobPool.
THEOREM PoolImplementsJobPool == Spec => ImplementsJobPool
<1>1. Init => JP!Init
    BY DEF Init, JP!Init, Running
<1>2. Typed /\ JobsAreDistinct /\ [Next]_vars => [JP!Next]_(JP!vars)
    BY StepImplements
<1>3. Spec => []Typed
    <2>1. Typed /\ [Next]_vars => Typed'
        BY NextTypes
    <2> QED
        BY InitTypes, <2>1, PTL DEF Spec
<1> QED
    BY <1>1, <1>2, <1>3, EachJobInOnePlace, PTL DEF Spec, ImplementsJobPool, JP!Spec

----------------------------------------------------------------------------
(* Nobody waits in vain.  Whether a thread, or a call of the owner, can go  *)
(* on is what its actions ask of the state, written out; adding a job and   *)
(* waking up by itself do not count.                                        *)

ThreadMayGoOn(t) == pc[t] # "gone" /\ (pc[t] = "bsem" => t \notin asleep)
OwnerMayGoOn == \/ owner = "init" /\ alive = Cardinality(Threads)
                \/ owner \in {"wait", "polling"}
Rests == ~OwnerMayGoOn /\ \A t \in Threads : ~ThreadMayGoOn(t)

\* If nothing goes on, no call of the owner is under way and no job is queued:
\* the pool waits for jobs, or is freed and all threads are gone.
NoCallIsStuck ==
    Rests => \/ /\ owner \in {"use", "waited"} /\ queue = <<>>
                /\ \A t \in Threads : pc[t] = "bsem"
             \/ owner = "freed" /\ \A t \in Threads : pc[t] = "gone"

\* The threads stop only when the pool is destroyed, all of them have started
\* before the pool is used, and thpool_wait sleeps only over work.
Course ==
    /\ keepalive <=> owner \notin {"polling", "freed"}
    /\ keepalive => \A t \in Threads : pc[t] \notin {"exit", "unlock", "gone"}
    /\ owner # "init" => \A t \in Threads : pc[t] # "start"
    /\ owner = "freed" => \A t \in Threads : pc[t] \in {"unlock", "gone"}
    /\ owner = "asleep" => queue # <<>> \/ working # 0

\* A thread keeps to that: who takes the last job works on it, and the last
\* that works wakes the owner.
LEMMA ThreadKeepsCourse ==
    ASSUME Typed, Course, NEW t \in Threads, Thread(t) PROVE Course'
<1>0. /\ pc \in [Threads -> {"start", "test", "bsem", "woken", "count", "pull",
                             "run", "uncount", "exit", "unlock", "gone"}]
      /\ keepalive \in BOOLEAN /\ alive \in Nat /\ working \in Nat /\ queue \in Seq(Jobs)
      /\ keepalive' = keepalive
    BY DEF Typed, TypeOK, Thread, ThreadStep, ThreadStart, ThreadTest, ThreadSem, ThreadWoken,
           ThreadCount, ThreadPull, ThreadRun, ThreadUncount, ThreadExit, ThreadGone,
           SpuriousWakeup, ThreadAdd
<1>1. pc[t] = "pull" => working # 0
    <2> SUFFICES ASSUME pc[t] = "pull" PROVE working # 0
        OBVIOUS
    <2>1. t \in Working /\ Working \subseteq Threads
        BY DEF Working
    <2>2. Cardinality(Working) \in Nat /\ Cardinality(Working) > 0
        BY <2>1, CountThread
    <2> QED
        BY <2>2 DEF Typed, CountsAgree
<1>2. CASE ThreadStart(t) \/ ThreadTest(t) \/ ThreadWoken(t) \/ ThreadExit(t) \/ ThreadGone(t)
    <2>1. owner' = owner /\ queue' = queue /\ working' = working
        BY <1>2 DEF ThreadStart, ThreadTest, ThreadWoken, ThreadExit, ThreadGone, counts
    <2>2. \A u \in Threads : u # t => pc'[u] = pc[u]
        BY <1>0, <1>2 DEF ThreadStart, ThreadTest, ThreadWoken, ThreadExit, ThreadGone, Goto
    <2>3. /\ pc'[t] # "start"
          /\ keepalive => pc'[t] \notin {"exit", "unlock", "gone"}
          /\ owner = "freed" => pc'[t] \in {"unlock", "gone"}
        BY <1>0, <1>2
        DEF Course, ThreadStart, ThreadTest, ThreadWoken, ThreadExit, ThreadGone, Goto
    <2> QED
        BY <1>0, <2>1, <2>2, <2>3 DEF Course
<1>3. CASE ThreadSem(t) \/ SpuriousWakeup(t)
    <2>1. owner' = owner /\ queue' = queue /\ working' = working
        BY <1>3 DEF ThreadSem, SpuriousWakeup, counts
    <2>2. \A u \in Threads : pc'[u] = pc[u] \/ (pc[u] = "bsem" /\ pc'[u] = "woken")
        BY <1>0, <1>3 DEF ThreadSem, SpuriousWakeup, Goto
    <2> QED
        BY <1>0, <2>1, <2>2 DEF Course
<1>4. CASE ThreadCount(t)
    <2>1. owner' = owner /\ queue' = queue /\ working' # 0
        BY <1>0, <1>4 DEF ThreadCount
    <2>2. \A u \in Threads : pc'[u] = pc[u] \/ (pc[u] = "count" /\ pc'[u] = "pull")
        BY <1>0, <1>4 DEF ThreadCount, Goto
    <2> QED
        BY <1>0, <2>1, <2>2 DEF Course
<1>5. CASE ThreadPull(t)
    <2>1. owner' = owner /\ working' = working /\ working # 0
        BY <1>1, <1>5 DEF ThreadPull, counts
    <2>2. \A u \in Threads : pc'[u] = pc[u] \/ (pc[u] = "pull" /\ pc'[u] \in {"uncount", "run"})
        BY <1>0, <1>5 DEF ThreadPull, Goto
    <2> QED
        BY <1>0, <2>1, <2>2 DEF Course
<1>6. CASE ThreadRun(t)
    <2>1. owner' = owner /\ queue' = queue /\ working' = working
        BY <1>6 DEF ThreadRun, counts
    <2>2. \A u \in Threads : pc'[u] = pc[u] \/ (pc[u] = "run" /\ pc'[u] = "uncount")
        BY <1>0, <1>6 DEF ThreadRun, Goto
    <2> QED
        BY <1>0, <2>1, <2>2 DEF Course
<1>7. CASE ThreadUncount(t)
    <2>1. /\ queue' = queue
          /\ owner' = IF working' = 0 /\ owner = "asleep" THEN "wait" ELSE owner
        BY <1>7 DEF ThreadUncount, AllIdle
    <2>2. \A u \in Threads : pc'[u] = pc[u] \/ (pc[u] = "uncount" /\ pc'[u] = "test")
        BY <1>0, <1>7 DEF ThreadUncount, Goto
    <2> QED
        BY <1>0, <2>1, <2>2 DEF Course
<1>8. CASE \E j \in todo : ThreadAdd(t, j)
    <2>1. PICK j \in todo : ThreadAdd(t, j)
        BY <1>8
    <2>2. owner' = owner /\ pc' = pc /\ queue' = Append(queue, j)
        BY <2>1 DEF ThreadAdd, jobqueue_push
    <2>3. queue' # <<>>
        BY <1>0, <2>2
    <2> QED
        BY <1>0, <2>2, <2>3 DEF Course
<1> QED
    BY <1>2, <1>3, <1>4, <1>5, <1>6, <1>7, <1>8 DEF Thread, ThreadStep

\* So does the owner.
LEMMA OwnerKeepsCourse ==
    ASSUME Typed, Course, Owner PROVE Course'
<1>0. /\ pc \in [Threads -> {"start", "test", "bsem", "woken", "count", "pull",
                             "run", "uncount", "exit", "unlock", "gone"}]
      /\ alive \in Nat /\ working \in Nat /\ queue \in Seq(Jobs)
      /\ pc' = pc /\ alive = Cardinality(Alive) /\ Alive \subseteq Threads
    BY DEF Typed, TypeOK, CountsAgree, Alive, Owner, OwnerStep, OwnerInit, OwnerWait, OwnerPoll, OwnerFree,
           OwnerCallsWait, OwnerSpuriousWakeup, OwnerDestroy, OwnerAdd
<1>1. CASE OwnerInit
    <2>1. Alive = Threads
        BY <1>0, <1>1, PoolAssumption, FS_Subset DEF OwnerInit
    <2>2. \A t \in Threads : pc[t] # "start"
        BY <2>1 DEF Alive
    <2> QED
        BY <1>0, <1>1, <2>2 DEF Course, OwnerInit
<1>2. CASE OwnerWait
    <2>1. owner = "wait" /\ owner' = IF Busy THEN "asleep" ELSE "waited"
        BY <1>2 DEF OwnerWait
    <2>2. Busy => queue' # <<>> \/ working' # 0
        BY <1>0, <1>2 DEF OwnerWait, Busy, counts
    <2>3. keepalive' = keepalive
        BY <1>2 DEF OwnerWait
    <2> QED
        BY <1>0, <2>1, <2>2, <2>3 DEF Course
<1>3. CASE OwnerPoll
    BY <1>0, <1>3 DEF Course, OwnerPoll
<1>4. CASE OwnerFree
    <2>1. Alive = {}
        <3>1. IsFiniteSet(Alive)
            BY <1>0, PoolAssumption, FS_Subset
        <3>2. Cardinality(Alive) = 0
            BY <1>0, <1>4 DEF OwnerFree
        <3> QED
            BY <3>1, <3>2, FS_EmptySet
    <2>2. \A t \in Threads : pc[t] \in {"start", "unlock", "gone"}
        BY <1>0, <2>1 DEF Alive
    <2> QED
        BY <1>0, <1>4, <2>2 DEF Course, OwnerFree
<1>5. CASE OwnerCallsWait \/ OwnerSpuriousWakeup
    BY <1>0, <1>5 DEF Course, OwnerCallsWait, OwnerSpuriousWakeup
<1>6. CASE OwnerDestroy
    BY <1>0, <1>6 DEF Course, OwnerDestroy
<1>7. CASE \E j \in todo : OwnerAdd(j)
    BY <1>0, <1>7 DEF Course, OwnerAdd
<1> QED
    BY <1>1, <1>2, <1>3, <1>4, <1>5, <1>6, <1>7 DEF Owner, OwnerStep

LEMMA CourseKept == Typed /\ Course /\ [Next]_vars => Course'
<1> SUFFICES ASSUME Typed, Course, [Next]_vars PROVE Course'
    OBVIOUS
<1>1. CASE UNCHANGED vars
    BY <1>1 DEF vars, Course, counts
<1> QED
    BY <1>1, ThreadKeepsCourse, OwnerKeepsCourse DEF Next, Ended

\* Threads that all sleep over a queue would have slept over a token.
LEMMA RestingPool ==
    ASSUME Typed, Course, NoLostWakeup PROVE NoCallIsStuck
<1> SUFFICES ASSUME Rests
             PROVE  \/ /\ owner \in {"use", "waited"} /\ queue = <<>>
                       /\ \A t \in Threads : pc[t] = "bsem"
                    \/ owner = "freed" /\ \A t \in Threads : pc[t] = "gone"
    BY DEF NoCallIsStuck
<1>0. /\ owner \in {"init", "use", "wait", "asleep", "waited", "polling", "freed"}
      /\ v \in {0, 1} /\ asleep \subseteq Threads
      /\ alive = Cardinality(Alive) /\ working = Cardinality(Working)
    BY DEF Typed, TypeOK, CountsAgree
<1>1. \A t \in Threads : pc[t] = "gone" \/ (pc[t] = "bsem" /\ t \in asleep)
    BY DEF Rests, ThreadMayGoOn
<1>2. owner \notin {"wait", "polling"}
    BY DEF Rests, OwnerMayGoOn
<1>3. CASE owner = "freed"
    BY <1>1, <1>3 DEF Course
<1>4. CASE owner # "freed"
    <2>1. \A t \in Threads : pc[t] = "bsem" /\ t \in asleep
        BY <1>1, <1>2, <1>4 DEF Course
    <2>2. keepalive
        BY <1>2, <1>4 DEF Course
    <2>3. queue = <<>>
        <3>1. v # 1
            BY <2>1, PoolAssumption DEF NoLostWakeup
        <3> QED
            BY <2>1, <2>2, <3>1 DEF NoLostWakeup
    <2>4. owner # "asleep"
        <3>1. Working = {}
            BY <2>1 DEF Working
        <3>2. working = 0
            BY <1>0, <3>1, FS_EmptySet
        <3> QED
            BY <2>3, <3>2 DEF Course
    <2>5. owner # "init"
        <3>1. Alive = Threads
            BY <2>1 DEF Alive
        <3> QED
            BY <1>0, <3>1 DEF Rests, OwnerMayGoOn
    <2> QED
        BY <1>0, <1>2, <1>4, <2>1, <2>3, <2>4, <2>5
<1> QED
    BY <1>3, <1>4

\* A thpool_init, a thpool_wait or a thpool_destroy that has been called, and a
\* job that has been queued, never wait for a wake-up that does not come: while
\* there is one, some thread or the owner can go on (thpool.c, the semaphore and
\* threads_all_idle).
THEOREM CallsGoOn == Spec => []NoCallIsStuck
<1>1. Init => Course
    BY DEF Init, Course
<1>2. Typed /\ Course /\ [Next]_vars => (Typed /\ Course)'
    BY NextTypes, CourseKept
<1>3. Typed /\ Course /\ NoLostWakeup => NoCallIsStuck
    BY RestingPool
<1> QED
    BY InitTypes, <1>1, <1>2, <1>3, WakeupsAreKept, PTL DEF Spec
=============================================================================
