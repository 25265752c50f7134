---------------------------- MODULE Exploration ----------------------------
(***************************************************************************)
(* A whole run, in every process (main): how the ranks agree on the setup, *)
(* split into forwarders and clients, keep in step through the collective  *)
(* operations of three communicators, and end.  What a forwarder does with *)
(* a request is one step here: it is the abstraction FileService that      *)
(* Forwarder implements, and what can go wrong with its threads at the     *)
(* shutdown is in ServerThreads and ThreadPool.                            *)
(*                                                                         *)
(* The program of a rank is the sequence of its steps on others: those on  *)
(* a communicator, and its calls of the forwarder.                         *)
(***************************************************************************)
EXTENDS AccessPattern, Sequences, FiniteSets

CONSTANTS Setups,      \* the setups a run may have: see `given'
          NRequests    \* requests per client and phase

\* Each setup also has a handler and a thread in the pool, which no check of the
\* code asks for: without them a forwarder does not answer.
ASSUME SetupsAssumption ==
    /\ Setups \subseteq [world : Nat \ {0}, forwarders : Nat \ {0},
                         phases : (SUBSET {"write", "read"}) \ {{}},
                         validation : BOOLEAN, named : BOOLEAN]
    /\ NRequests \in Nat

VARIABLES
    given,      \* how many ranks, how many forwarders, which phases, whether
                \* reads are validated, and whether the path, the number of
                \* files and the spatiality are all in the file
    at,         \* where each rank is in its program; Gone if it returned
    iter,       \* the loop counter of each client
    call,       \* how far the request is that each client waits for
    opened,     \* the clients whose file their forwarder has open
    shutdown,   \* the clients each forwarder knows to be finished
    finished,   \* the clients whose shutdown message is under way
    missed,     \* the forwarders a thread of which missed the broadcast that
                \* was to tell it of the shutdown, and sleeps for good
    failed      \* how the run was ended, or "no"

vars == <<given, at, iter, call, opened, shutdown, finished, missed, failed>>

Gone == 0
world_size == given.world
simulation_forwarders == given.forwarders
Ranks   == 0..(world_size - 1)
Servers == Ranks \cap 0..(simulation_forwarders - 1)
Clients == simulation_forwarders..(world_size - 1)
ServerOf(c) == get_forwarding_server(c, simulation_forwarders, world_size)

----------------------------------------------------------------------------
(* The programs. *)

Members(comm) == CASE comm = "world"      -> Ranks
                   [] comm = "forwarding" -> Servers
                   [] comm = "clients"    -> Clients
Root(comm) == IF comm = "clients" THEN simulation_forwarders ELSE 0

Alone(what)   == [do |-> what, on |-> "none"]
Barrier(comm) == [do |-> "barrier", on |-> comm]
Create        == [do |-> "create", on |-> "world"]    \* MPI_Comm_create
ToRoot(comm)  == [do |-> "to_root", on |-> comm]      \* MPI_Gather, MPI_Reduce

Agreement_None == <<Alone("load"), Alone("verify")>>
Agreement == <<Alone("load"), Alone("verify"), Create, Create,
               Barrier("world"), ToRoot("world"), Barrier("world")>>

WritePhase_ClosesEarly ==
    <<Alone("open"), Barrier("clients"), Alone("write"), ToRoot("clients"),
      Alone("close"), Barrier("clients"), ToRoot("clients"),
      ToRoot("clients"), Barrier("clients")>>
WritePhase_NoBarrierAfterClose ==
    <<Alone("open"), Barrier("clients"), Alone("write"), ToRoot("clients"),
      Barrier("clients"), ToRoot("clients"), ToRoot("clients"),
      Barrier("clients"), Alone("close")>>
WritePhase ==
    <<Alone("open"), Barrier("clients"), Alone("write"), ToRoot("clients"),
      Barrier("clients"), ToRoot("clients"), ToRoot("clients"),
      Barrier("clients"), Alone("close"), Barrier("clients")>>
ReadPhase ==
    <<Alone("open"), Barrier("clients"), Alone("read"), ToRoot("clients"),
      Barrier("clients"), Alone("close"), Barrier("clients"),
      ToRoot("clients"), ToRoot("clients")>>

ClientProgram ==
    Agreement \o <<Barrier("world")>>
    \o <<Alone("if_write")>> \o WritePhase
    \o <<Alone("if_read")>> \o ReadPhase
    \o <<Barrier("clients"), Barrier("clients"), Alone("shutdown"),
         Barrier("clients"), Barrier("world"), Alone("finalize")>>

ServerProgram_NoBarrier ==
    Agreement
    \o <<Alone("start"), Barrier("world"), Alone("join"),
         Alone("teardown"), Barrier("world"), Alone("finalize")>>
ServerProgram_LateStart ==
    Agreement
    \o <<Barrier("world"), Alone("start"), Alone("join"),
         Barrier("forwarding"), Alone("teardown"), Barrier("world"),
         Alone("finalize")>>
ServerProgram ==
    Agreement
    \o <<Alone("start"), Barrier("world"), Alone("join"),
         Barrier("forwarding"), Alone("teardown"), Barrier("world"),
         Alone("finalize")>>

Program(r) == IF r < simulation_forwarders THEN ServerProgram ELSE ClientProgram
Step(r) == IF at[r] \in DOMAIN Program(r) THEN Program(r)[at[r]]
           ELSE Alone("none")
Does(r, what) == Step(r).do = what

\* Whether rank r is past a step, and the steps on comm it has entered; a phase
\* that is skipped counts, all clients skip it.
Past(r, what) ==
    \E k \in DOMAIN Program(r) : k < at[r] /\ Program(r)[k].do = what
Entered(r, comm) ==
    Cardinality({k \in DOMAIN Program(r) :
                    k <= at[r] /\ Program(r)[k].on = comm})

Init ==
    /\ given \in Setups
    /\ at = [r \in Ranks |-> 1]
    /\ iter = [c \in Ranks |-> 0] /\ call = [c \in Ranks |-> "none"]
    /\ opened = {} /\ finished = {} /\ missed = {}
    /\ shutdown = [s \in Ranks |-> 0]
    /\ failed = "no"

----------------------------------------------------------------------------
(* The steps. *)

Advance(r) == at' = [at EXCEPT ![r] = @ + 1]

\* The configuration file may be missing where a process runs.
Load(r) ==
    /\ Does(r, "load")
    /\ Advance(r) \/ at' = [at EXCEPT ![r] = Gone]
    /\ UNCHANGED <<given, iter, call, opened, shutdown, finished, missed,
                   failed>>

\* Each forwarder needs a client, and the same number of them.
ValidSetup_Unbalanced == world_size >= simulation_forwarders * 2
ValidSetup == /\ world_size >= simulation_forwarders * 2
              /\ world_size % simulation_forwarders = 0

Verify(r) ==
    /\ Does(r, "verify")
    /\ IF ValidSetup THEN Advance(r) /\ UNCHANGED failed
       ELSE failed' = "MPI_Abort" /\ UNCHANGED at
    /\ UNCHANGED <<given, iter, call, opened, shutdown, finished, missed>>

\* A collective operation that waits does so until each member has entered
\* it; the others send to the root and go on.
Waits(s, r) == s.do \in {"barrier", "create"} \/ r = Root(s.on)
AllEntered(comm, k) == \A m \in Members(comm) : Entered(m, comm) >= k
Collective(r) ==
    /\ Step(r).on # "none"
    /\ Waits(Step(r), r) => AllEntered(Step(r).on, Entered(r, Step(r).on))
    /\ Advance(r)
    /\ UNCHANGED <<given, iter, call, opened, shutdown, finished, missed,
                   failed>>

\* A phase that the configuration does not ask for is left out.
Skips(c, what, phase, steps) ==
    /\ Does(c, what)
    /\ at' = [at EXCEPT ![c] = @ + 1 + IF phase \in given.phases THEN 0
                                       ELSE Len(steps)]
Branch(c) ==
    /\ \/ Skips(c, "if_write", "write", WritePhase)
       \/ Skips(c, "if_read", "read", ReadPhase)
    /\ UNCHANGED <<given, iter, call, opened, shutdown, finished, missed,
                   failed>>

\* A client opens or closes its file, or is at a loop of reads or writes.
InLoop(c) == Step(c).do \in {"write", "read"}
Asks_OneMore(c) ==
    Step(c).do \in {"open", "close"} \/ (InLoop(c) /\ iter[c] <= NRequests)
Asks(c) ==
    Step(c).do \in {"open", "close"} \/ (InLoop(c) /\ iter[c] < NRequests)

Call(c) ==
    /\ Asks(c) /\ call[c] = "none"
    /\ call' = [call EXCEPT ![c] = "sent"]
    /\ UNCHANGED <<given, at, iter, opened, shutdown, finished, missed,
                   failed>>

\* A forwarder starts its pool, AGIOS and its threads.
Start(s) ==
    /\ Does(s, "start")
    /\ Advance(s)
    /\ UNCHANGED <<given, iter, call, opened, shutdown, finished, missed,
                   failed>>

\* A forwarder at work: its threads run, and answer as FileService does.
Serving(s) == Past(s, "start") /\ ~Past(s, "join")

Serve(s) ==
    /\ Serving(s)
    /\ \E c \in Clients :
          /\ ServerOf(c) = s /\ call[c] = "sent"
          /\ call' = [call EXCEPT ![c] = "answered"]
          /\ opened' = CASE Does(c, "open")  -> opened \cup {c}
                         [] Does(c, "close") -> opened \ {c}
                         [] OTHER            -> opened
    /\ UNCHANGED <<given, at, iter, shutdown, finished, missed, failed>>

\* After an answer the loop goes on, or its time limit ends it, which is set
\* only where there is one phase.
Return(c) ==
    /\ call[c] = "answered"
    /\ call' = [call EXCEPT ![c] = "none"]
    /\ \/ /\ InLoop(c)
          /\ iter' = [iter EXCEPT ![c] = @ + 1] /\ UNCHANGED at
       \/ /\ InLoop(c) => Cardinality(given.phases) = 1
          /\ iter' = [iter EXCEPT ![c] = 0] /\ Advance(c)
    /\ UNCHANGED <<given, opened, shutdown, finished, missed, failed>>

\* A read that is validated may find other bytes than those expected, where
\* nothing was written before or a transfer fell short.
Refuse(c) ==
    /\ given.validation /\ Does(c, "read") /\ call[c] = "answered"
    /\ failed' = "MPI_Abort"
    /\ UNCHANGED <<given, at, iter, call, opened, shutdown, finished, missed>>

LoopEnd(c) ==
    /\ InLoop(c) /\ iter[c] >= NRequests
    /\ iter' = [iter EXCEPT ![c] = 0] /\ Advance(c)
    /\ UNCHANGED <<given, call, opened, shutdown, finished, missed, failed>>

Shutdown(c) ==
    /\ Does(c, "shutdown")
    /\ finished' = finished \cup {c} /\ Advance(c)
    /\ UNCHANGED <<given, iter, call, opened, shutdown, missed, failed>>

AllFinished(s) ==
    shutdown[s] >= ShutdownCount(simulation_forwarders, world_size)

\* The listener counts the clients that are finished.  After the last of them
\* it tells the other threads to stop, without the mutexes under which they
\* test for that and go to sleep: the dispatcher or an only handler may miss it.
CountFinished(s) ==
    /\ Serving(s)
    /\ UNCHANGED <<given, at, iter, call, opened, failed>>
    /\ \E c \in finished :
          /\ ServerOf(c) = s
          /\ finished' = finished \ {c}
          /\ shutdown' = [shutdown EXCEPT ![s] = @ + 1]
    /\ \/ UNCHANGED missed
       \/ AllFinished(s)' /\ missed' = missed \cup {s}

\* What is undefined in the code may end the process.
Killed == failed' = "killed" /\ UNCHANGED at

\* The threads are joined, unless one of them sleeps for good, and the pool is
\* destroyed, which its last thread may still need.
Join(s) ==
    /\ Does(s, "join") /\ AllFinished(s) /\ s \notin missed
    /\ (Advance(s) /\ UNCHANGED failed) \/ Killed
    /\ UNCHANGED <<given, iter, call, opened, shutdown, finished, missed>>

\* PVFS and AGIOS are stopped.
Teardown(s) ==
    /\ Does(s, "teardown")
    /\ Advance(s)
    /\ UNCHANGED <<given, iter, call, opened, shutdown, finished, missed,
                   failed>>

\* Before MPI_Finalize the three names are freed, which of a name that the file
\* does not have is the empty string literal of its declaration.
Finalize(r) ==
    /\ Does(r, "finalize")
    /\ (Advance(r) /\ UNCHANGED failed) \/ (~given.named /\ Killed)
    /\ UNCHANGED <<given, iter, call, opened, shutdown, finished, missed>>

\* The launcher ends a run that a process left without MPI_Finalize.
Terminate ==
    /\ \E r \in Ranks : at[r] = Gone
    /\ failed' = "terminated"
    /\ UNCHANGED <<given, at, iter, call, opened, shutdown, finished, missed>>

Process(r) ==
    \/ Load(r) \/ Verify(r) \/ Collective(r) \/ Branch(r) \/ Call(r)
    \/ Return(r) \/ Refuse(r) \/ LoopEnd(r) \/ Shutdown(r)
    \/ Start(r) \/ Join(r) \/ Teardown(r) \/ Finalize(r)

\* A run that hangs: some forwarders wait in pthread_join for a thread that
\* sleeps for good, the others wait for them at the barrier of the forwarders,
\* and the clients, which have sent their last word, for all forwarders.
Sleeps(s) == Does(s, "join") /\ s \in missed
Hung ==
    /\ \E s \in Servers : Sleeps(s)
    /\ \A s \in Servers : Sleeps(s) \/ Step(s).on = "forwarding"
    /\ \A c \in Clients : Past(c, "shutdown")

Finalized(r) == Past(r, "finalize")
Ended == /\ failed # "no" \/ Hung \/ \A r \in Ranks : Finalized(r)
         /\ UNCHANGED vars

Move == /\ failed = "no"
        /\ \/ \E r \in Ranks : Process(r) \/ Serve(r) \/ CountFinished(r)
           \/ Terminate
Next == Move \/ Ended

\* No step can be undone, so all that is assumed is that the run goes on as
\* long as some process or thread can.
Spec == Init /\ [][Next]_vars
FairSpec == Spec /\ WF_vars(Move)

----------------------------------------------------------------------------
(* Correctness. *)

TypeOK ==
    /\ given \in Setups
    /\ at \in [Ranks -> Nat]
    /\ iter \in [Ranks -> 0..NRequests]
    /\ call \in [Ranks -> {"none", "sent", "answered"}]
    /\ opened \subseteq Clients /\ finished \subseteq Clients
    /\ missed \subseteq Servers
    /\ shutdown \in [Ranks -> Nat]
    /\ failed \in {"no", "MPI_Abort", "terminated", "killed"}

\* A forwarder is at work from before the first request of a client of its
\* own to after its last word: no message is sent to a forwarder whose
\* threads are not up yet or have been joined, and none is left unread.
ServersOutliveClients ==
    \A c \in Clients :
        call[c] # "none" \/ c \in opened \/ c \in finished =>
            Serving(ServerOf(c))

\* No forwarder leaves PVFS and AGIOS before the last forwarder has served.
NoTeardownWhileServing ==
    (\E s \in Servers : Does(s, "teardown") \/ Past(s, "teardown")) =>
        /\ \A s \in Servers : ~Serving(s)
        /\ \A c \in Clients : Past(c, "shutdown")

\* What is timed is transfers alone: while a client is in the loop that is
\* timed, no client anywhere opens or closes a file, or is in another loop.
TimedAlone ==
    \A c, d \in Clients :
        InLoop(c) => ~Does(d, "open") /\ ~Does(d, "close")
                     /\ (InLoop(d) => Step(d).do = Step(c).do)

\* No client asks to open its file for reading before every forwarder has
\* closed every file that was written, so that the bytes are there to read.
ReadsFollowWrites ==
    \A c \in Clients :
        Past(c, "close") /\ (Does(c, "open") \/ InLoop(c)) =>
            \A d \in Clients : d \in opened => Past(d, "close")

\* If one rank has no configuration file, no other rank begins its part.
NoneRunsAlone ==
    (\E r \in Ranks : at[r] = Gone) =>
        \A r \in Ranks : at[r] <= Len(Agreement) /\ call[r] = "none"

\* Every process gets through all its collective operations to MPI_Finalize,
\* but for four kinds of runs: a rank has no configuration file; MPI_Abort was
\* called, because the ranks cannot be shared out or a validation failed; a
\* process was killed, by the destruction of the pool or by the free of a name
\* that the file does not have; or a thread missed the broadcast, and then every
\* client has sent its last word and nobody waits but for that forwarder.
EveryRankFinalizes ==
    <>(\/ \E r \in Ranks : at[r] = Gone
       \/ failed \in {"MPI_Abort", "killed"}
       \/ Hung
       \/ \A r \in Ranks : Finalized(r))
=============================================================================
