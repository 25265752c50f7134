------------------------- MODULE ServerThreadsProofs -------------------------
(***************************************************************************)
(* Proofs about ServerThreads, for any number of handlers and of requests. *)
(*                                                                         *)
(* NoSleepOverWork is not inductive by itself: a thread might go to sleep  *)
(* over a queue that filled up after it was found empty.  Locks says why   *)
(* it cannot: from the test to the sleep the thread holds the mutex that   *)
(* everyone who fills the queue needs.                                     *)
(***************************************************************************)
EXTENDS ServerThreads, FiniteSetTheorems, TLAPS

Typed ==
    /\ incoming \in Nat /\ ready \in Nat /\ scheduled \in Nat
    /\ incoming_asleep \subseteq Handlers
    /\ ready_asleep \in BOOLEAN /\ ready_mutex \in BOOLEAN
    /\ shutdown_control \in BOOLEAN
    /\ handler \in [Handlers -> {"lock", "test", "wait", "handle", "broadcast",
                                 "exit"}]

Locks ==
    /\ \A h \in Handlers : handler[h] \in {"test", "wait"} => incoming_mutex = h
    /\ \A h \in Handlers : handler[h] = "wait" => incoming = 0
    /\ dispatcher \in {"test", "wait"} => ready_mutex = TRUE
    /\ dispatcher = "wait" => ready = 0

IInv == Typed /\ Locks /\ NoSleepOverWork

\* The invariant holds at first: the queues are empty and nobody sleeps.
LEMMA InitIInv == Init => IInv
<1> SUFFICES ASSUME Init PROVE IInv
    OBVIOUS
<1> USE ThreadsAssumption DEF ThreadsAssumption, Init
<1>1. Typed
    BY DEF Typed
<1>2. Locks
    BY DEF Locks
<1>3. NoSleepOverWork
    BY DEF NoSleepOverWork
<1> QED
    BY <1>1, <1>2, <1>3 DEF IInv

\* The listener fills the incoming queue only while nobody holds its mutex, and
\* its signal leaves some handler awake.
LEMMA ListenerKeeps == IInv /\ Listener => IInv'
<1> SUFFICES ASSUME IInv, Listener PROVE IInv'
    OBVIOUS
<1> USE ThreadsAssumption DEF ThreadsAssumption, IInv, Typed, Locks,
        NoSleepOverWork, counts, inVars, outVars
<1>1. CASE ListenerReceives
    BY <1>1 DEF ListenerReceives
<1>2. CASE ListenerEnqueues
    BY <1>2 DEF ListenerEnqueues
<1>3. CASE ListenerSignals
    BY <1>3 DEF ListenerSignals, SignalIncoming
<1>4. CASE ListenerFlags
    BY <1>4 DEF ListenerFlags
<1>5. CASE ListenerBroadcastsIncoming
    BY <1>5 DEF ListenerBroadcastsIncoming, BroadcastIncoming
<1>6. CASE ListenerBroadcastsReady
    BY <1>6 DEF ListenerBroadcastsReady, SignalReady
<1> QED
    BY <1>1, <1>2, <1>3, <1>4, <1>5, <1>6 DEF Listener

\* A handler sleeps only while it holds the mutex and the queue is empty.
LEMMA HandlerKeeps ==
    ASSUME NEW h \in Handlers, IInv, Handler(h) PROVE IInv'
<1> USE ThreadsAssumption DEF ThreadsAssumption, IInv, Typed, Locks,
        NoSleepOverWork, counts, inVars, outVars, handlerLeaves, HandlerGoto
<1>1. CASE HandlerLocks(h)
    BY <1>1 DEF HandlerLocks
<1>2. CASE HandlerTests(h)
    BY <1>2 DEF HandlerTests
<1>3. CASE HandlerWaits(h)
    BY <1>3 DEF HandlerWaits
<1>4. CASE HandlerHandles(h)
    BY <1>4 DEF HandlerHandles
<1>5. CASE HandlerBroadcasts(h)
    BY <1>5 DEF HandlerBroadcasts, LastWords, BroadcastIncoming
<1> QED
    BY <1>1, <1>2, <1>3, <1>4, <1>5 DEF Handler

\* AGIOS fills the ready queue only while the dispatcher is not between its test
\* and its sleep, and wakes it up afterwards.
LEMMA AgiosKeeps == IInv /\ Agios => IInv'
<1> SUFFICES ASSUME IInv, Agios PROVE IInv'
    OBVIOUS
<1> USE ThreadsAssumption DEF ThreadsAssumption, IInv, Typed, Locks,
        NoSleepOverWork, counts, inVars, outVars
<1>1. CASE AgiosSchedules
    BY <1>1 DEF AgiosSchedules
<1>2. CASE AgiosSignals
    BY <1>2 DEF AgiosSignals, SignalReady
<1> QED
    BY <1>1, <1>2 DEF Agios

\* The dispatcher sleeps only while it holds the mutex and the queue is empty.
LEMMA DispatcherKeeps == IInv /\ Dispatcher => IInv'
<1> SUFFICES ASSUME IInv, Dispatcher PROVE IInv'
    OBVIOUS
<1> USE ThreadsAssumption DEF ThreadsAssumption, IInv, Typed, Locks,
        NoSleepOverWork, counts, inVars, outVars, dispatcherLeaves
<1>1. CASE DispatcherLocks
    BY <1>1 DEF DispatcherLocks
<1>2. CASE DispatcherTests
    <2>1. /\ UNCHANGED <<incoming, scheduled, shutdown_control, listener, handler,
                         agios, incoming_mutex, incoming_asleep>>
          /\ ready_asleep' = ready_asleep
        BY <1>2 DEF DispatcherTests
    <2>2. \/ ready > 0 /\ ready' = ready - 1
          \/ ~(ready > 0) /\ ready' = ready
        BY <1>2 DEF DispatcherTests
    <2>3. \/ ready_mutex' = FALSE /\ dispatcher' \notin {"test", "wait"}
          \/ /\ ~(ready > 0) /\ dispatcher' = "wait"
             /\ ready_mutex' = ready_mutex /\ ready_mutex = TRUE
        <3>1. CASE ready > 0
            BY <1>2, <3>1 DEF DispatcherTests
        <3>2. CASE ~(ready > 0) /\ shutdown_control
            BY <1>2, <3>2 DEF DispatcherTests
        <3>3. CASE ~(ready > 0) /\ ~shutdown_control
            BY <1>2, <3>3 DEF DispatcherTests
        <3> QED
            BY <3>1, <3>2, <3>3
    <2>4. Typed'
        <3>1. ready' \in Nat
            BY <2>2
        <3>2. ready_mutex' \in BOOLEAN
            BY <2>3
        <3>3. ready_asleep' \in BOOLEAN /\ shutdown_control' \in BOOLEAN
            BY <2>1
        <3> QED
            BY <2>1, <3>1, <3>2, <3>3
    <2>5. Locks'
        <3>1. dispatcher' \in {"test", "wait"} => ready_mutex' = TRUE
            BY <2>3
        <3>2. dispatcher' = "wait" => ready' = 0
            BY <2>2, <2>3
        <3> QED
            BY <2>1, <3>1, <3>2
    <2>6. NoSleepOverWork'
        BY <2>1, <2>2
    <2> QED
        BY <2>4, <2>5, <2>6
<1>3. CASE DispatcherWaits
    <2>1. Typed'
        BY <1>3 DEF DispatcherWaits
    <2>2. Locks'
        BY <1>3 DEF DispatcherWaits
    <2>3. NoSleepOverWork'
        BY <1>3 DEF DispatcherWaits
    <2> QED
        BY <2>1, <2>2, <2>3
<1>4. CASE DispatcherSubmits
    BY <1>4 DEF DispatcherSubmits, Batch
<1>5. CASE DispatcherSignalsHandlers
    BY <1>5 DEF DispatcherSignalsHandlers, SignalIncoming
<1> QED
    BY <1>1, <1>2, <1>3, <1>4, <1>5 DEF Dispatcher

\* Every step preserves the invariant; a spurious wake-up only leaves one
\* thread fewer asleep.
LEMMA NextKeeps == IInv /\ [Next]_vars => IInv'
<1> SUFFICES ASSUME IInv, [Next]_vars PROVE IInv'
    OBVIOUS
<1> USE ThreadsAssumption DEF ThreadsAssumption, IInv, Typed, Locks,
        NoSleepOverWork, counts, inVars, outVars, pcs
<1>1. CASE PoolAnswers
    BY <1>1 DEF PoolAnswers
<1>2. CASE MainJoins
    BY <1>2 DEF MainJoins
<1>3. CASE SpuriousWakeup
    <2>1. Typed'
        BY <1>3 DEF SpuriousWakeup
    <2>2. Locks'
        BY <1>3 DEF SpuriousWakeup
    <2>3. NoSleepOverWork'
        BY <1>3 DEF SpuriousWakeup
    <2> QED
        BY <2>1, <2>2, <2>3
<1>4. CASE UNCHANGED vars
    BY <1>4 DEF vars
<1>5. CASE Stopped
    BY <1>5 DEF Stopped, vars
<1> QED
    BY ListenerKeeps, HandlerKeeps, AgiosKeeps, DispatcherKeeps,
       <1>1, <1>2, <1>3, <1>4, <1>5 DEF Next, Prompted

\* The invariant holds throughout.
LEMMA LocksInvariance == Spec => []IInv
    BY InitIInv, NextKeeps, PTL DEF Spec

\* Nobody sleeps over a queue that is not empty, unless the signal is still to
\* come, whatever the number of handlers and requests.
THEOREM WorkIsNoticed == Spec => []NoSleepOverWork
<1>1. IInv => NoSleepOverWork
    BY DEF IInv
<1> QED
    BY LocksInvariance, <1>1, PTL

----------------------------------------------------------------------------
(* No request is lost on its way: the queues, what the threads have in hand *)
(* and the answers always add up to what the clients send.  The bounds of   *)
(* TypeOK follow; by themselves they are not inductive.                     *)

Handling == {h \in Handlers : handler[h] = "handle"}
InHand == Cardinality(Handling) + (IF listener = "enqueue" THEN 1 ELSE 0)
                                + (IF dispatcher = "batch" THEN 1 ELSE 0)

Points ==
    /\ shutdown_control \in BOOLEAN /\ ready_mutex \in BOOLEAN
    /\ ready_asleep \in BOOLEAN
    /\ incoming_mutex \in Handlers \cup {Free}
    /\ incoming_asleep \subseteq Handlers
    /\ listener \in {"recv", "enqueue", "signal", "broadcast_incoming",
                     "broadcast_ready", "exit"}
    /\ handler \in [Handlers -> {"lock", "test", "wait", "handle", "broadcast",
                                 "exit"}]
    /\ agios \in {"idle", "signal"}
    /\ dispatcher \in {"lock", "test", "wait", "batch", "signal_handlers", "exit"}
    /\ main \in {"join", "join_handlers", "join_listener", "stopped"}

Counts ==
    /\ unsent \in Nat /\ incoming \in Nat /\ ready \in Nat /\ scheduled \in Nat
    /\ submitted \in Nat /\ answered \in Nat
    /\ unsent + incoming + ready + scheduled + submitted + answered + InHand
         = NRequests

\* Every action keeps each thread at a point of its code.
LEMMA PointsKept == ASSUME Points, [Next]_vars PROVE Points'
<1> USE DEF Points, counts, inVars, outVars, pcs
<1>1. CASE Listener
    <2>1. CASE ListenerReceives
        BY <2>1 DEF ListenerReceives
    <2>2. CASE ListenerEnqueues
        BY <2>2 DEF ListenerEnqueues
    <2>3. CASE ListenerSignals
        BY <2>3 DEF ListenerSignals, SignalIncoming
    <2>4. CASE ListenerFlags
        BY <2>4 DEF ListenerFlags
    <2>5. CASE ListenerBroadcastsIncoming
        BY <2>5 DEF ListenerBroadcastsIncoming, BroadcastIncoming
    <2>6. CASE ListenerBroadcastsReady
        BY <2>6 DEF ListenerBroadcastsReady, SignalReady
    <2> QED
        BY <1>1, <2>1, <2>2, <2>3, <2>4, <2>5, <2>6 DEF Listener
<1>2. ASSUME NEW h \in Handlers, Handler(h) PROVE Points'
    <2> USE DEF handlerLeaves, HandlerGoto
    <2>1. CASE HandlerLocks(h)
        BY <2>1 DEF HandlerLocks
    <2>2. CASE HandlerTests(h)
        BY <2>2 DEF HandlerTests
    <2>3. CASE HandlerWaits(h)
        BY <2>3 DEF HandlerWaits
    <2>4. CASE HandlerHandles(h)
        BY <2>4 DEF HandlerHandles
    <2>5. CASE HandlerBroadcasts(h)
        BY <2>5 DEF HandlerBroadcasts, LastWords, BroadcastIncoming
    <2> QED
        BY <1>2, <2>1, <2>2, <2>3, <2>4, <2>5 DEF Handler
<1>3. CASE Agios
    <2>1. CASE AgiosSchedules
        BY <2>1 DEF AgiosSchedules
    <2>2. CASE AgiosSignals
        BY <2>2 DEF AgiosSignals, SignalReady
    <2> QED
        BY <1>3, <2>1, <2>2 DEF Agios
<1>4. CASE Dispatcher
    <2> USE DEF dispatcherLeaves
    <2>1. CASE DispatcherLocks
        BY <2>1 DEF DispatcherLocks
    <2>2. CASE DispatcherTests
        BY <2>2 DEF DispatcherTests
    <2>3. CASE DispatcherWaits
        BY <2>3 DEF DispatcherWaits
    <2>4. CASE DispatcherSubmits
        BY <2>4 DEF DispatcherSubmits
    <2>5. CASE DispatcherSignalsHandlers
        BY <2>5 DEF DispatcherSignalsHandlers, SignalIncoming
    <2> QED
        BY <1>4, <2>1, <2>2, <2>3, <2>4, <2>5 DEF Dispatcher
<1>5. CASE PoolAnswers
    BY <1>5 DEF PoolAnswers
<1>6. CASE MainJoins
    BY <1>6 DEF MainJoins
<1>7. CASE SpuriousWakeup
    <2>1. ready_asleep' \in BOOLEAN
        BY <1>7 DEF SpuriousWakeup
    <2>2. incoming_asleep' \subseteq Handlers
        BY <1>7 DEF SpuriousWakeup
    <2> QED
        BY <1>7, <2>1, <2>2 DEF SpuriousWakeup
<1>8. CASE UNCHANGED vars
    BY <1>8 DEF vars
<1> QED
    BY <1>1, <1>2, <1>3, <1>4, <1>5, <1>6, <1>7, <1>8 DEF Next, Prompted, Stopped

\* One handler more, or one fewer, has a request in hand.
LEMMA CountHandling ==
    ASSUME Points, NEW h \in Handlers
    PROVE  /\ Cardinality(Handling) \in Nat
           /\ h \notin Handling =>
                 Cardinality(Handling \cup {h}) = Cardinality(Handling) + 1
           /\ h \in Handling =>
                 Cardinality(Handling \ {h}) = Cardinality(Handling) - 1
<1>1. IsFiniteSet(Handling)
    BY ThreadsAssumption, FS_Subset DEF ThreadsAssumption, Handling
<1> QED
    BY <1>1, FS_CardinalityType, FS_AddElement, FS_RemoveElement

\* Handler h goes from one point of its code to another.
LEMMA HandlingAfter ==
    ASSUME Points, NEW h \in Handlers, NEW p, HandlerGoto(h, p)
    PROVE  /\ p = "handle" => Handling' = Handling \cup {h}
           /\ p # "handle" => Handling' = Handling \ {h}
           /\ h \in Handling <=> handler[h] = "handle"
BY DEF Points, HandlerGoto, Handling

\* A request that is taken from one place is put into another.
LEMMA CountsKept == ASSUME Points, Counts, [Next]_vars PROVE Counts'
<1> USE DEF Counts, InHand, counts, inVars, outVars, pcs
<1>1. ASSUME UNCHANGED handler PROVE Handling' = Handling
    BY <1>1 DEF Handling
<1>2. Cardinality(Handling) \in Nat
    BY ThreadsAssumption, CountHandling DEF ThreadsAssumption
<1>3. CASE Listener
    <2>1. CASE ListenerReceives
        BY <1>1, <1>2, <2>1 DEF ListenerReceives
    <2>2. CASE ListenerEnqueues
        BY <1>1, <1>2, <2>2 DEF ListenerEnqueues
    <2>3. CASE ListenerSignals \/ ListenerFlags \/ ListenerBroadcastsIncoming
        BY <1>1, <1>2, <2>3 DEF ListenerSignals, ListenerFlags,
           ListenerBroadcastsIncoming
    <2>4. CASE ListenerBroadcastsReady
        BY <1>1, <1>2, <2>4 DEF ListenerBroadcastsReady
    <2> QED
        BY <1>3, <2>1, <2>2, <2>3, <2>4 DEF Listener
<1>4. ASSUME NEW h \in Handlers, Handler(h) PROVE Counts'
    <2> USE DEF handlerLeaves
    <2>1. CASE HandlerLocks(h) \/ HandlerWaits(h) \/ HandlerBroadcasts(h)
        <3>1. Handling' = Handling
            BY <2>1, HandlingAfter DEF HandlerLocks, HandlerWaits, HandlerBroadcasts
        <3> QED
            BY <1>2, <2>1, <3>1 DEF HandlerLocks, HandlerWaits, HandlerBroadcasts
    <2>2. CASE HandlerTests(h) /\ incoming > 0
        <3>1. Handling' = Handling \cup {h} /\ h \notin Handling
            BY <2>2, HandlingAfter DEF HandlerTests
        <3>2. Cardinality(Handling') = Cardinality(Handling) + 1
            BY <3>1, CountHandling
        <3> QED
            BY <1>2, <2>2, <3>2 DEF HandlerTests
    <2>3. CASE HandlerTests(h) /\ ~(incoming > 0)
        <3>1. PICK p \in {"broadcast", "wait"} : HandlerGoto(h, p)
            BY <2>3 DEF HandlerTests
        <3>2. Handling' = Handling
            BY <2>3, <3>1, HandlingAfter DEF HandlerTests
        <3> QED
            BY <1>2, <2>3, <3>2 DEF HandlerTests
    <2>4. CASE HandlerHandles(h)
        <3>1. Handling' = Handling \ {h} /\ h \in Handling
            BY <2>4, HandlingAfter DEF HandlerHandles
        <3>2. Cardinality(Handling') = Cardinality(Handling) - 1
            BY <3>1, CountHandling
        <3> QED
            BY <1>2, <2>4, <3>2 DEF HandlerHandles
    <2> QED
        BY <1>4, <2>1, <2>2, <2>3, <2>4 DEF Handler
<1>5. CASE AgiosSchedules
    <2>1. PICK n \in 1..scheduled : scheduled' = scheduled - n /\ ready' = ready + n
        BY <1>5 DEF AgiosSchedules
    <2> QED
        BY <1>1, <1>2, <1>5, <2>1 DEF AgiosSchedules
<1>6. CASE DispatcherTests
    <2>1. \/ ready > 0 /\ ready' = ready - 1 /\ dispatcher' = "batch"
          \/ ready' = ready /\ dispatcher' \in {"signal_handlers", "wait"}
        BY <1>6 DEF DispatcherTests
    <2>2. /\ dispatcher # "batch"
          /\ UNCHANGED <<unsent, incoming, scheduled, submitted, answered, listener,
                         handler>>
        BY <1>6 DEF DispatcherTests, dispatcherLeaves
    <2>3. CASE ready > 0 /\ ready' = ready - 1 /\ dispatcher' = "batch"
        BY <1>1, <1>2, <2>2, <2>3
    <2>4. CASE ready' = ready /\ dispatcher' \in {"signal_handlers", "wait"}
        BY <1>1, <1>2, <2>2, <2>4
    <2> QED
        BY <2>1, <2>3, <2>4
<1>7. CASE DispatcherSubmits
    <2>1. PICK n \in 0..ready : ready' = ready - n /\ submitted' = submitted + n + 1
        BY <1>7 DEF DispatcherSubmits, Batch
    <2>2. /\ dispatcher = "batch" /\ dispatcher' # "batch"
          /\ UNCHANGED <<unsent, incoming, scheduled, answered, listener, handler>>
        BY <1>7 DEF DispatcherSubmits, dispatcherLeaves
    <2> QED
        BY <1>1, <1>2, <2>1, <2>2
<1>8. CASE PoolAnswers
    BY <1>1, <1>2, <1>8 DEF PoolAnswers
<1>9. ASSUME UNCHANGED <<counts, listener, handler>>,
             dispatcher' = "batch" <=> dispatcher = "batch"
      PROVE  Counts'
    BY <1>1, <1>2, <1>9
<1>10. CASE AgiosSignals \/ MainJoins \/ SpuriousWakeup
    BY <1>9, <1>10 DEF AgiosSignals, MainJoins, SpuriousWakeup
<1>11. CASE DispatcherLocks \/ DispatcherWaits \/ DispatcherSignalsHandlers
    BY <1>9, <1>11 DEF DispatcherLocks, DispatcherWaits, DispatcherSignalsHandlers,
       dispatcherLeaves
<1>12. CASE UNCHANGED vars
    BY <1>9, <1>12 DEF vars
<1> QED
    BY <1>3, <1>4, <1>5, <1>6, <1>7, <1>8, <1>10, <1>11, <1>12
       DEF Next, Prompted, Agios, Dispatcher, Stopped

\* What the requests add up to holds throughout.
LEMMA PointsAndCounts == Spec => [](Points /\ Counts)
<1>1. Init => Points /\ Counts
    <2> SUFFICES ASSUME Init PROVE Points /\ Counts
        OBVIOUS
    <2>1. Points
        BY DEF Init, Points
    <2>2. Handling = {}
        BY DEF Init, Handling
    <2> QED
        BY <2>1, <2>2, FS_EmptySet, ThreadsAssumption
           DEF Init, Counts, InHand, ThreadsAssumption
<1>2. Points /\ Counts /\ [Next]_vars => (Points /\ Counts)'
    BY PointsKept, CountsKept
<1> QED
    BY <1>1, <1>2, PTL DEF Spec

\* Every variable stays in its type, whatever the number of handlers and
\* requests: no queue ever holds more than what the clients sent.
THEOREM TypeCorrect == Spec => []TypeOK
<1>1. Points /\ Counts => TypeOK
    <2> SUFFICES ASSUME Points, Counts PROVE TypeOK
        OBVIOUS
    <2>1. Cardinality(Handling) \in Nat
        BY ThreadsAssumption, CountHandling DEF ThreadsAssumption
    <2>2. {unsent, incoming, ready, scheduled, submitted, answered}
            \subseteq 0..NRequests
        BY <2>1, ThreadsAssumption DEF Counts, InHand, ThreadsAssumption
    <2> QED
        BY <2>2 DEF Points, TypeOK
<1> QED
    BY <1>1, PointsAndCounts, PTL

----------------------------------------------------------------------------
(* Where the threads can all be waiting.                                    *)

\* Who holds a mutex is about to use it, and who sleeps is in the wait.
Held ==
    /\ \A h \in Handlers : incoming_mutex = h => handler[h] \in {"test", "wait"}
    /\ \A h \in incoming_asleep : handler[h] = "lock"
    /\ ready_mutex => dispatcher \in {"test", "wait"}
    /\ ready_asleep => dispatcher = "lock"

\* Who is past the shutdown flag, and what it says.
Flagged ==
    /\ shutdown_control => answered = NRequests
    /\ listener \in {"broadcast_incoming", "broadcast_ready", "exit"} => shutdown_control
    /\ dispatcher \in {"signal_handlers", "exit"} => shutdown_control
    /\ \A h \in Handlers : handler[h] \in {"broadcast", "exit"} => shutdown_control

\* A handler that missed the flag has the mutex until it sleeps, so that it is
\* the only one that the broadcast of the listener does not reach, and none of
\* the others has sent its own broadcast yet.
Broadcasted == shutdown_control /\ listener # "broadcast_incoming"
Woken ==
    /\ \A h, q \in Handlers :
          handler[h] = "wait" => handler[q] \notin {"broadcast", "exit"}
    /\ Broadcasted => \A h \in Handlers : handler[h] = "wait" => incoming_asleep = {}
    /\ Broadcasted => \A h \in incoming_asleep, q \in Handlers :
          q # h => q \notin incoming_asleep /\ handler[q] # "exit"

Waiting == Held /\ Flagged /\ Woken

LEMMA InitWaiting == Init => Waiting
  BY ThreadsAssumption DEF Init, Waiting, Held, Flagged, Woken, Broadcasted

\* The listener ...
LEMMA ListenerWaits ==
    ASSUME Points, IInv, Waiting, Listener
    PROVE  Held' /\ Woken'
<1>1. UNCHANGED <<handler, dispatcher, incoming_mutex, ready_mutex>>
  BY DEF Listener, ListenerReceives, ListenerEnqueues, ListenerSignals,
     ListenerFlags, ListenerBroadcastsIncoming, ListenerBroadcastsReady, inVars,
     outVars
<1>2. incoming_asleep' \subseteq incoming_asleep /\ (ready_asleep' => ready_asleep)
  BY DEF Listener, ListenerReceives, ListenerEnqueues, ListenerSignals,
     ListenerFlags, ListenerBroadcastsIncoming, ListenerBroadcastsReady, inVars,
     outVars, SignalIncoming, BroadcastIncoming, SignalReady
<1>3. Broadcasted' => Broadcasted \/ incoming_asleep' = {}
  BY DEF Listener, ListenerReceives, ListenerEnqueues, ListenerSignals,
     ListenerFlags, ListenerBroadcastsIncoming, ListenerBroadcastsReady,
     BroadcastIncoming, Broadcasted
<1>4. Held'
  BY <1>1, <1>2 DEF Waiting, Held
<1>5. Woken'
  BY <1>1, <1>2, <1>3 DEF Waiting, Woken
<1>. QED  BY <1>4, <1>5

\* ... a handler ...
LEMMA HandlerWaitsInTurn ==
    ASSUME Points, IInv, Waiting, NEW h \in Handlers, Handler(h)
    PROVE  Held' /\ Woken'
<1>1. /\ \A q \in Handlers : q # h => handler'[q] = handler[q]
      /\ (Broadcasted)' = Broadcasted
      /\ UNCHANGED <<dispatcher, ready_mutex, ready_asleep>>
  BY DEF Points, Handler, HandlerLocks, HandlerTests, HandlerWaits,
     HandlerHandles, HandlerBroadcasts, HandlerGoto, handlerLeaves, Broadcasted,
     outVars
<1>2. Points /\ incoming_asleep \subseteq Handlers
  BY DEF Points
<1>3. CASE HandlerLocks(h)
  <2>1. /\ handler'[h] = "test" /\ incoming_mutex' = h /\ h \notin incoming_asleep
        /\ UNCHANGED incoming_asleep
    BY <1>2, <1>3 DEF HandlerLocks, HandlerGoto, Points
  <2>2. Held'
    BY <1>1, <1>2, <2>1 DEF Waiting, Held
  <2>3. Woken'
    BY <1>1, <2>1 DEF Waiting, Woken
  <2>. QED  BY <2>2, <2>3
<1>4. CASE HandlerTests(h)
  <2>1. /\ handler[h] = "test" /\ incoming_mutex = h /\ UNCHANGED incoming_asleep
    BY <1>2, <1>4 DEF HandlerTests, IInv, Locks
  <2>2. \/ handler'[h] = "handle" /\ incoming_mutex' = Free
        \/ shutdown_control /\ handler'[h] = "broadcast" /\ incoming_mutex' = Free
        \/ ~shutdown_control /\ handler'[h] = "wait" /\ incoming_mutex' = h
    BY <1>2, <1>4, <2>1 DEF HandlerTests, HandlerGoto, Points
  <2>3. h \notin incoming_asleep
    BY <2>1 DEF Waiting, Held
  <2>4. Held'
    BY <1>1, <1>2, <2>1, <2>2, <2>3, ThreadsAssumption DEF Waiting, Held
  <2>5. \A q \in Handlers : q # h => handler[q] # "wait"
    BY <2>1 DEF IInv, Locks
  <2>6. ~shutdown_control => \A q \in Handlers : handler[q] \notin {"broadcast", "exit"}
    BY DEF Waiting, Flagged
  <2>7. Woken'
    BY <1>1, <2>1, <2>2, <2>3, <2>5, <2>6 DEF Waiting, Woken, Broadcasted
  <2>. QED  BY <2>4, <2>7
<1>5. CASE HandlerWaits(h)
  <2>1. /\ handler[h] = "wait" /\ handler'[h] = "lock" /\ incoming_mutex' = Free
        /\ incoming_asleep' = incoming_asleep \cup {h} /\ incoming_mutex = h
    BY <1>2, <1>5 DEF HandlerWaits, HandlerGoto, Points, IInv, Locks
  <2>2. \A q \in Handlers : q # h => handler[q] # "wait"
    BY <2>1 DEF IInv, Locks
  <2>3. Held'
    BY <1>1, <1>2, <2>1, ThreadsAssumption DEF Waiting, Held
  <2>4. /\ \A q \in Handlers : handler[q] \notin {"broadcast", "exit"}
        /\ Broadcasted => incoming_asleep = {}
    BY <2>1 DEF Waiting, Woken
  <2>5. Woken'
    BY <1>1, <2>1, <2>2, <2>4 DEF Woken
  <2>. QED  BY <2>3, <2>5
<1>6. CASE HandlerHandles(h)
  <2>1. /\ handler[h] = "handle" /\ handler'[h] = "lock"
        /\ UNCHANGED <<incoming_mutex, incoming_asleep>>
    BY <1>2, <1>6 DEF HandlerHandles, HandlerGoto, Points, inVars
  <2>2. Held'
    BY <1>1, <1>2, <2>1 DEF Waiting, Held
  <2>3. Woken'
    BY <1>1, <2>1 DEF Waiting, Woken
  <2>. QED  BY <2>2, <2>3
<1>7. CASE HandlerBroadcasts(h)
  <2>1. /\ handler[h] = "broadcast" /\ handler'[h] = "exit"
        /\ UNCHANGED incoming_mutex /\ incoming_asleep' = {}
    BY <1>2, <1>7 DEF HandlerBroadcasts, HandlerGoto, Points, LastWords,
       BroadcastIncoming
  <2>2. Held'
    BY <1>1, <1>2, <2>1 DEF Waiting, Held
  <2>3. Woken'
    BY <1>1, <2>1 DEF Waiting, Woken
  <2>. QED  BY <2>2, <2>3
<1>. QED  BY <1>3, <1>4, <1>5, <1>6, <1>7 DEF Handler

\* ... the others ...
LEMMA OthersWait ==
    ASSUME Points, IInv, Waiting,
           Agios \/ Dispatcher \/ PoolAnswers \/ MainJoins \/ SpuriousWakeup
    PROVE  Held' /\ Woken'
<1>1. /\ UNCHANGED <<handler, incoming_mutex, listener, shutdown_control>>
      /\ incoming_asleep' \subseteq incoming_asleep
  <2>1. CASE Agios
    BY <2>1 DEF Agios, AgiosSchedules, AgiosSignals, inVars
  <2>2. CASE Dispatcher
    BY <2>2 DEF Dispatcher, DispatcherLocks, DispatcherTests, DispatcherWaits,
       DispatcherSubmits, DispatcherSignalsHandlers, SignalIncoming,
       dispatcherLeaves, inVars
  <2>3. CASE PoolAnswers \/ MainJoins \/ SpuriousWakeup
    BY <2>3 DEF PoolAnswers, MainJoins, SpuriousWakeup, pcs, inVars
  <2>. QED  BY <2>1, <2>2, <2>3
<1>2. /\ ready_mutex' => dispatcher' \in {"test", "wait"}
      /\ ready_asleep' => dispatcher' = "lock"
  <2>1. CASE Agios
    BY <2>1 DEF Agios, AgiosSchedules, AgiosSignals, outVars, SignalReady,
       Waiting, Held
  <2>2. CASE DispatcherLocks \/ DispatcherWaits
    BY <2>2 DEF DispatcherLocks, DispatcherWaits
  <2>3. CASE DispatcherTests
    <3>1. ~ready_asleep /\ UNCHANGED ready_asleep
      BY <2>3 DEF DispatcherTests, Waiting, Held
    <3>2. ready_mutex' = FALSE \/ dispatcher' = "wait"
      BY <2>3 DEF DispatcherTests
    <3>. QED  BY <3>1, <3>2
  <2>4. CASE DispatcherSubmits \/ DispatcherSignalsHandlers
    BY <2>4 DEF DispatcherSubmits, DispatcherSignalsHandlers, outVars, Waiting,
       Held
  <2>5. CASE PoolAnswers \/ MainJoins \/ SpuriousWakeup
    BY <2>5 DEF PoolAnswers, MainJoins, SpuriousWakeup, pcs, outVars, Waiting,
       Held
  <2>. QED  BY <2>1, <2>2, <2>3, <2>4, <2>5 DEF Dispatcher
<1>3. Held'
  BY <1>1, <1>2 DEF Waiting, Held
<1>4. Woken'
  BY <1>1 DEF Waiting, Woken, Broadcasted
<1>. QED  BY <1>3, <1>4

\* ... and what the flag says: it is set when all is answered, and stays.
LEMMA FlagKept ==
    ASSUME Points, Counts, TypeOK', Flagged, Next
    PROVE  Flagged'
<1>1. answered \in Nat /\ answered' \in Nat /\ answered' <= NRequests
  BY DEF Counts, TypeOK
<1>2. CASE Listener
  <2>1. UNCHANGED <<answered, dispatcher, handler>>
        /\ (shutdown_control => shutdown_control')
    BY <1>2 DEF Listener, ListenerReceives, ListenerEnqueues, ListenerSignals,
       ListenerFlags, ListenerBroadcastsIncoming, ListenerBroadcastsReady, counts
  <2>2. /\ shutdown_control' => shutdown_control \/ answered = NRequests
        /\ listener' \in {"broadcast_incoming", "broadcast_ready", "exit"} =>
              shutdown_control'
    BY <1>2 DEF Listener, ListenerReceives, ListenerEnqueues, ListenerSignals,
       ListenerFlags, ListenerBroadcastsIncoming, ListenerBroadcastsReady, Flagged
  <2>. QED  BY <2>1, <2>2 DEF Flagged
<1>3. ASSUME NEW h \in Handlers, Handler(h)
      PROVE  Flagged'
  <2>1. UNCHANGED <<shutdown_control, listener, dispatcher>>
    BY <1>3 DEF Handler, HandlerLocks, HandlerTests, HandlerWaits,
       HandlerHandles, HandlerBroadcasts, handlerLeaves
  <2>2. answered' = answered \/ answered' = answered + 1
    BY <1>3 DEF Handler, HandlerLocks, HandlerTests, HandlerWaits,
       HandlerHandles, HandlerBroadcasts, handlerLeaves
  <2>3. /\ \A q \in Handlers : q # h => handler'[q] = handler[q]
        /\ handler'[h] \in {"broadcast", "exit"} =>
              shutdown_control \/ handler[h] = "broadcast"
    BY <1>3 DEF Handler, HandlerLocks, HandlerTests, HandlerWaits,
       HandlerHandles, HandlerBroadcasts, HandlerGoto, Points
  <2>. QED  BY <1>1, <2>1, <2>2, <2>3 DEF Flagged
<1>4. CASE Dispatcher
  <2>1. UNCHANGED <<shutdown_control, listener, handler, answered>>
    BY <1>4 DEF Dispatcher, DispatcherLocks, DispatcherTests, DispatcherWaits,
       DispatcherSubmits, DispatcherSignalsHandlers, dispatcherLeaves
  <2>2. dispatcher' \in {"signal_handlers", "exit"} =>
           shutdown_control \/ dispatcher = "signal_handlers"
    BY <1>4 DEF Dispatcher, DispatcherLocks, DispatcherTests, DispatcherWaits,
       DispatcherSubmits, DispatcherSignalsHandlers
  <2>. QED  BY <2>1, <2>2 DEF Flagged
<1>5. CASE Agios \/ MainJoins \/ Stopped \/ SpuriousWakeup
  <2>1. UNCHANGED <<shutdown_control, listener, handler, answered, dispatcher>>
    BY <1>5 DEF Agios, AgiosSchedules, AgiosSignals, MainJoins, Stopped,
       SpuriousWakeup, counts, pcs, vars
  <2>. QED  BY <2>1 DEF Flagged
<1>6. CASE PoolAnswers
  <2>1. UNCHANGED <<shutdown_control, listener, handler, dispatcher>>
        /\ answered' = answered + 1
    BY <1>6 DEF PoolAnswers, pcs
  <2>. QED  BY <1>1, <2>1 DEF Flagged
<1>. QED  BY <1>2, <1>3, <1>4, <1>5, <1>6 DEF Next, Prompted

\* All that a thread can do unless another lets it sleep: the guards of the
\* actions but Stopped and SpuriousWakeup.
MayGoOn ==
    \/ /\ listener = "recv"
       /\ unsent > 0 \/ answered = NRequests \/ shutdown_control
    \/ listener = "enqueue" /\ incoming_mutex = Free
    \/ listener \in {"signal", "broadcast_incoming", "broadcast_ready"}
    \/ \E h \in Handlers :
          \/ /\ handler[h] = "lock" /\ h \notin incoming_asleep
             /\ incoming_mutex = Free
          \/ handler[h] \in {"test", "wait", "handle", "broadcast"}
    \/ agios = "idle" /\ ~ready_mutex /\ scheduled > 0
    \/ agios = "signal"
    \/ dispatcher = "lock" /\ ~ready_asleep
    \/ dispatcher \in {"test", "wait", "batch", "signal_handlers"}
    \/ submitted > 0
    \/ main = "join" /\ dispatcher = "exit"
    \/ main = "join_handlers" /\ \A h \in Handlers : handler[h] = "exit"
    \/ main = "join_listener" /\ listener = "exit"

\* If no thread can go on then all requests are answered and the listener is
\* through; unless the server has stopped, the shutdown found the dispatcher, or
\* a handler that has no other to wake it up, between its test and its sleep.
MissedShutdown(h) == Handlers = {h} /\ h \in incoming_asleep
OnlyShutdownIsMissed ==
    MayGoOn \/ /\ answered = NRequests /\ listener = "exit"
               /\ \A h \in Handlers : handler[h] = "exit" \/ MissedShutdown(h)
               /\ \/ main = "stopped"
                  \/ dispatcher = "lock" /\ ready_asleep
                  \/ \E h \in Handlers : MissedShutdown(h)

LEMMA WhoIsLeft ==
    ASSUME Points, Counts, IInv, Waiting
    PROVE  OnlyShutdownIsMissed
<1>. SUFFICES ASSUME ~MayGoOn
              PROVE  /\ answered = NRequests /\ listener = "exit"
                     /\ \A h \in Handlers : handler[h] = "exit" \/ MissedShutdown(h)
                     /\ \/ main = "stopped"
                        \/ dispatcher = "lock" /\ ready_asleep
                        \/ \E h \in Handlers : MissedShutdown(h)
  BY DEF OnlyShutdownIsMissed
<1>1. \A h \in Handlers : handler[h] = "exit" \/ handler[h] = "lock"
  BY DEF MayGoOn, Points
<1>2. incoming_mutex = Free
  BY <1>1 DEF Points, Waiting, Held
<1>3. \A h \in Handlers : handler[h] = "exit" \/ h \in incoming_asleep
  BY <1>1, <1>2 DEF MayGoOn
<1>4. dispatcher = "exit" \/ (dispatcher = "lock" /\ ready_asleep)
  BY DEF MayGoOn, Points
<1>5. ready_mutex = FALSE /\ scheduled = 0 /\ submitted = 0 /\ agios = "idle"
  <2>1. ~ready_mutex /\ agios = "idle"
    BY <1>4 DEF MayGoOn, Points, Waiting, Held
  <2>2. scheduled \in Nat /\ submitted \in Nat
    BY DEF Counts
  <2>. QED  BY <2>1, <2>2 DEF MayGoOn, Points
<1>6. listener = "exit"
  <2>1. listener \in {"recv", "exit"}
    BY <1>2 DEF MayGoOn, Points
  <2>. SUFFICES ASSUME listener = "recv" PROVE FALSE
    BY <2>1
  <2>2. unsent = 0 /\ answered # NRequests /\ ~shutdown_control
    BY DEF MayGoOn, Counts
  <2>3. /\ \A h \in Handlers : h \in incoming_asleep
        /\ dispatcher = "lock" /\ ready_asleep
    BY <1>3, <1>4, <2>2 DEF Waiting, Flagged
  <2>4. incoming = 0 /\ ready = 0
    <3>1. incoming_asleep = Handlers
      BY <2>3 DEF Points
    <3>2. ~(incoming > 0) /\ ~(ready > 0)
      BY <1>5, <2>3, <3>1 DEF IInv, NoSleepOverWork
    <3>. QED  BY <3>2 DEF Counts
  <2>5. Handling = {} /\ Cardinality(Handling) = 0
    BY <1>1, FS_EmptySet DEF Handling
  <2>6. InHand = 0
    BY <2>3, <2>5 DEF InHand
  <2>. QED  BY <1>5, <2>2, <2>4, <2>6, ThreadsAssumption DEF Counts
<1>7. shutdown_control /\ answered = NRequests /\ Broadcasted
  BY <1>6 DEF Waiting, Flagged, Broadcasted
<1>8. \A h \in Handlers : handler[h] = "exit" \/ MissedShutdown(h)
  <2>. SUFFICES ASSUME NEW h \in Handlers, handler[h] # "exit"
                PROVE  MissedShutdown(h)
    OBVIOUS
  <2>1. h \in incoming_asleep
    BY <1>3
  <2>2. \A q \in Handlers : q = h
    BY <1>3, <1>7, <2>1 DEF Waiting, Woken
  <2>. QED  BY <2>1, <2>2 DEF MissedShutdown
<1>9. CASE dispatcher = "exit"
  <2>1. main \in {"join_handlers", "stopped"}
    BY <1>6, <1>9 DEF MayGoOn, Points
  <2>2. CASE main = "join_handlers"
    <3>1. PICK h \in Handlers : handler[h] # "exit"
      BY <2>2 DEF MayGoOn
    <3>. QED  BY <1>6, <1>7, <1>8, <3>1
  <2>. QED  BY <1>6, <1>7, <1>8, <2>1, <2>2
<1>. QED  BY <1>4, <1>6, <1>7, <1>8, <1>9

\* A forwarder gets stuck in one way only, whatever the number of its handlers
\* and requests: with all of its requests answered, one thread has missed the
\* shutdown; a handler does so only where there is no other (main.c, the joins
\* at the end of the forwarder's branch, and the broadcasts without the mutex).
THEOREM OnlyTheShutdownIsMissed == Spec => []OnlyShutdownIsMissed
<1>1. Init => Waiting
  BY InitWaiting
<1>2. Points /\ Counts /\ IInv /\ TypeOK' /\ Waiting /\ [Next]_vars => Waiting'
  <2>. SUFFICES ASSUME Points, Counts, IInv, TypeOK', Waiting, [Next]_vars
                PROVE  Waiting'
    OBVIOUS
  <2>1. CASE UNCHANGED vars
    BY <2>1 DEF vars, counts, inVars, outVars, pcs, Waiting, Held, Flagged,
       Woken, Broadcasted
  <2>2. CASE Next
    <3>1. Flagged'
      BY <2>2, FlagKept DEF Waiting
    <3>2. CASE Stopped
      BY <2>1, <3>2 DEF Stopped
    <3>3. CASE ~Stopped
      <4>1. Held' /\ Woken'
        BY <2>2, <3>3, ListenerWaits, HandlerWaitsInTurn, OthersWait
           DEF Next, Prompted
      <4>. QED  BY <3>1, <4>1 DEF Waiting
    <3>. QED  BY <3>2, <3>3
  <2>. QED  BY <2>1, <2>2
<1>3. Points /\ Counts /\ IInv /\ Waiting => OnlyShutdownIsMissed
  BY WhoIsLeft
<1>. QED  BY <1>1, <1>2, <1>3, PointsAndCounts, LocksInvariance,
             TypeCorrect, PTL DEF Spec
=============================================================================
