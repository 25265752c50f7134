---------------------------- MODULE ServerThreads ----------------------------
(***************************************************************************)
(* How the threads of a forwarding server wait for each other: the two     *)
(* queues with their mutexes and condition variables, the shutdown flag,   *)
(* and the main thread that joins them all.  Forwarder models what the     *)
(* threads do with a request, and blocking as a guard; here a request is   *)
(* only counted, and each pthread call is a step.                          *)
(*                                                                         *)
(* A condition variable is the set of threads asleep on it, and a thread    *)
(* may wake up by itself.  The mutexes are held across steps, by the thread *)
(* that the lock variable names.                                            *)
(***************************************************************************)
EXTENDS Naturals, FiniteSets

CONSTANTS Handlers,    \* the handler threads
          NRequests,   \* how many requests the clients send before they stop
          Free         \* the owner of a mutex that nobody holds

ASSUME ThreadsAssumption == /\ IsFiniteSet(Handlers) /\ Handlers # {}
                            /\ Free \notin Handlers
                            /\ NRequests \in Nat

VARIABLES
    unsent,             \* requests the listener has not received yet
    incoming, ready,    \* the lengths of incoming_queue and ready_queue
    scheduled,          \* requests on their way to AGIOS, or held by it
    submitted,          \* requests given to the thread pool to transfer
    answered,           \* requests whose client got its answer
    shutdown_control,
    incoming_mutex, incoming_asleep,  \* incoming_queue_mutex and its signal
    ready_asleep,                     \* the dispatcher sleeps on its signal
    ready_mutex,                      \* whether the dispatcher holds it
    listener, handler, agios, dispatcher, main  \* what each thread does next

counts  == <<unsent, incoming, ready, scheduled, submitted, answered>>
inVars  == <<incoming_mutex, incoming_asleep>>
outVars == <<ready_mutex, ready_asleep>>
pcs     == <<listener, handler, agios, dispatcher, main>>
vars    == <<counts, shutdown_control, inVars, outVars, pcs>>

Init ==
    /\ unsent = NRequests /\ incoming = 0 /\ ready = 0 /\ scheduled = 0
    /\ submitted = 0 /\ answered = 0 /\ shutdown_control = FALSE
    /\ incoming_mutex = Free /\ incoming_asleep = {}
    /\ ready_mutex = FALSE /\ ready_asleep = FALSE
    /\ listener = "recv" /\ agios = "idle" /\ dispatcher = "lock"
    /\ handler = [h \in Handlers |-> "lock"] /\ main = "join"

\* pthread_cond_signal and pthread_cond_broadcast on incoming_queue_signal.
SignalIncoming_None == UNCHANGED incoming_asleep
SignalIncoming ==
    \/ incoming_asleep = {} /\ UNCHANGED incoming_asleep
    \/ \E h \in incoming_asleep : incoming_asleep' = incoming_asleep \ {h}
BroadcastIncoming == incoming_asleep' = {}
\* Only the dispatcher ever waits on ready_queue_signal.
SignalReady_None == UNCHANGED ready_asleep
SignalReady == ready_asleep' = FALSE

----------------------------------------------------------------------------
(* The listener. *)

ListenerReceives ==
    /\ listener = "recv" /\ unsent > 0
    /\ unsent' = unsent - 1
    /\ listener' = "enqueue"
    /\ UNCHANGED <<incoming, ready, scheduled, submitted, answered,
                   shutdown_control, inVars, outVars, handler, agios,
                   dispatcher, main>>

ListenerEnqueues ==
    /\ listener = "enqueue" /\ incoming_mutex = Free
    /\ incoming' = incoming + 1
    /\ listener' = "signal"
    /\ UNCHANGED <<unsent, ready, scheduled, submitted, answered,
                   shutdown_control, inVars, outVars, handler, agios,
                   dispatcher, main>>

ListenerSignals ==
    /\ listener = "signal"
    /\ SignalIncoming
    /\ listener' = "recv"
    /\ UNCHANGED <<counts, shutdown_control, incoming_mutex, outVars, handler,
                   agios, dispatcher, main>>

\* The clients are finished once each of their requests is answered; the last
\* of them makes the listener set the flag.  It holds neither queue's mutex,
\* here and at the broadcasts.
ListenerFlags ==
    /\ listener = "recv" /\ answered = NRequests /\ ~shutdown_control
    /\ shutdown_control' = TRUE
    /\ listener' = "broadcast_incoming"
    /\ UNCHANGED <<counts, inVars, outVars, handler, agios, dispatcher, main>>

ListenerBroadcastsIncoming ==
    /\ listener = "broadcast_incoming"
    /\ BroadcastIncoming
    /\ listener' = "broadcast_ready"
    /\ UNCHANGED <<counts, shutdown_control, incoming_mutex, outVars, handler,
                   agios, dispatcher, main>>

\* Once there, and once more before the listener returns.
ListenerBroadcastsReady ==
    /\ \/ listener = "broadcast_ready" /\ listener' = "recv"
       \/ listener = "recv" /\ shutdown_control /\ listener' = "exit"
    /\ SignalReady
    /\ UNCHANGED <<counts, shutdown_control, inVars, ready_mutex, handler,
                   agios, dispatcher, main>>

Listener == \/ ListenerReceives \/ ListenerEnqueues \/ ListenerSignals
            \/ ListenerFlags \/ ListenerBroadcastsIncoming
            \/ ListenerBroadcastsReady

----------------------------------------------------------------------------
(* A handler. *)

HandlerGoto(h, next) == handler' = [handler EXCEPT ![h] = next]
handlerLeaves == <<unsent, ready, submitted, answered, shutdown_control, outVars,
                   listener, agios, dispatcher, main>>

\* The mutex, at the top of the loop or at the end of pthread_cond_wait.
HandlerLocks(h) ==
    /\ handler[h] = "lock" /\ h \notin incoming_asleep
    /\ incoming_mutex = Free
    /\ incoming_mutex' = h
    /\ HandlerGoto(h, "test")
    /\ UNCHANGED <<handlerLeaves, incoming, scheduled, incoming_asleep>>

\* A request, or else the flag, or else to sleep.
HandlerTests(h) ==
    /\ handler[h] = "test"
    /\ IF incoming > 0
       THEN /\ incoming' = incoming - 1 /\ incoming_mutex' = Free
            /\ HandlerGoto(h, "handle")
       ELSE /\ UNCHANGED incoming
            /\ IF shutdown_control
               THEN incoming_mutex' = Free /\ HandlerGoto(h, "broadcast")
               ELSE UNCHANGED incoming_mutex /\ HandlerGoto(h, "wait")
    /\ UNCHANGED <<handlerLeaves, scheduled, incoming_asleep>>

\* pthread_cond_wait unlocks the mutex and sleeps in one step, but a signal
\* may come between the test and this step.
HandlerWaits(h) ==
    /\ handler[h] = "wait"
    /\ incoming_mutex' = Free
    /\ incoming_asleep' = incoming_asleep \cup {h}
    /\ HandlerGoto(h, "lock")
    /\ UNCHANGED <<handlerLeaves, incoming, scheduled>>

\* Opening or closing a file is answered here; the rest goes to AGIOS.
HandlerHandles(h) ==
    /\ handler[h] = "handle"
    /\ \/ answered' = answered + 1 /\ UNCHANGED scheduled
       \/ scheduled' = scheduled + 1 /\ UNCHANGED answered
    /\ HandlerGoto(h, "lock")
    /\ UNCHANGED <<unsent, ready, submitted, shutdown_control, outVars, listener,
                   agios, dispatcher, main, incoming, inVars>>

\* A handler that stops wakes the others.
LastWords_None == UNCHANGED incoming_asleep
LastWords == BroadcastIncoming
HandlerBroadcasts(h) ==
    /\ handler[h] = "broadcast"
    /\ LastWords
    /\ HandlerGoto(h, "exit")
    /\ UNCHANGED <<handlerLeaves, incoming, scheduled, incoming_mutex>>

Handler(h) == \/ HandlerLocks(h) \/ HandlerTests(h) \/ HandlerWaits(h)
              \/ HandlerHandles(h) \/ HandlerBroadcasts(h)

----------------------------------------------------------------------------
(* AGIOS and its callbacks: some requests join the ready queue at once, and *)
(* then the dispatcher is signalled, once.                                  *)

AgiosSchedules ==
    /\ agios = "idle" /\ ~ready_mutex
    /\ \E n \in 1..scheduled : scheduled' = scheduled - n /\ ready' = ready + n
    /\ agios' = "signal"
    /\ UNCHANGED <<unsent, incoming, submitted, answered, shutdown_control,
                   inVars, outVars, listener, handler, dispatcher, main>>

AgiosSignals ==
    /\ agios = "signal"
    /\ SignalReady
    /\ agios' = "idle"
    /\ UNCHANGED <<counts, shutdown_control, inVars, ready_mutex, listener,
                   handler, dispatcher, main>>

Agios == AgiosSchedules \/ AgiosSignals

----------------------------------------------------------------------------
(* The dispatcher, and the thread pool that answers the clients. *)

dispatcherLeaves == <<unsent, incoming, scheduled, answered, shutdown_control,
                      listener, handler, agios, main>>

DispatcherLocks ==
    /\ dispatcher = "lock" /\ ~ready_asleep
    /\ ready_mutex' = TRUE
    /\ dispatcher' = "test"
    /\ UNCHANGED <<dispatcherLeaves, inVars, ready, submitted, ready_asleep>>

DispatcherTests ==
    /\ dispatcher = "test"
    /\ IF ready > 0
       THEN ready' = ready - 1 /\ ready_mutex' = FALSE /\ dispatcher' = "batch"
       ELSE /\ UNCHANGED ready
            /\ IF shutdown_control
               THEN ready_mutex' = FALSE /\ dispatcher' = "signal_handlers"
               ELSE UNCHANGED ready_mutex /\ dispatcher' = "wait"
    /\ UNCHANGED <<dispatcherLeaves, inVars, submitted, ready_asleep>>

DispatcherWaits ==
    /\ dispatcher = "wait"
    /\ ready_mutex' = FALSE /\ ready_asleep' = TRUE
    /\ dispatcher' = "lock"
    /\ UNCHANGED <<dispatcherLeaves, inVars, ready, submitted>>

\* The request in hand and n of the others make a batch for the pool; the
\* signal that follows reaches nobody, for the dispatcher is awake.
Batch_NotDeleted(n) == submitted' = submitted + n + 1 /\ UNCHANGED ready
Batch(n) == submitted' = submitted + n + 1 /\ ready' = ready - n
DispatcherSubmits ==
    /\ dispatcher = "batch"
    /\ \E n \in 0..ready : Batch(n)
    /\ dispatcher' = "lock"
    /\ UNCHANGED <<dispatcherLeaves, inVars, outVars>>

DispatcherSignalsHandlers ==
    /\ dispatcher = "signal_handlers"
    /\ SignalIncoming
    /\ dispatcher' = "exit"
    /\ UNCHANGED <<dispatcherLeaves, incoming_mutex, outVars, ready, submitted>>

Dispatcher == \/ DispatcherLocks \/ DispatcherTests \/ DispatcherWaits
              \/ DispatcherSubmits \/ DispatcherSignalsHandlers

PoolAnswers ==
    /\ submitted > 0
    /\ submitted' = submitted - 1 /\ answered' = answered + 1
    /\ UNCHANGED <<unsent, incoming, ready, scheduled, shutdown_control, inVars,
                   outVars, pcs>>

----------------------------------------------------------------------------
(* The main thread of the server: pthread_join for the dispatcher, then for *)
(* the handlers; thpool_destroy; pthread_join for the listener.             *)

MainJoins ==
    /\ \/ main = "join" /\ dispatcher = "exit" /\ main' = "join_handlers"
       \/ /\ main = "join_handlers" /\ \A h \in Handlers : handler[h] = "exit"
          /\ main' = "join_listener"
       \/ main = "join_listener" /\ listener = "exit" /\ main' = "stopped"
    /\ UNCHANGED <<counts, shutdown_control, inVars, outVars, listener, handler,
                   agios, dispatcher>>

Stopped == main = "stopped" /\ UNCHANGED vars

Prompted == \/ Listener \/ (\E h \in Handlers : Handler(h)) \/ Agios
            \/ Dispatcher \/ PoolAnswers \/ MainJoins \/ Stopped

\* pthread_cond_wait may return although nobody signalled.
SpuriousWakeup ==
    /\ \/ /\ \E h \in incoming_asleep : incoming_asleep' = incoming_asleep \ {h}
          /\ UNCHANGED ready_asleep
       \/ ready_asleep /\ ready_asleep' = FALSE /\ UNCHANGED incoming_asleep
    /\ UNCHANGED <<counts, shutdown_control, incoming_mutex, ready_mutex, pcs>>

Next == Prompted \/ SpuriousWakeup

\* Every thread that can go on does.
Fairness == /\ WF_vars(Listener) /\ (\A h \in Handlers : WF_vars(Handler(h)))
            /\ WF_vars(Agios) /\ WF_vars(Dispatcher) /\ WF_vars(PoolAnswers)
            /\ WF_vars(MainJoins)

Spec == Init /\ [][Next]_vars

\* What must happen must happen without the help of spurious wake-ups: there
\* may be some, at any time, but not for ever.
FairSpec == Spec /\ Fairness /\ <>[][Prompted]_vars

----------------------------------------------------------------------------
(* Correctness. *)

TypeOK ==
    /\ {unsent, incoming, ready, scheduled, submitted, answered} \subseteq 0..NRequests
    /\ shutdown_control \in BOOLEAN /\ ready_mutex \in BOOLEAN
    /\ ready_asleep \in BOOLEAN
    /\ incoming_mutex \in Handlers \cup {Free}
    /\ incoming_asleep \subseteq Handlers
    /\ listener \in {"recv", "enqueue", "signal", "broadcast_incoming",
                     "broadcast_ready", "exit"}
    /\ handler \in [Handlers -> {"lock", "test", "wait", "handle", "broadcast",
                                 "exit"}]
    /\ agios \in {"idle", "signal"}
    /\ dispatcher \in {"lock", "test", "wait", "batch", "signal_handlers", "exit"}
    /\ main \in {"join", "join_handlers", "join_listener", "stopped"}

\* Although a signal is sent after the mutex is released, once for each request
\* of the listener and once for several requests of AGIOS: nobody sleeps over a
\* queue that is not empty, unless the signal is still to come.
NoSleepOverWork ==
    /\ incoming > 0 => listener = "signal" \/ incoming_asleep # Handlers
    /\ ready > 0 /\ ready_asleep => agios = "signal"

\* So every request is answered ...
EveryRequestAnswered == <>(answered = NRequests)

\* ... and if there are several handlers all of them stop, for the mutex lets
\* only one miss the broadcast of the listener, and the others broadcast again.
HandlersStop == <>(\A h \in Handlers : handler[h] = "exit")

\* The main thread gets to the end of its pthread_joins.
ServerStops == <>(main = "stopped")
=============================================================================
