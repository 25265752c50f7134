----------------------------- MODULE Forwarder -----------------------------
(***************************************************************************)
(* One FORGE forwarding server and its clients, for complete runs of the   *)
(* benchmark: the path of a request from a client by way of the listener,  *)
(* a handler, the thread pool, AGIOS, the dispatcher and the thread pool   *)
(* again back to the client.                                               *)
(***************************************************************************)
EXTENDS ForgeClient, ForgeServer, ForgeJobs, ForgeDispatch

Running == aborted = "no"

\* MPI_Abort ends every process; a finished run stays as it is.
Finished == /\ ~Running \/ (shutdown_control /\ \A t \in PoolThreads : pool[t].at = "idle")
            /\ UNCHANGED vars

Next ==
    \/ /\ Running
       /\ \/ \E c \in Clients : Client(c)
          \/ Listener
          \/ \E h \in Handlers : Handler(h)
          \/ \E t \in PoolThreads : Pool(t)
          \/ Agios
          \/ Dispatcher
    \/ Finished

\* Each process and thread keeps running, and AGIOS keeps scheduling.
Fairness ==
    /\ \A c \in Clients : WF_vars(Running /\ Client(c))
    /\ WF_vars(Running /\ Listener)
    /\ \A h \in Handlers : WF_vars(Running /\ Handler(h))
    /\ \A t \in PoolThreads : WF_vars(Running /\ Pool(t))
    /\ WF_vars(Running /\ Agios)
    /\ WF_vars(Running /\ Dispatcher)

Spec == Init /\ [][Next]_vars
FairSpec == Spec /\ Fairness

----------------------------------------------------------------------------
(* Correctness. *)

\* The type of every variable: what the C declarations and the protocol say
\* each can hold.
ClientTypes ==
    /\ pc \in [Clients -> {"open", "handle", "opened", "issue", "id", "ack",
                           "data", "drained", "closing", "closed", "shutdown",
                           "done"}]
    /\ phase \in [Clients -> {"write", "read"}]
    /\ iter \in [Clients -> 0..NRequests]
    /\ \A c \in Clients : pc[c] \in {"id", "ack", "data"} => iter[c] < NRequests
    /\ fh \in [Clients -> Int]
    /\ request_id \in [Clients -> Int]
    /\ barrier \in [Clients -> Nat]
NetTypes ==
    /\ requestMsgs \in [Clients -> Seq(Message)]
    /\ handleMsgs \in [Clients -> Seq(Int)]
    /\ ackMsgs \in [Clients -> Seq(Int)]
    /\ dataMsgs \subseteq [to : {"server", "client"}, rank : Clients,
                           tag : Int, data : Bytes]
QueueTypes ==
    /\ global_id \in Ids /\ shutdown \in Nat /\ shutdown_control \in BOOLEAN
    /\ incoming_queue \in Seq(Ids) /\ ready_queue \in Seq(Ids)
    /\ requests \subseteq Ids /\ agios \subseteq Ids
    /\ jobs \in Seq(Job)
FileTypes ==
    /\ opened_files \in [Files -> [fh : Fds \cup {NoFd}, references : Nat]]
    /\ pvfs_fh_id \in Fds
    /\ fr \in [Ids -> ForwardingRequest]
    /\ disk \in [Files -> [Blocks -> Bytes]]
    /\ aborted \in {"no", "ERROR_VALIDATION_FAILED", "ERROR_FAILED_TO_CLOSE",
                    "ERROR_INVALID_REQUEST_ID", "SIGSEGV"}
ThreadTypes ==
    /\ handler \in [Handlers -> {IdleHandler} \cup
                                [at : {"got", "reply"}, id : Ids]]
    /\ dispatcher \in {IdleDispatcher} \cup
                     [at : {"find", "batch", "submit"}, ids : Seq(Ids) \ {<<>>}]
    /\ pool \in [PoolThreads -> {IdleThread} \cup
                 {w \in [fn : JobFunctions, ids : Seq(Ids) \ {<<>>},
                         at : Points, k : Nat \ {0}] :
                     w.fn # "dispatch_operation" => w.k <= Len(w.ids)}]
TypeOK == ClientTypes /\ NetTypes /\ QueueTypes /\ FileTypes /\ ThreadTypes

\* Nothing the server trusts a client or AGIOS for, or a thread another
\* thread for, ever turns out wrong: no identifier of the ready queue is
\* missing from the hash, no CLOSE finds its path unopened, and no client
\* reads bytes it did not write.
NeverAborts == aborted = "no"

\* Where a request is: in a queue, in AGIOS, or in the hands of a thread,
\* which still has to finish the requests from pool[t].k on.
PoolIds(t) == {pool[t].ids[j] : j \in
                 IF pool[t].fn = "dispatch_operation" THEN 1..Len(pool[t].ids)
                 ELSE pool[t].k..Len(pool[t].ids)}
Places ==
    {<<"incoming", j, incoming_queue[j]>> : j \in DOMAIN incoming_queue}
    \cup {<<"handler", h, handler[h].id>> : h \in {h \in Handlers : handler[h].at # "idle"}}
    \cup (UNION {{<<"job", j, id>> : id \in Range(jobs[j].ids)} : j \in DOMAIN jobs})
    \cup (UNION {{<<"pool", t, id>> : id \in PoolIds(t)} : t \in PoolThreads})
    \cup {<<"agios", 0, id>> : id \in agios}
    \cup {<<"ready", j, ready_queue[j]>> : j \in DOMAIN ready_queue}
    \cup {<<"dispatcher", j, dispatcher.ids[j]>> : j \in DOMAIN dispatcher.ids}

\* A request is neither lost nor duplicated: from the listener to the reply,
\* each is in exactly one place, and nothing stale is in any.
EachRequestInOnePlace ==
    \A id \in Ids : Cardinality({p \in Places : p[3] = id}) =
                       IF fr[id] = NoRequest THEN 0 ELSE 1

\* A client that waits for an answer has exactly one request or answer under
\* way, and one that does not wait has none: no request is answered twice,
\* none is dropped, none is mistaken for another.
Answers(c) ==
    Len(handleMsgs[c])
    + Cardinality({m \in dataMsgs : m.to = "client" /\ m.rank = c})
    + IF pc[c] \in {"ack", "closing"} THEN Len(ackMsgs[c]) ELSE 0
OneAnswerPerRequest ==
    \A c \in Clients :
       Cardinality({id \in Ids : fr[id].rank = c})
       + Cardinality({j \in DOMAIN requestMsgs[c] :
                         requestMsgs[c][j].operation # "empty"})
       + Answers(c)
       = IF pc[c] \in {"handle", "id", "ack", "data", "closing"} THEN 1 ELSE 0

\* The requests that had their effect, though the client has no answer yet:
\* the file is opened or closed, the bytes are transferred.
Effected ==
    {handler[h].id : h \in {h \in Handlers : handler[h].at = "reply"}}
    \cup (UNION {Range(jobs[j].ids) :
                  j \in {j \in DOMAIN jobs : jobs[j].fn = "callback"}})
    \cup (UNION {{pool[t].ids[k] : k \in DOMAIN pool[t].ids \ 1..(pool[t].k - 1)} :
                  t \in {t \in PoolThreads : pool[t].fn = "callback"}})
    \cup (UNION {{pool[t].ids[k] : k \in 1..(pool[t].k - 1)} :
                  t \in {t \in PoolThreads : pool[t].fn = "dispatch_operation"}})

\* Whether the request client c waits for has yet to have its effect.
Pending(c) ==
    \/ requestMsgs[c] # <<>>
    \/ \E id \in Ids \ Effected : fr[id].rank = c

\* A client uses the file from when the server opened it for it until the
\* server closed it for it.
Uses(c) ==
    \/ pc[c] = "handle" /\ ~Pending(c)
    \/ pc[c] \in {"opened", "issue", "id", "ack", "data", "drained"}
    \/ pc[c] = "closing" /\ Pending(c)

\* The reference count of an open file is the number of clients that use it.
ReferencesCountUsers ==
    \A f \in Files : opened_files[f].references =
       Cardinality({c \in Clients : FileOf(Layout, c) = f /\ Uses(c)})

\* To its clients all this is a file system: what a client waits for, whether
\* it has happened, and what a read that has happened is going to return.
Called(c) ==
    CASE pc[c] = "handle"  -> [op |-> "open", block |-> 0]
      [] pc[c] = "closing" -> [op |-> "close", block |-> 0]
      [] pc[c] \in {"id", "ack", "data"} ->
            [op |-> phase[c], block |-> BlockOf(c, iter[c])]
      [] OTHER -> [op |-> "none", block |-> 0]
IsDone(c) == Called(c).op # "none" /\ ~Pending(c)
Found(c) == {fr[id].buffer : id \in {id \in Ids : fr[id].rank = c}}
            \cup {m.data : m \in {m \in dataMsgs : m.to = "client" /\ m.rank = c}}
Result(c) == IF Called(c).op = "read" /\ IsDone(c) /\ Found(c) # {}
             THEN CHOOSE b \in Found(c) : TRUE ELSE Nobody

FS == INSTANCE FileService WITH
         File     <- [c \in Clients |-> FileOf(Layout, c)],
         Nothing  <- Nobody,
         Fresh    <- FreshBuffer,
         Reliable <- FullTransfers,
         call     <- [c \in Clients |-> Called(c)],
         done     <- [c \in Clients |-> IsDone(c)],
         result   <- [c \in Clients |-> Result(c)],
         opened   <- {c \in Clients : Uses(c)},
         users    <- [f \in Files |-> opened_files[f].references],
         content  <- disk

\* Each open, read, write and close that a client calls has its effect once,
\* at an instant between the call and the answer, on the bytes it names.
ImplementsFileService == FS!Spec

\* Every read and write in the server carries the handle under which its
\* client's file is open at that moment: no transfer goes to a descriptor
\* that was closed, or reused for another file.
HandlesStayOpen ==
    \A id \in Ids : fr[id].operation \in {"read", "write"} =>
       LET f == FileOf(Layout, fr[id].rank)
       IN  opened_files[f].references > 0 /\ opened_files[f].fh = fr[id].file_handle

\* What AGIOS or the dispatcher can hand back is in the hash, so that its
\* callback finds it.
ScheduledAreHashed ==
    agios \cup Range(ready_queue) \cup Range(dispatcher.ids) \subseteq requests

\* A batch never exceeds the array it is kept in, never holds a request
\* twice and never mixes operations or files.
BatchesAreSound ==
    \A ids \in {dispatcher.ids} \cup {jobs[j].ids : j \in DOMAIN jobs} :
       /\ Len(ids) <= MAX_BATCH_SIZE
       /\ IsInjective(ids)
       /\ \A j, k \in DOMAIN ids : Same(ids[j], ids[k])

\* A write the client counts as done is in the file, at its own offset.
DoneWritesAreOnDisk ==
    FullTransfers => \A c \in Clients :
       phase[c] = "write" => \A i \in 0..(iter[c] - 1) :
          disk[FileOf(Layout, c)][BlockOf(c, i)] = c

\* Even if transfers fall short, a client that reads is sent its own bytes or
\* what a fresh buffer holds, never the bytes of another client.
NoForeignBytes ==
    \A m \in dataMsgs : m.to = "client" => m.data \in {m.rank, Nobody, FreshBuffer}

\* When the server lets its threads stop, nothing is left for them to do:
\* the thread pool may drop its queue, and no descriptor is left open.
StopsOnlyWhenDrained ==
    shutdown_control =>
       /\ incoming_queue = <<>> /\ ready_queue = <<>> /\ jobs = <<>>
       /\ requests = {} /\ agios = {} /\ OpenFds = {}
       /\ \A id \in Ids : fr[id] = NoRequest

\* An identifier is not given out again while the request, or a message
\* tagged with it, is still around.
IdsAreNotReused ==
    [][\A id \in Ids :
          (fr'[id] # NoRequest /\ fr[id] = NoRequest =>
              \A m \in dataMsgs : m.tag # id)
       /\ (fr'[id] # NoRequest /\ fr[id] # NoRequest =>
              fr'[id].rank = fr[id].rank /\ fr'[id].offset = fr[id].offset
              /\ fr'[id].operation = fr[id].operation)]_vars

\* Every client gets through all its phases, and the server stops.
EveryRunCompletes ==
    <>(shutdown_control /\ \A c \in Clients : pc[c] = "done")
=============================================================================
