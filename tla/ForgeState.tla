---------------------------- MODULE ForgeState -----------------------------
(***************************************************************************)
(* The state of one FORGE forwarding server and the clients it serves,     *)
(* and what their threads have in common.  The modules ForgeClient,        *)
(* ForgeServer, ForgeJobs and ForgeDispatch add the actions of each of     *)
(* them, and Forwarder composes them.                                      *)
(*                                                                         *)
(* The code holds a mutex or an rwlock over every access to a shared queue *)
(* or hash, so each critical section is one action; what a thread does     *)
(* between two of them is interleaved with all the others.  A thread that  *)
(* is blocked on a condition variable is an action whose guard is the      *)
(* condition it waits for.                                                 *)
(***************************************************************************)
EXTENDS Integers, Sequences, FiniteSets, Functions, AccessPattern

CONSTANTS
    NClients,        \* the clients of this forwarder, ranks 0..NClients-1
    Handlers,        \* the handler threads ("handlers")
    PoolThreads,     \* the threads of the pool ("dispatchers")
    MAX_BATCH_SIZE,  \* the most requests the dispatcher aggregates
    NRequests,       \* how many requests a client issues in a phase (n)
    Layout,          \* "number_of_files"
    Spatiality,      \* "spatiality"
    Phases,          \* which of "write" and "read" the run executes
    Validation,      \* "validation": clients check the bytes they read
    DirectIO,        \* "direct_io": buffers are aligned, and not cleared
    FileSystem,      \* which file system the server is built for
    StoneWall,       \* whether the time limit may end a phase early
    FullTransfers,   \* whether every pread and pwrite moves all its bytes
    FirstId, LastId, \* the range of request identifiers
    FirstFd, LastFd  \* the range of file descriptors or PVFS handles

ASSUME SizesAssumption ==
    /\ NClients \in Nat \ {0}
    /\ MAX_BATCH_SIZE \in Nat \ {0}
    /\ NRequests \in Nat
ASSUME LayoutAssumption ==
    /\ Layout \in Layouts
    /\ Spatiality \in Spatialities
    /\ Phases \subseteq {"write", "read"} /\ Phases # {}
    /\ Validation \in BOOLEAN /\ FullTransfers \in BOOLEAN
    /\ DirectIO \in BOOLEAN /\ FileSystem \in {"posix", "pvfs"}
    /\ StoneWall \in BOOLEAN /\ (StoneWall => Phases # {"write", "read"})
ASSUME IdAssumption == FirstId \in Nat /\ LastId \in Nat /\ FirstId < LastId

Clients == 0..(NClients - 1)
Ids     == FirstId..LastId
Files   == {FileOf(Layout, c) : c \in Clients}
Blocks  == 0..(NClients * NRequests)

\* Markers for "no such thing"; descriptors and identifiers are naturals.
NoFd    == -1
NoId    == -1
Nobody  == -1

\* What a byte is: the rank that wrote it, zero, or left in a buffer that
\* posix_memalign returned.
Stale   == -2
Bytes   == Clients \cup {Nobody, Stale}
FreshBuffer == IF DirectIO THEN Stale ELSE Nobody

\* The descriptors of open(), which always finds a free one, for it failing ends
\* the run; or the handles of a PVFS build, before they begin again.
Fds == FirstFd..LastFd
ASSUME FdAssumption == /\ FirstFd \in Nat /\ LastFd \in Nat /\ FirstFd < LastFd
                       /\ Cardinality(Fds) >= Cardinality(Files)

\* The offset of client c's i-th request, counting in requests.
BlockOf(c, i) == Offset(Layout, Spatiality, i, NRequests, NClients, c, 1)

\* The phase a client begins with, and the pc after the phase ph is over.
FirstPhase == IF "write" \in Phases THEN "write" ELSE "read"
Follows(ph) == IF ph = "write" /\ "read" \in Phases THEN "open" ELSE "shutdown"

VARIABLES
    \* the clients
    pc,          \* what each client does next
    phase,       \* "write" or "read"
    iter,        \* the loop counter i
    fh,          \* forwarding_fh
    request_id,  \* the identifier the forwarder acknowledged
    barrier,     \* how many barriers of clients_comm each client entered
    \* MPI messages under way; one source, one destination, one tag: FIFO
    requestMsgs, \* TAG_REQUEST, client to forwarder
    handleMsgs,  \* TAG_HANDLE, forwarder to client
    ackMsgs,     \* TAG_ACK, forwarder to client
    dataMsgs,    \* file data, tagged by the request identifier
    \* the forwarder's shared state
    global_id, shutdown, shutdown_control,
    incoming_queue, ready_queue, opened_files, requests,
    pvfs_fh_id,  \* the last handle the PVFS build gave to a file
    fr,          \* the forwarding_request objects, by identifier
    agios,       \* the identifiers AGIOS holds
    jobs,        \* the job queue of the thread pool
    \* what each thread has in hand
    handler, dispatcher, pool,
    \* the file system, and the reason MPI_Abort was called
    disk, aborted

clientVars == <<pc, phase, iter, fh, request_id, barrier>>
netVars    == <<requestMsgs, handleMsgs, ackMsgs, dataMsgs>>
ioVars     == <<agios, ready_queue, dispatcher>>
vars == <<clientVars, netVars, global_id, shutdown, shutdown_control,
          incoming_queue, opened_files, pvfs_fh_id, requests, fr, ioVars,
          jobs, handler, pool, disk, aborted>>

----------------------------------------------------------------------------
(* Data. *)

\* struct request, as a client sends it; "empty" is the zero-length message
\* that announces the client is finished.  Opening and closing name a file.
Operations == {"open", "read", "write", "close"}
NamesFile(m) == m.operation \in {"open", "close"} => m.file \in Files
Message == {m \in [operation : Operations \cup {"empty"},
                   file : Files \cup {Nobody}, file_handle : Int,
                   offset : Blocks] : NamesFile(m)}

\* struct forwarding_request.  The buffer is what fills it.
ForwardingRequest ==
    {r \in [operation : Operations \cup {"none"}, file : Files \cup {Nobody},
            file_handle : Int, offset : Blocks, rank : Clients \cup {Nobody},
            buffer : Bytes] :
        NamesFile(r) /\ (r.operation # "none" => r.rank \in Clients)}
NoRequest == [operation |-> "none", file |-> Nobody, file_handle |-> NoFd,
              offset |-> 0, rank |-> Nobody, buffer |-> Nobody]

\* struct opened_handles; no references means the path is not in the hash.
NotOpened == [fh |-> NoFd, references |-> 0]

\* The thread-pool jobs and what a pool thread has in hand: the job, the
\* point it reached and the request of the batch it is at.
JobFunctions == {"handle_read", "handle_write", "dispatch_operation", "callback"}
Job == [fn : JobFunctions, ids : Seq(Ids) \ {<<>>}]
Points == {"begin", "wait", "hash", "agios", "io", "reply"}
IdleThread == [fn |-> "none", ids |-> <<>>, at |-> "idle", k |-> 1]
IdleHandler == [at |-> "idle", id |-> NoId]
IdleDispatcher == [at |-> "pop", ids |-> <<>>]

----------------------------------------------------------------------------
(* What the threads have in common. *)

\* MPI_Send and MPI_Recv on one channel.
Send(channel, c, m) == [channel EXCEPT ![c] = Append(@, m)]
Recv(channel, c)    == [channel EXCEPT ![c] = Tail(@)]

\* Descriptors the process has open, and the file behind one of them.
OpenFds == {opened_files[f].fh : f \in Files} \ {NoFd}
FilesOf(d) == {f \in Files : opened_files[f].fh = d}

\* Two requests of one operation on one handle: those a batch may hold.
Same(a, b) == /\ fr[a].operation = fr[b].operation
              /\ fr[a].file_handle = fr[b].file_handle

----------------------------------------------------------------------------
Init ==
    /\ pc = [c \in Clients |-> "open"]
    /\ phase = [c \in Clients |-> FirstPhase]
    /\ iter = [c \in Clients |-> 0]
    /\ fh = [c \in Clients |-> NoFd]
    /\ request_id = [c \in Clients |-> NoId]
    /\ barrier = [c \in Clients |-> 0]
    /\ requestMsgs = [c \in Clients |-> <<>>]
    /\ handleMsgs = [c \in Clients |-> <<>>]
    /\ ackMsgs = [c \in Clients |-> <<>>]
    /\ dataMsgs = {}
    /\ global_id = FirstId /\ shutdown = 0 /\ shutdown_control = FALSE
    /\ incoming_queue = <<>> /\ ready_queue = <<>>
    /\ opened_files = [f \in Files |-> NotOpened] /\ pvfs_fh_id = FirstFd
    /\ requests = {} /\ agios = {} /\ jobs = <<>>
    /\ fr = [id \in Ids |-> NoRequest]
    /\ handler = [h \in Handlers |-> IdleHandler]
    /\ dispatcher = IdleDispatcher
    /\ pool = [t \in PoolThreads |-> IdleThread]
    /\ disk = [f \in Files |-> [b \in Blocks |-> Nobody]]
    /\ aborted = "no"
=============================================================================
