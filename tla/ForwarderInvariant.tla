------------------------- MODULE ForwarderInvariant -------------------------
(***************************************************************************)
(* The inductive invariant of Forwarder.  Two history functions say what   *)
(* the state implies: `stage', how far the server is with each identifier, *)
(* and `own', the identifier of the request that it has of each client.    *)
(***************************************************************************)
EXTENDS Forwarder

Stages == {"free", "incoming", "got", "reply", "handle", "begin", "wait",
           "hash", "add", "agios", "ready", "batch", "dispatch", "transfer",
           "transferred", "callback", "answer", "last"}

\* Before the client knows its identifier, after the data is there, after the
\* effect on the file, and while it is in the hash.
Arriving    == {"incoming", "got"}
Unacked     == Arriving \cup {"handle", "begin"}
Transferred == {"transferred", "callback", "answer", "last"}
Hashed      == {"add", "agios", "ready", "batch", "dispatch", "transfer",
                "transferred", "callback", "answer"}
Buffered    == {"hash", "last"} \cup Hashed
Delegated   == Buffered \cup {"handle", "begin", "wait"}

\* The stages after the identifiers X went on to the stage `to'.
Move(stage, X, to) == [id \in Ids |-> IF id \in X THEN to ELSE stage[id]]

----------------------------------------------------------------------------
(* The threads and the queues: each identifier is held once, by the thread  *)
(* or queue its stage says.                                                 *)

QueueHolds(q, s, stage) ==
    IsInjective(q) /\ Range(q) = {id \in Ids : stage[id] = s}

HandlersHold(stage) ==
    /\ \A h \in Handlers : handler[h].at # "idle" =>
          stage[handler[h].id] = handler[h].at
    /\ \A g, h \in Handlers :
          handler[g].at # "idle" /\ handler[h].at # "idle"
          /\ handler[g].id = handler[h].id => g = h
    /\ \A id \in Ids : stage[id] \in {"got", "reply"} =>
          \E h \in Handlers : handler[h].at # "idle" /\ handler[h].id = id

\* A batch is for one operation on one handle and fits its array; a job that
\* is no batch is for one request, of the kind its name says.
Handles == {"handle_read", "handle_write"}
IsBatch(ids) ==
    /\ IsInjective(ids) /\ Len(ids) <= MAX_BATCH_SIZE
    /\ \A j, k \in DOMAIN ids : Same(ids[j], ids[k])
HandleOf(id) == IF fr[id].operation = "write" THEN "handle_write" ELSE "handle_read"
IsJob(fn, ids) == /\ IsBatch(ids)
                  /\ fn \in Handles => Len(ids) = 1 /\ fn = HandleOf(ids[1])

JobStage(fn) == CASE fn = "dispatch_operation" -> "dispatch"
                  [] fn = "callback" -> "callback"
                  [] OTHER -> "handle"
JobsHold(stage) ==
    /\ \A j \in DOMAIN jobs :
          /\ IsJob(jobs[j].fn, jobs[j].ids)
          /\ \A k \in DOMAIN jobs[j].ids :
                stage[jobs[j].ids[k]] = JobStage(jobs[j].fn)
    /\ \A i, j \in DOMAIN jobs :
          \A k \in DOMAIN jobs[i].ids, l \in DOMAIN jobs[j].ids :
             jobs[i].ids[k] = jobs[j].ids[l] => i = j
    /\ \A id \in Ids : stage[id] \in {"handle", "dispatch", "callback"} =>
          \E j \in DOMAIN jobs : \E k \in DOMAIN jobs[j].ids : jobs[j].ids[k] = id

\* Where a pool thread can be, and how far it is with the k-th of its requests.
PoolPoint(w) ==
    CASE w.fn = "dispatch_operation" ->
            /\ w.at \in {"begin", "io"} /\ w.k <= Len(w.ids) + 1
            /\ FileSystem = "pvfs" /\ w.at = "begin" => w.k = 1
      [] w.fn = "callback" -> w.at \in {"begin", "reply"}
      [] OTHER -> /\ w.at \in {"begin", "wait", "hash", "agios"} /\ w.k = 1
                  /\ w.at = "wait" => w.fn = "handle_write"
PoolStage(w, k) ==
    CASE w.fn = "dispatch_operation" -> IF k < w.k THEN "transferred" ELSE "transfer"
      [] w.fn = "callback" -> IF k = w.k /\ w.at = "reply" THEN "last" ELSE "answer"
      [] OTHER -> IF w.at = "agios" THEN "add" ELSE w.at
PoolStages == {"begin", "wait", "hash", "add", "transfer", "transferred",
               "answer", "last"}
\* The requests it has not answered.
Unanswered(w) == {k \in DOMAIN w.ids : w.fn = "callback" => w.k <= k}
PoolHold(stage) ==
    /\ \A t \in PoolThreads : pool[t].at # "idle" =>
          /\ PoolPoint(pool[t])
          /\ pool[t].fn # "callback" => IsJob(pool[t].fn, pool[t].ids)
          /\ IsInjective(pool[t].ids) /\ Len(pool[t].ids) <= MAX_BATCH_SIZE
          /\ \A k \in Unanswered(pool[t]) :
                stage[pool[t].ids[k]] = PoolStage(pool[t], k)
    /\ \A t, u \in PoolThreads :
          \A k \in Unanswered(pool[t]), l \in Unanswered(pool[u]) :
             pool[t].ids[k] = pool[u].ids[l] => t = u
    /\ \A id \in Ids : stage[id] \in PoolStages =>
          \E t \in PoolThreads : \E k \in Unanswered(pool[t]) : pool[t].ids[k] = id

DispatcherHolds(stage) ==
    /\ QueueHolds(dispatcher.ids, "batch", stage)
    /\ IsBatch(dispatcher.ids)
    /\ dispatcher.at \in {"find", "batch"} => Len(dispatcher.ids) = 1

StageInv(stage) ==
    /\ QueueHolds(incoming_queue, "incoming", stage)
    /\ HandlersHold(stage)
    /\ JobsHold(stage)
    /\ PoolHold(stage)
    /\ agios = {id \in Ids : stage[id] = "agios"}
    /\ QueueHolds(ready_queue, "ready", stage)
    /\ DispatcherHolds(stage)
    /\ requests = {id \in Ids : stage[id] \in Hashed}

----------------------------------------------------------------------------
(* The requests and the clients: what a client waits for, and what the      *)
(* server has of it.                                                        *)

Mail(c) == {m \in dataMsgs : m.rank = c}

\* What client c asks for, and whether r is the request that it asked.
AsksFor(c) ==
    CASE pc[c] = "handle"  -> [operation |-> "open", file |-> FileOf(Layout, c),
                               file_handle |-> NoFd, offset |-> 0]
      [] pc[c] = "closing" -> [operation |-> "close", file |-> FileOf(Layout, c),
                               file_handle |-> NoFd, offset |-> 0]
      [] pc[c] = "done"    -> [operation |-> "empty", file |-> Nobody,
                               file_handle |-> NoFd, offset |-> 0]
      [] OTHER             -> [operation |-> phase[c], file |-> Nobody,
                               file_handle |-> fh[c], offset |-> BlockOf(c, iter[c])]
IsRequestOf(r, c) ==
    /\ r.rank = c
    /\ r.operation = AsksFor(c).operation /\ r.file = AsksFor(c).file
    /\ r.file_handle = AsksFor(c).file_handle /\ r.offset = AsksFor(c).offset

\* What a request at the stage s can be, and whose it is.
RequestAt(r, s) ==
    /\ r.operation \in Operations
    /\ s = "reply" => r.operation \in {"open", "close"}
    /\ s \in Delegated => r.operation \in {"read", "write"}
    /\ s = "wait" => r.operation = "write"
OwnInv(stage, own) ==
    \A id \in Ids :
       /\ stage[id] = "free" <=> fr[id] = NoRequest
       /\ stage[id] # "free" => RequestAt(fr[id], stage[id]) /\ own[fr[id].rank] = id

Quiet(c, own) == /\ requestMsgs[c] = <<>> /\ handleMsgs[c] = <<>>
                 /\ ackMsgs[c] = <<>> /\ Mail(c) = {} /\ own[c] = NoId
Asking(c, own) == /\ pc[c] \in {"handle", "id", "closing", "done"}
                  /\ requestMsgs[c] = <<AsksFor(c)>> /\ handleMsgs[c] = <<>>
                  /\ ackMsgs[c] = <<>> /\ Mail(c) = {} /\ own[c] = NoId

\* The server has the request: before and after it has told the identifier,
\* before and after it has the data of a write.
ServedAs(c, s, id) ==
    \/ /\ pc[c] \in {"handle", "closing"} /\ s \in Arriving \cup {"reply"}
       /\ ackMsgs[c] = <<>> /\ Mail(c) = {}
    \/ pc[c] = "id" /\ s \in Unacked /\ ackMsgs[c] = <<>> /\ Mail(c) = {}
    \/ /\ pc[c] = "id" /\ ackMsgs[c] = <<id>> /\ Mail(c) = {}
       /\ IF phase[c] = "write" THEN s = "wait" ELSE s \in Buffered
    \/ /\ pc[c] = "ack" /\ phase[c] = "write" /\ s = "wait" /\ ackMsgs[c] = <<>>
       /\ Mail(c) = {[to |-> "server", rank |-> c, tag |-> id, data |-> c]}
    \/ /\ pc[c] = "ack" /\ phase[c] = "write" /\ s \in Buffered
       /\ ackMsgs[c] = <<>> /\ Mail(c) = {} /\ fr[id].buffer = c
    \/ /\ pc[c] = "data" /\ phase[c] = "read" /\ s \in Buffered
       /\ ackMsgs[c] = <<>> /\ Mail(c) = {} /\ request_id[c] = id
Served(c, stage, own) ==
    /\ own[c] \in Ids /\ stage[own[c]] # "free" /\ IsRequestOf(fr[own[c]], c)
    /\ requestMsgs[c] = <<>> /\ handleMsgs[c] = <<>>
    /\ ServedAs(c, stage[own[c]], own[c])

HasAnswer(c, own) ==
    /\ own[c] = NoId /\ requestMsgs[c] = <<>>
    /\ \/ /\ pc[c] = "handle" /\ Len(handleMsgs[c]) = 1 /\ ackMsgs[c] = <<>>
          /\ Mail(c) = {}
       \/ /\ pc[c] = "closing" \/ (pc[c] = "ack" /\ phase[c] = "write")
          /\ handleMsgs[c] = <<>> /\ Len(ackMsgs[c]) = 1 /\ Mail(c) = {}
       \/ /\ pc[c] \in {"id", "data"} /\ phase[c] = "read" /\ handleMsgs[c] = <<>>
          /\ \E m \in [to : {"client"}, rank : {c}, tag : Ids, data : Bytes] :
                /\ Mail(c) = {m}
                /\ IF pc[c] = "id" THEN ackMsgs[c] = <<m.tag>>
                   ELSE ackMsgs[c] = <<>> /\ request_id[c] = m.tag

\* The client gave up, for its bytes are not what it wrote.
GaveUp(c, own) == /\ aborted = "ERROR_VALIDATION_FAILED" /\ pc[c] = "data"
                  /\ Quiet(c, own)

Idle == {"open", "opened", "issue", "drained", "closed", "shutdown", "done"}
ClientOK(c, stage, own) ==
    \/ pc[c] \in Idle /\ Quiet(c, own)
    \/ Asking(c, own)
    \/ Served(c, stage, own)
    \/ HasAnswer(c, own)
    \/ GaveUp(c, own)
ClientInv(stage, own) == \A c \in Clients : ClientOK(c, stage, own)

----------------------------------------------------------------------------
(* The barriers, and how often an identifier can be given out while a       *)
(* request waits.                                                           *)

Inside == {"opened", "issue", "id", "ack", "data"}
BarriersIn(c) ==
    LET base == IF phase[c] = "read" /\ "write" \in Phases THEN 3 ELSE 0
    IN  CASE pc[c] \in {"open", "handle"}       -> base
          [] pc[c] \in Inside                   -> base + 1
          [] pc[c] \in {"drained", "closing"}   -> base + 2
          [] pc[c] = "closed"                   -> base + 3
          [] OTHER -> IF Phases = {"write", "read"} THEN 6 ELSE 3
\* The barriers that all clients have entered when client c is where it is.
Passed(c) == IF pc[c] \in {"opened", "drained", "closed"} THEN barrier[c] - 1 ELSE barrier[c]
BarrierInv ==
    \A c \in Clients :
       /\ barrier[c] = BarriersIn(c)
       /\ \A d \in Clients : barrier[d] >= Passed(c)
       /\ pc[c] \notin {"shutdown", "done"} => phase[c] \in Phases

\* How many requests of client d the listener took since d passed its barrier.
Taken(d) ==
    LET one == IF requestMsgs[d] = <<>> THEN 1 ELSE 0
    IN  CASE pc[d] \in {"handle", "closing"} -> one
          [] pc[d] = "issue" -> iter[d]
          [] pc[d] = "id" -> iter[d] + one
          [] pc[d] \in {"ack", "data"} -> iter[d] + 1
          [] OTHER -> 0
\* The most requests of a client between two barriers.
MostTaken == IF NRequests = 0 THEN 1 ELSE NRequests
Overtaking(c) ==
    {p \in (Clients \ {c}) \X (0..(MostTaken - 1)) :
        barrier[p[1]] > barrier[c] \/ p[2] < Taken(p[1])}
\* How many identifiers were given out after id.
NIds == LastId - FirstId + 1
Age(id) == IF id <= global_id THEN global_id - id ELSE global_id - id + NIds
Tagged(c, id, own) == own[c] = id \/ \E m \in dataMsgs : m.rank = c /\ m.tag = id
AgeInv(own) ==
    \A c \in Clients, id \in Ids :
       Tagged(c, id, own) => Age(id) <= Cardinality(Overtaking(c))

\* Identifiers suffice if no client's request can wait while the others have
\* so many taken that the listener comes round to its identifier.  The program
\* has 8,000,001 (generate_identifier).
IdsSuffice == (NClients - 1) * MostTaken < NIds

----------------------------------------------------------------------------
(* The files. *)

\* From when the server opened the file for a client until it closes it.
Open(c, stage, own) ==
    LET inServer == own[c] # NoId /\ stage[own[c]] # "reply"
    IN  \/ pc[c] = "handle" /\ requestMsgs[c] = <<>> /\ ~inServer
        \/ pc[c] \in Inside \cup {"drained"}
        \/ pc[c] = "closing" /\ (requestMsgs[c] # <<>> \/ inServer)
Openers(f, stage, own) ==
    {c \in Clients : FileOf(Layout, c) = f /\ Open(c, stage, own)}

OpenFiles == {f \in Files : opened_files[f].references # 0}
FdAge(d) == IF d <= pvfs_fh_id THEN pvfs_fh_id - d
            ELSE pvfs_fh_id - d + (LastFd - FirstFd + 1)
\* Files are being opened, and none is closed.
Opening == \E c \in Clients : /\ pc[c] \in {"open", "handle", "closed"}
                              /\ \A d \in Clients : barrier[d] >= barrier[c]
FilesCounted(stage, own) ==
    \A f \in Files : opened_files[f].references = Cardinality(Openers(f, stage, own))
Descriptors ==
    /\ \A f \in Files : IF f \in OpenFiles THEN opened_files[f].fh \in Fds
                        ELSE opened_files[f] = NotOpened
    /\ \A f, g \in OpenFiles : opened_files[f].fh = opened_files[g].fh => f = g
HandleKnown(c) ==
    /\ pc[c] \in Inside \cup {"drained"} => fh[c] = opened_files[FileOf(Layout, c)].fh
    /\ handleMsgs[c] # <<>> => Head(handleMsgs[c]) = opened_files[FileOf(Layout, c)].fh
\* The PVFS build gives out handles in turn: those in use are the latest ones.
LatestHandles ==
    FileSystem = "pvfs" /\ Opening =>
       \A f \in OpenFiles : FdAge(opened_files[f].fh) < Cardinality(OpenFiles)
FileInv(stage, own) ==
    /\ FilesCounted(stage, own) /\ Descriptors
    /\ \A c \in Clients : HandleKnown(c)
    /\ LatestHandles

\* What is in the files and in the buffers, and what a complete read returns.
Complete == FullTransfers /\ Phases = {"write", "read"}
Written(c, i) == disk[FileOf(Layout, c)][BlockOf(c, i)] = c
DiskInv == \A c \in Clients : \A i \in 0..(NRequests - 1) :
              disk[FileOf(Layout, c)][BlockOf(c, i)] \in {c, Nobody}
WritesDone(c, stage, own) ==
    /\ phase[c] = "write" => \A i \in 0..(iter[c] - 1) : Written(c, i)
    /\ phase[c] = "write" /\ pc[c] = "ack"
       /\ (own[c] = NoId \/ stage[own[c]] \in Transferred) => Written(c, iter[c])
    /\ Phases = {"write", "read"} /\ phase[c] = "read" =>
          \A i \in 0..(NRequests - 1) : Written(c, i)
\* Every request of a phase is issued before the next one, if there is one.
AllIssued(c) == Phases = {"write", "read"} /\ pc[c] \in {"drained", "closing", "closed"} =>
                   iter[c] = NRequests
BufferOK(c, stage, own) ==
    own[c] # NoId /\ fr[own[c]].operation = "read" =>
       /\ fr[own[c]].buffer \in {c, Nobody, FreshBuffer}
       /\ stage[own[c]] \in Buffered \ Transferred => fr[own[c]].buffer = FreshBuffer
       /\ stage[own[c]] \in Transferred /\ Complete => fr[own[c]].buffer = c
DataOK(m) == m.to = "client" => /\ m.data \in {m.rank, Nobody, FreshBuffer}
                                /\ Complete => m.data = m.rank
DataInv(stage, own) ==
    /\ DiskInv
    /\ FullTransfers => \A c \in Clients : WritesDone(c, stage, own)
    /\ \A c \in Clients : AllIssued(c) /\ BufferOK(c, stage, own)
    /\ \A m \in dataMsgs : DataOK(m)

\* The end of the run: the listener has counted the clients that are done and
\* whose last message it has taken.
Gone == {c \in Clients : pc[c] = "done" /\ requestMsgs[c] = <<>>}
ShutdownInv ==
    /\ shutdown = Cardinality(Gone)
    /\ shutdown_control => shutdown = NClients

\* All of it, for given histories; and that there are such histories.
SafetyInv(stage, own) ==
    /\ StageInv(stage) /\ OwnInv(stage, own) /\ ClientInv(stage, own)
    /\ BarrierInv /\ AgeInv(own)
    /\ FileInv(stage, own) /\ DataInv(stage, own)
    /\ ShutdownInv
    /\ aborted \in {"no", "ERROR_VALIDATION_FAILED"}
IInv == \E stage \in [Ids -> Stages], own \in [Clients -> Ids \cup {NoId}] :
           SafetyInv(stage, own)
=============================================================================
