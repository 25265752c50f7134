--------------------------- MODULE ForwarderSafety --------------------------
(*****************************************************************************)
(* What is proved of Forwarder, for every size of a run: the part of the     *)
(* inductive invariant that says what is in the files and the buffers, that  *)
(* every step keeps all of it, the safety properties that follow from it,    *)
(* that Forwarder implements FileService, that the server and its clients    *)
(* never wait for each other, and that they cannot go on for ever.           *)
(*****************************************************************************)
EXTENDS ForwarderProofs

-----------------------------------------------------------------------------
(* The data. *)

\* No two clients write the same block of a file.
LEMMA BlocksHaveOwners ==
    ASSUME NEW c \in Clients, NEW d \in Clients,
           NEW i \in 0..(NRequests - 1), NEW j \in 0..(NRequests - 1),
           FileOf(Layout, c) = FileOf(Layout, d), BlockOf(c, i) = BlockOf(d, j)
    PROVE  c = d
<1>1. CASE Layout = "individual"
  BY <1>1 DEF FileOf
<1>2. CASE Layout = "shared"
  <2>1. SUFFICES ASSUME c # d PROVE FALSE
    OBVIOUS
  <2>2. /\ BlockOf(c, i) = Offset("shared", Spatiality, i, NRequests, NClients, c, 1)
        /\ BlockOf(d, j) = Offset("shared", Spatiality, j, NRequests, NClients, d, 1)
    BY <1>2 DEF BlockOf
  <2>3. <<i, c>> # <<j, d>>
    BY <2>1
  <2>4. c \in 0..(NClients - 1) /\ d \in 0..(NClients - 1) /\ NClients \in Nat /\ NRequests \in Nat
        /\ Spatiality \in Spatialities /\ 1 \in Nat
    BY SizesAssumption, LayoutAssumption DEF Clients
  <2>5. BlockOf(c, i) + 1 <= BlockOf(d, j) \/ BlockOf(d, j) + 1 <= BlockOf(c, i)
    BY <2>2, <2>3, <2>4, SharedRequestsDisjoint
  <2>6. BlockOf(c, i) \in Nat
    BY <2>2, <2>4, SharedRequestsInFile
  <2>. QED  BY <2>5, <2>6
<1>. QED  BY <1>1, <1>2, LayoutAssumption DEF Layouts

\* A read or write in the server carries the handle under which the file of
\* its client is open, and the block that the client is at.
Transfers(id, c) ==
    /\ c \in Clients /\ FileOf(Layout, c) \in OpenFiles
    /\ opened_files[FileOf(Layout, c)].fh = fr[id].file_handle
    /\ FilesOf(fr[id].file_handle) = {FileOf(Layout, c)}
    /\ phase[c] = fr[id].operation /\ iter[c] \in 0..(NRequests - 1)
    /\ fr[id].offset = BlockOf(c, iter[c]) /\ fr[id].offset \in Blocks

\* A read or write reaches the file through a handle that is open.
LEMMA HandleIsOpen ==
    ASSUME TypeOK, NEW stage, NEW own, OwnInv(stage, own), ClientInv(stage, own), FileInv(stage, own),
           NEW id \in Ids, stage[id] # "free", fr[id].operation \in {"read", "write"},
           NEW c, c = fr[id].rank
    PROVE  Transfers(id, c)
<1>1. /\ c \in Clients /\ own[c] = id /\ Served(c, stage, own) /\ IsRequestOf(fr[id], c)
  BY RequestOf
<1>2. /\ fr[id].operation = AsksFor(c).operation /\ fr[id].file_handle = AsksFor(c).file_handle
      /\ fr[id].offset = AsksFor(c).offset
  BY <1>1 DEF IsRequestOf
<1>3. pc[c] \in {"id", "ack", "data"}
  <2>1. pc[c] \in {"handle", "closing", "id", "ack", "data"}
    BY <1>1 DEF Served, ServedAs
  <2>. QED  BY <1>2, <2>1 DEF AsksFor
<1>4. /\ phase[c] = fr[id].operation /\ fr[id].file_handle = fh[c]
      /\ fr[id].offset = BlockOf(c, iter[c])
  BY <1>2, <1>3 DEF AsksFor
<1>5. iter[c] \in 0..(NRequests - 1) /\ fr[id].offset \in Blocks
  <2>1. iter[c] \in 0..NRequests /\ iter[c] < NRequests
    BY <1>1, <1>3 DEF TypeOK, ClientTypes
  <2>. QED  BY <1>1, <1>4, <2>1, BlockType, SizesAssumption
<1>6. PICK f : f = FileOf(Layout, c)
  OBVIOUS
<1>7. f \in Files
  BY <1>1, <1>6, FileType
<1>8. fh[c] = opened_files[f].fh
  BY <1>1, <1>3, <1>6 DEF FileInv, HandleKnown, Inside
<1>9. f \in OpenFiles
  <2>1. c \in Openers(f, stage, own)
    BY <1>1, <1>3, <1>6 DEF Openers, Open, Inside
  <2>2. opened_files[f].references # 0
    <3>1. PICK S : S = Openers(f, stage, own)
      OBVIOUS
    <3>2. IsFiniteSet(S) /\ S # {}
      BY <2>1, <3>1, OpenersFinite
    <3>3. Cardinality(S) # 0
      BY <3>2, FS_EmptySet
    <3>. QED  BY <1>7, <3>1, <3>3 DEF FileInv, FilesCounted
  <2>. QED  BY <1>7, <2>2 DEF OpenFiles
<1>10. opened_files[f].fh \in Fds
  BY <1>7, <1>9 DEF FileInv, Descriptors
<1>11. ASSUME NEW g \in Files, opened_files[g].fh = opened_files[f].fh PROVE g = f
  <2>1. g \in OpenFiles
    BY <1>10, <1>11, MarkersApart DEF FileInv, Descriptors, NotOpened
  <2>. QED  BY <1>9, <1>11, <2>1 DEF FileInv, Descriptors
<1>12. FilesOf(fr[id].file_handle) = {f}
  BY <1>4, <1>7, <1>8, <1>11 DEF FilesOf
<1>. QED  BY <1>1, <1>4, <1>5, <1>6, <1>8, <1>9, <1>12 DEF Transfers

\* When a client goes on.
LEMMA WritesOfActing ==
    ASSUME TypeOK, Running, NEW stage, NEW own, NEW c \in Clients, ClientOK(c, stage, own), Client(c),
           WritesDone(c, stage, own), AllIssued(c)
    PROVE  WritesDone(c, stage, own)'
<1>0. /\ UNCHANGED disk /\ iter[c] \in 0..NRequests /\ NRequests \in Nat
      /\ phase \in [Clients -> {"write", "read"}]
      /\ pc \in [Clients -> {"open", "handle", "opened", "issue", "id", "ack", "data", "drained",
                             "closing", "closed", "shutdown", "done"}]
      /\ iter \in [Clients -> 0..NRequests]
  BY ClientLeaves, SizesAssumption DEF serverVars, TypeOK, ClientTypes
<1>1. \A i : Written(c, i)' <=> Written(c, i)
  BY <1>0 DEF Written
<1>2. CASE ClientOpen(c) \/ ClientHandle(c) \/ ClientIssue(c) \/ ClientReadId(c) \/ ClientLoopEnd(c)
           \/ ClientClose(c) \/ ClientClosed(c) \/ ClientShutdown(c)
  <2>1. phase' = phase /\ iter' = iter /\ pc'[c] # "ack"
    BY <1>0, <1>2
    DEF ClientOpen, ClientHandle, ClientIssue, ClientReadId, ClientLoopEnd, ClientClose,
        ClientClosed, ClientShutdown, Request
  <2>. QED  BY <1>1, <2>1 DEF WritesDone
<1>3. CASE ClientStart(c)
  <2>1. phase' = phase /\ iter'[c] = 0 /\ pc'[c] # "ack"
    BY <1>0, <1>3 DEF ClientStart
  <2>2. 0..(0 - 1) = {}
    OBVIOUS
  <2>. QED  BY <1>1, <2>1, <2>2 DEF WritesDone
<1>4. CASE ClientSendData(c)
  <2>1. pc[c] = "id" /\ phase[c] = "write" /\ ackMsgs[c] # <<>> /\ phase' = phase /\ iter' = iter
    BY <1>4 DEF ClientSendData
  <2>2. Served(c, stage, own) /\ ServedAs(c, stage[own[c]], own[c])
    BY <2>1 DEF ClientOK, Quiet, Asking, HasAnswer, GaveUp, Idle, Served
  <2>3. own[c] # NoId /\ stage[own[c]] = "wait"
    BY <2>1, <2>2, MarkersApart DEF ServedAs, Served
  <2>. QED  BY <1>1, <2>1, <2>3 DEF WritesDone, Transferred
<1>5. CASE ClientWriteDone(c)
  <2>1. /\ pc[c] = "ack" /\ ackMsgs[c] # <<>> /\ phase' = phase /\ NextIteration(c)
    BY <1>5 DEF ClientWriteDone
  <2>2. HasAnswer(c, own)
    BY <2>1 DEF ClientOK, Quiet, Asking, Served, ServedAs, GaveUp, Idle
  <2>3. phase[c] = "write" /\ own[c] = NoId
    BY <2>1, <2>2 DEF HasAnswer
  <2>4. Written(c, iter[c]) /\ \A i \in 0..(iter[c] - 1) : Written(c, i)
    BY <2>1, <2>3 DEF WritesDone
  <2>5. pc'[c] # "ack" /\ iter'[c] \in {iter[c], iter[c] + 1}
    BY <1>0, <2>1 DEF NextIteration
  <2>6. \A i \in 0..(iter'[c] - 1) : Written(c, i)
    <3>1. \A i \in 0..(iter'[c] - 1) : i = iter[c] \/ i \in 0..(iter[c] - 1)
      BY <1>0, <2>5
    <3>. QED  BY <2>4, <3>1
  <2>. QED  BY <1>1, <2>1, <2>3, <2>5, <2>6 DEF WritesDone
<1>6. CASE ClientReadDone(c)
  <2>1. phase' = phase /\ pc[c] = "data" /\ pc'[c] # "ack"
    BY <1>0, <1>6 DEF ClientReadDone, NextIteration
  <2>2. phase[c] = "read"
    BY <2>1 DEF ClientOK, Asking, Served, ServedAs, HasAnswer, GaveUp, Idle, Running
  <2>. QED  BY <1>1, <2>1, <2>2 DEF WritesDone
<1>7. CASE ClientNext(c)
  <2>1. /\ phase' = [phase EXCEPT ![c] = "read"] /\ iter' = iter /\ pc'[c] # "ack" /\ pc[c] = "closed"
    BY <1>0, <1>7 DEF ClientNext, Follows
  <2>2. phase'[c] = "read"
    BY <1>0, <2>1
  <2>3. ASSUME Phases = {"write", "read"}, NEW i \in 0..(NRequests - 1) PROVE Written(c, i)
    <3>1. CASE phase[c] = "read"
      BY <2>3, <3>1 DEF WritesDone
    <3>2. CASE phase[c] = "write"
      <4>1. iter[c] = NRequests
        BY <2>1, <2>3 DEF AllIssued
      <4>. QED  BY <2>3, <3>2, <4>1 DEF WritesDone
    <3>. QED  BY <1>0, <3>1, <3>2
  <2>. QED  BY <1>1, <2>1, <2>2, <2>3 DEF WritesDone
<1>. QED  BY <1>2, <1>3, <1>4, <1>5, <1>6, <1>7 DEF Client

\* A client that takes a step has issued the requests it has counted.
LEMMA IssuedOfActing ==
    ASSUME TypeOK, NEW c \in Clients, Client(c), AllIssued(c) PROVE AllIssued(c)'
<1>0. /\ iter[c] \in 0..NRequests /\ NRequests \in Nat /\ iter \in [Clients -> 0..NRequests]
      /\ pc \in [Clients -> {"open", "handle", "opened", "issue", "id", "ack", "data", "drained",
                             "closing", "closed", "shutdown", "done"}]
  BY SizesAssumption DEF TypeOK, ClientTypes
<1>1. SUFFICES ASSUME Phases = {"write", "read"}, pc'[c] \in {"drained", "closing", "closed"}
               PROVE  iter'[c] = NRequests
  BY DEF AllIssued
<1>2. ~StoneWall
  BY <1>1, LayoutAssumption
<1>3. CASE ClientLoopEnd(c)
  BY <1>0, <1>3 DEF ClientLoopEnd
<1>4. CASE ClientClose(c) \/ ClientClosed(c)
  BY <1>0, <1>1, <1>4 DEF ClientClose, ClientClosed, AllIssued
<1>5. ~NextIteration(c)
  BY <1>0, <1>1, <1>2 DEF NextIteration
<1>6. CASE ~(ClientLoopEnd(c) \/ ClientClose(c) \/ ClientClosed(c))
  <2>1. CASE ClientReadDone(c)
    <3>1. UNCHANGED pc /\ pc[c] = "data"
      BY <1>5, <2>1 DEF ClientReadDone
    <3>. QED  BY <1>1, <3>1
  <2>2. CASE ~ClientReadDone(c)
    BY <1>0, <1>1, <1>5, <1>6, <2>2
    DEF Client, ClientOpen, ClientHandle, ClientStart, ClientIssue, ClientSendData, ClientReadId,
        ClientWriteDone, ClientNext, ClientShutdown, Request, Follows
  <2>. QED  BY <2>1, <2>2
<1>. QED  BY <1>3, <1>4, <1>6

\* The steps of a client keep the bytes where they belong.
LEMMA ClientData ==
    ASSUME TypeOK, Running, NEW stage, NEW own, ClientInv(stage, own), DataInv(stage, own),
           NEW c \in Clients, Client(c)
    PROVE  DataInv(stage, own)'
<1>0. UNCHANGED <<fr, disk>>
  BY ClientLeaves DEF serverVars
<1>1. DiskInv'
  BY <1>0 DEF DataInv, DiskInv
<1>2. ASSUME NEW d \in Clients
      PROVE  /\ FullTransfers => WritesDone(d, stage, own)'
             /\ AllIssued(d)' /\ BufferOK(d, stage, own)'
  <2>0. /\ FullTransfers => WritesDone(d, stage, own)
        /\ AllIssued(d) /\ BufferOK(d, stage, own) /\ ClientOK(d, stage, own)
    BY DEF DataInv, ClientInv
  <2>1. BufferOK(d, stage, own)'
    BY <1>0, <2>0 DEF BufferOK
  <2>2. CASE d = c
    BY <2>0, <2>1, <2>2, WritesOfActing, IssuedOfActing
  <2>3. CASE d # c
    <3>1. pc'[d] = pc[d] /\ phase'[d] = phase[d] /\ iter'[d] = iter[d]
      BY <2>3, ClientMovesOne
    <3>. QED  BY <1>0, <2>0, <2>1, <3>1 DEF WritesDone, AllIssued, Written
  <2>. QED  BY <2>2, <2>3
<1>3. ASSUME NEW m \in dataMsgs' PROVE DataOK(m)
  <2>1. m \in dataMsgs \/ m.to = "server"
    BY DEF Client, ClientOpen, ClientHandle, ClientStart, ClientIssue, ClientSendData, ClientReadId,
           ClientWriteDone, ClientReadDone, ClientLoopEnd, ClientClose, ClientClosed, ClientNext,
           ClientShutdown, netVars
  <2>. QED  BY <2>1 DEF DataInv, DataOK
<1>. QED  BY <1>1, <1>2, <1>3 DEF DataInv, DataOK

-----------------------------------------------------------------------------
(* The data, when the server goes on. *)

\* Whether the write that client d waits for had its effect.
HadEffect(d, stage, own) == own[d] = NoId \/ stage[own[d]] \in Transferred
DataFrame(stage, own, next, nown) ==
    /\ \A d \in Clients : pc[d] = "ack" /\ HadEffect(d, next, nown) => HadEffect(d, stage, own)
    /\ \A d \in Clients : BufferOK(d, next, nown)'
    /\ \A m \in dataMsgs' : m \in dataMsgs \/ DataOK(m)

\* The invariant of the data is kept if each buffer and message has the right
\* bytes.
LEMMA DataGoesOn ==
    ASSUME NEW stage, NEW own, NEW next, NEW nown, UNCHANGED <<clientVars, disk>>,
           DataInv(stage, own), DataFrame(stage, own, next, nown)
    PROVE  DataInv(next, nown)'
<1>0. UNCHANGED <<pc, phase, iter, disk>>
  BY DEF clientVars
<1>1. DiskInv'
  BY <1>0 DEF DiskInv, DataInv
<1>2. \A c, i : Written(c, i)' <=> Written(c, i)
  BY <1>0 DEF Written
<1>3. ASSUME FullTransfers, NEW c \in Clients PROVE WritesDone(c, next, nown)'
  <2>1. WritesDone(c, stage, own)
    BY <1>3 DEF DataInv
  <2>2. pc[c] = "ack" /\ HadEffect(c, next, nown) => HadEffect(c, stage, own)
    BY DEF DataFrame
  <2>. QED  BY <1>0, <1>2, <2>1, <2>2 DEF WritesDone, HadEffect
<1>4. ASSUME NEW c \in Clients PROVE AllIssued(c)' /\ BufferOK(c, next, nown)'
  BY <1>0 DEF AllIssued, DataInv, DataFrame
<1>5. \A m \in dataMsgs' : DataOK(m)'
  BY DEF DataOK, DataInv, DataFrame
<1>. QED  BY <1>1, <1>3, <1>4, <1>5 DEF DataInv

\* The other clients, when the request id of c goes on.
LEMMA OthersKeepData ==
    ASSUME NEW stage, NEW own, NEW next, NEW nown, ClientInv(stage, own), DataInv(stage, own),
           NEW c, NEW id, stage[id] = "free" \/ fr[id].rank = c,
           OtherStages(stage, next, id), OtherOwners(own, nown, c), OtherRequests(id),
           NEW d \in Clients, d # c
    PROVE  /\ HadEffect(d, next, nown) => HadEffect(d, stage, own)
           /\ BufferOK(d, next, nown)'
<1>0. nown[d] = own[d] /\ BufferOK(d, stage, own)
  BY DEF OtherOwners, DataInv
<1>1. CASE own[d] = NoId
  BY <1>0, <1>1 DEF HadEffect, BufferOK
<1>2. CASE own[d] # NoId
  <2>1. Served(d, stage, own)
    BY <1>2, ServedClient DEF ClientInv
  <2>2. own[d] # id /\ own[d] \in Ids
    BY <2>1 DEF Served, IsRequestOf
  <2>3. next[own[d]] = stage[own[d]] /\ fr'[own[d]] = fr[own[d]]
    BY <2>2 DEF OtherStages, OtherRequests
  <2>. QED  BY <1>0, <2>3 DEF HadEffect, BufferOK
<1>. QED  BY <1>1, <1>2

\* A step that concerns the request id of c.
LEMMA OneRequestData ==
    ASSUME NEW stage, NEW own, NEW next, NEW nown, ClientInv(stage, own), DataInv(stage, own),
           UNCHANGED <<clientVars, disk>>,
           NEW c, NEW id, stage[id] = "free" \/ fr[id].rank = c,
           OtherStages(stage, next, id), OtherOwners(own, nown, c), OtherRequests(id),
           pc[c] = "ack" /\ HadEffect(c, next, nown) => HadEffect(c, stage, own),
           BufferOK(c, next, nown)',
           \A m \in dataMsgs' : m \in dataMsgs \/ DataOK(m)
    PROVE  DataInv(next, nown)'
<1>1. ASSUME NEW d \in Clients
      PROVE  /\ pc[d] = "ack" /\ HadEffect(d, next, nown) => HadEffect(d, stage, own)
             /\ BufferOK(d, next, nown)'
  <2>1. CASE d = c
    BY <2>1
  <2>2. CASE d # c
    BY <2>2, OthersKeepData
  <2>. QED  BY <2>1, <2>2
<1>2. DataFrame(stage, own, next, nown)
  BY <1>1 DEF DataFrame
<1>. QED  BY <1>2, DataGoesOn

\* A step after which the requests are the same.
LEMMA SameRequestsData ==
    ASSUME NEW stage, NEW own, NEW next, UNCHANGED <<clientVars, disk, fr, dataMsgs>>,
           \A d \in Clients : own[d] \in Ids \cup {NoId}, DataInv(stage, own),
           \A id \in Ids : /\ stage[id] \in Transferred <=> next[id] \in Transferred
                           /\ stage[id] \in Buffered <=> next[id] \in Buffered
    PROVE  DataInv(next, own)'
<1>1. ASSUME NEW d \in Clients
      PROVE  /\ HadEffect(d, next, own) => HadEffect(d, stage, own)
             /\ BufferOK(d, next, own)'
  <2>0. BufferOK(d, stage, own) /\ own[d] \in Ids \cup {NoId}
    BY DEF DataInv
  <2>1. own[d] # NoId => /\ stage[own[d]] \in Transferred <=> next[own[d]] \in Transferred
                         /\ stage[own[d]] \in Buffered <=> next[own[d]] \in Buffered
    <3>1. PICK id : id = own[d]
      OBVIOUS
    <3>2. id # NoId => id \in Ids
      BY <2>0, <3>1
    <3>. QED  BY <3>1, <3>2
  <2>. QED  BY <2>0, <2>1 DEF HadEffect, BufferOK
<1>2. DataFrame(stage, own, next, own)
  BY <1>1 DEF DataFrame
<1>. QED  BY <1>2, DataGoesOn

\* A new request has no bytes.
LEMMA ListenerRequestData ==
    ASSUME TypeOK, NEW stage \in [Ids -> Stages], NEW own \in [Clients -> Ids \cup {NoId}],
           ClientInv(stage, own), DataInv(stage, own),
           NEW c \in Clients, ListenerRequest(c), Asking(c, own),
           NEW id \in Ids, id = global_id', stage[id] = "free",
           NEW next, next = Move(stage, {id}, "incoming"),
           NEW nown, nown = [own EXCEPT ![c] = id]
    PROVE  DataInv(next, nown)'
<1>1. /\ UNCHANGED <<clientVars, disk>> /\ UNCHANGED dataMsgs
      /\ OtherRequests(id) /\ fr'[id].buffer = Nobody
  BY DEF ListenerRequest, OtherRequests, TypeOK, FileTypes
<1>2. OtherStages(stage, next, id) /\ next[id] = "incoming" /\ OtherOwners(own, nown, c) /\ nown[c] = id
  BY DEF OtherStages, OtherOwners, Move
<1>3. pc[c] # "ack"
  BY DEF Asking
<1>4. BufferOK(c, next, nown)'
  BY <1>1, <1>2 DEF BufferOK, Transferred, Buffered, Hashed
<1>. QED  BY <1>1, <1>2, <1>3, <1>4, OneRequestData

\* The answer to an OPEN or CLOSE has no bytes.
LEMMA HandlerAnswerData ==
    ASSUME TypeOK, NEW stage \in [Ids -> Stages], NEW own \in [Clients -> Ids \cup {NoId}],
           OwnInv(stage, own), ClientInv(stage, own), DataInv(stage, own), NEW h \in Handlers,
           HandlerSendHandle(h) \/ HandlerAckClose(h), NEW id \in Ids, id = handler[h].id,
           stage[id] = "reply", NEW next, next = Move(stage, {id}, "free"),
           NEW nown, nown = [own EXCEPT ![fr[id].rank] = NoId]
    PROVE  DataInv(next, nown)'
<1>0. PICK c : c = fr[id].rank
  OBVIOUS
<1>1. /\ c \in Clients /\ Served(c, stage, own) /\ own[c] = id
  BY <1>0, RequestOf
<1>2. /\ UNCHANGED <<clientVars, disk>> /\ UNCHANGED dataMsgs /\ OtherRequests(id)
  BY DEF HandlerSendHandle, HandlerAckClose, handlerOnly, OtherRequests, TypeOK, FileTypes
<1>3. OtherStages(stage, next, id) /\ OtherOwners(own, nown, c) /\ nown[c] = NoId
  BY <1>0, <1>1 DEF OtherStages, OtherOwners, Move
<1>4. pc[c] # "ack"
  <2>1. ServedAs(c, "reply", id)
    BY <1>1 DEF Served
  <2>. QED  BY <2>1 DEF ServedAs, Buffered, Hashed
<1>5. BufferOK(c, next, nown)'
  BY <1>3 DEF BufferOK
<1>. QED  BY <1>0, <1>2, <1>3, <1>4, <1>5, OneRequestData

\* The acknowledgement of a write, and the buffer of a request, have none of
\* others.
LEMMA HandleAckData ==
    ASSUME TypeOK, NEW stage \in [Ids -> Stages], NEW own \in [Clients -> Ids \cup {NoId}],
           OwnInv(stage, own), ClientInv(stage, own), DataInv(stage, own), NEW t \in PoolThreads,
           HandleAck(t), NEW id \in Ids, id = Current(t), stage[id] = "begin",
           NEW to, to = IF fr[id].operation = "write" THEN "wait" ELSE "hash",
           NEW next, next = Move(stage, {id}, to)
    PROVE  DataInv(next, own)'
<1>0. PICK c : c = fr[id].rank
  OBVIOUS
<1>1. /\ c \in Clients /\ Served(c, stage, own) /\ own[c] = id
  BY <1>0, RequestOf
<1>2. /\ UNCHANGED <<clientVars, disk>> /\ UNCHANGED dataMsgs /\ OtherRequests(id)
      /\ fr'[id].buffer = FreshBuffer
  <2>1. /\ UNCHANGED <<clientVars, disk>> /\ UNCHANGED dataMsgs /\ OtherRequests(id)
        /\ fr' = [fr EXCEPT ![id].buffer = FreshBuffer]
    BY DEF HandleAck, poolOnly, OtherRequests, TypeOK, FileTypes
  <2>. QED  BY <2>1, RequestFields DEF TypeOK, FileTypes
<1>3. OtherStages(stage, next, id) /\ OtherOwners(own, own, c) /\ next[id] \in {"wait", "hash"}
  BY DEF OtherStages, OtherOwners, Move
<1>4. ~HadEffect(c, next, own)
  BY <1>1, <1>3, MarkersApart DEF HadEffect, Transferred
<1>5. BufferOK(c, next, own)'
  BY <1>1, <1>2, <1>3 DEF BufferOK, Transferred
<1>. QED  BY <1>0, <1>2, <1>3, <1>4, <1>5, OneRequestData

\* The data message that a write gets is the one of its client.
LEMMA HandleWriteWaitData ==
    ASSUME TypeOK, NEW stage \in [Ids -> Stages], NEW own \in [Clients -> Ids \cup {NoId}],
           OwnInv(stage, own), ClientInv(stage, own), DataInv(stage, own), NEW t \in PoolThreads,
           HandleWriteWait(t), NEW id \in Ids, id = Current(t), stage[id] = "wait",
           fr'[id].operation = "write", NEW next, next = Move(stage, {id}, "hash")
    PROVE  DataInv(next, own)'
<1>0. PICK c : c = fr[id].rank
  OBVIOUS
<1>1. /\ c \in Clients /\ Served(c, stage, own) /\ own[c] = id
  BY <1>0, RequestOf
<1>2. /\ UNCHANGED <<clientVars, disk>> /\ OtherRequests(id) /\ \A m \in dataMsgs' : m \in dataMsgs
  BY DEF HandleWriteWait, poolOnly, OtherRequests, TypeOK, FileTypes
<1>3. OtherStages(stage, next, id) /\ OtherOwners(own, own, c) /\ next[id] = "hash"
  BY DEF OtherStages, OtherOwners, Move
<1>4. ~HadEffect(c, next, own)
  BY <1>1, <1>3, MarkersApart DEF HadEffect, Transferred
<1>5. BufferOK(c, next, own)'
  BY <1>1 DEF BufferOK
<1>. QED  BY <1>0, <1>2, <1>3, <1>4, <1>5, OneRequestData

\* A request that is transferred: its client waits for the end of it.
LEMMA TransferClient ==
    ASSUME TypeOK, NEW stage, NEW own, OwnInv(stage, own), ClientInv(stage, own),
           NEW id \in Ids, stage[id] = "transfer", NEW c, c = fr[id].rank
    PROVE  /\ fr[id].operation \in {"read", "write"}
           /\ c \in Clients /\ own[c] = id
           /\ fr[id].operation = "write" => fr[id].buffer = c
           /\ fr[id].operation = "read" => pc[c] # "ack"
<1>1. /\ c \in Clients /\ own[c] = id /\ Served(c, stage, own) /\ RequestAt(fr[id], "transfer")
      /\ IsRequestOf(fr[id], c)
  BY RequestOf
<1>2. fr[id].operation \in {"read", "write"}
  BY <1>1 DEF RequestAt, Delegated, Buffered, Hashed
<1>3. ServedAs(c, "transfer", id)
  BY <1>1 DEF Served
<1>4. fr[id].operation = phase[c] /\ pc[c] \in {"id", "ack", "data"}
  <2>1. pc[c] \in {"id", "ack", "data"}
    BY <1>3 DEF ServedAs, Arriving, Unacked
  <2>. QED  BY <1>1, <2>1 DEF IsRequestOf, AsksFor
<1>5. fr[id].operation = "write" => fr[id].buffer = c
  BY <1>3, <1>4 DEF ServedAs, Arriving, Unacked
<1>6. fr[id].operation = "read" => pc[c] # "ack"
  BY <1>3, <1>4 DEF ServedAs
<1>. QED  BY <1>1, <1>2, <1>5, <1>6

\* What a write leaves in the files: its bytes in its block, or nothing new.
LEMMA WriteLeaves ==
    ASSUME TypeOK, NEW stage, NEW own, OwnInv(stage, own), ClientInv(stage, own), FileInv(stage, own),
           NEW t \in PoolThreads, DispatchWrite(t), NEW id \in Ids, id = Current(t),
           stage[id] = "transfer", NEW c, c = fr[id].rank, NEW f, f = FileOf(Layout, c)
    PROVE  \E moved \in {TRUE, FullTransfers} :
              disk' = [g \in Files |-> IF moved /\ g = f THEN [disk[g] EXCEPT ![fr[id].offset] = c]
                                       ELSE disk[g]]
<1>1. fr[id].operation = "write"
  BY DEF DispatchWrite
<1>2. fr[id].buffer = c
  BY <1>1, TransferClient
<1>3. FilesOf(fr[id].file_handle) = {f}
  BY <1>1, HandleIsOpen DEF Transfers
<1>4. PICK moved \in {TRUE, FullTransfers} :
         disk' = [g \in Files |-> IF moved /\ g \in FilesOf(fr[id].file_handle)
                                  THEN [disk[g] EXCEPT ![fr[id].offset] = fr[id].buffer] ELSE disk[g]]
  BY DEF DispatchWrite, Pwrite
<1>. QED  BY <1>2, <1>3, <1>4

\* A write puts the bytes of its client where that client asked for.
LEMMA DispatchWriteData ==
    ASSUME TypeOK, NEW stage \in [Ids -> Stages], NEW own \in [Clients -> Ids \cup {NoId}],
           OwnInv(stage, own), ClientInv(stage, own), FileInv(stage, own), DataInv(stage, own),
           NEW t \in PoolThreads, DispatchWrite(t), NEW id \in Ids, id = Current(t),
           stage[id] = "transfer", NEW next, next = Move(stage, {id}, "transferred")
    PROVE  DataInv(next, own)'
<1>0. PICK c, f, b : c = fr[id].rank /\ f = FileOf(Layout, c) /\ b = fr[id].offset
  OBVIOUS
<1>1. fr[id].operation = "write" /\ UNCHANGED clientVars /\ UNCHANGED <<fr, dataMsgs>>
  BY DEF DispatchWrite, poolOnly
<1>2. /\ c \in Clients /\ own[c] = id /\ fr[id].buffer = c
  BY <1>0, <1>1, TransferClient
<1>3. Transfers(id, c)
  BY <1>0, <1>1, HandleIsOpen
<1>4. /\ FilesOf(fr[id].file_handle) = {f} /\ iter[c] \in 0..(NRequests - 1)
      /\ b = BlockOf(c, iter[c]) /\ b \in Blocks /\ phase[c] = "write"
  BY <1>0, <1>1, <1>3 DEF Transfers
<1>5. PICK moved \in {TRUE, FullTransfers} :
         disk' = [g \in Files |-> IF moved /\ g = f THEN [disk[g] EXCEPT ![b] = c] ELSE disk[g]]
  BY <1>0, WriteLeaves
<1>6. disk \in [Files -> [Blocks -> Bytes]] /\ f \in Files
  BY <1>0, <1>2, FileType DEF TypeOK, FileTypes
<1>7. ASSUME NEW d \in Clients, NEW i \in 0..(NRequests - 1)
      PROVE  /\ disk'[FileOf(Layout, d)][BlockOf(d, i)] \in {d, disk[FileOf(Layout, d)][BlockOf(d, i)]}
             /\ d = c /\ i = iter[c] /\ moved => disk'[FileOf(Layout, d)][BlockOf(d, i)] = d
  <2>0. PICK g, e : g = FileOf(Layout, d) /\ e = BlockOf(d, i)
    OBVIOUS
  <2>1. g \in Files /\ e \in Blocks
    <3>1. i \in 0..NRequests /\ i < NRequests
      BY SizesAssumption
    <3>. QED  BY <2>0, <3>1, FileType, BlockType
  <2>2. ASSUME g = f, e = b PROVE d = c
    <3>1. PICK k \in 0..(NRequests - 1) : k = iter[c]
      BY <1>4
    <3>2. FileOf(Layout, c) = FileOf(Layout, d) /\ BlockOf(c, k) = BlockOf(d, i)
      BY <1>0, <1>4, <2>0, <2>2, <3>1
    <3>. QED  BY <1>2, <3>2, BlocksHaveOwners
  <2>3. disk'[g][e] = IF moved /\ g = f /\ e = b THEN c ELSE disk[g][e]
    BY <1>5, <1>6, <2>1
  <2>4. d = c /\ i = iter[c] => g = f /\ e = b
    BY <1>0, <1>4, <2>0
  <2>. QED  BY <2>0, <2>2, <2>3, <2>4
<1>8. UNCHANGED <<pc, phase, iter>> /\ phase \in [Clients -> {"write", "read"}]
      /\ iter \in [Clients -> 0..NRequests] /\ NRequests \in Nat
      /\ \A d \in Clients : pc[d] = "ack" => iter[d] < NRequests
  BY <1>1, SizesAssumption DEF clientVars, TypeOK, ClientTypes
<1>9. DiskInv'
  BY <1>7 DEF DiskInv, DataInv
<1>10. ASSUME NEW d \in Clients, NEW i \in 0..(NRequests - 1), Written(d, i) PROVE Written(d, i)'
  BY <1>7, <1>10 DEF Written
<1>11. OtherStages(stage, next, id) /\ next[id] = "transferred" /\ OtherOwners(own, own, c)
       /\ OtherRequests(id)
  BY <1>1 DEF OtherStages, OtherOwners, OtherRequests, Move
<1>12. ASSUME FullTransfers, NEW d \in Clients PROVE WritesDone(d, next, own)'
  <2>1. WritesDone(d, stage, own)
    BY <1>12 DEF DataInv
  <2>2. iter[d] \in 0..NRequests
    BY <1>8
  <2>3. ASSUME phase[d] = "write", NEW i \in 0..(iter[d] - 1) PROVE Written(d, i)'
    <3>1. i \in 0..(NRequests - 1)
      BY <1>8, <2>2
    <3>. QED  BY <1>10, <2>1, <2>3, <3>1 DEF WritesDone
  <2>4. ASSUME phase[d] = "write", pc[d] = "ack", HadEffect(d, next, own) PROVE Written(d, iter[d])'
    <3>1. iter[d] \in 0..(NRequests - 1)
      BY <1>8, <2>2, <2>4
    <3>2. CASE d = c
      <4>1. moved
        BY <1>12
      <4>. QED  BY <1>7, <1>8, <3>1, <3>2, <4>1 DEF Written
    <3>3. CASE d # c
      <4>1. HadEffect(d, stage, own)
        BY <1>0, <1>11, <2>4, <3>3, OthersKeepData
      <4>2. Written(d, iter[d])
        BY <2>1, <2>4, <4>1 DEF WritesDone, HadEffect
      <4>. QED  BY <1>8, <1>10, <3>1, <4>2 DEF Written
    <3>. QED  BY <3>2, <3>3
  <2>5. ASSUME Phases = {"write", "read"}, phase[d] = "read", NEW i \in 0..(NRequests - 1)
        PROVE  Written(d, i)'
    BY <1>10, <2>1, <2>5 DEF WritesDone
  <2>. QED  BY <1>8, <2>3, <2>4, <2>5 DEF WritesDone, HadEffect, Written
<1>13. ASSUME NEW d \in Clients PROVE AllIssued(d)' /\ BufferOK(d, next, own)'
  <2>1. AllIssued(d)'
    BY <1>8 DEF AllIssued, DataInv
  <2>2. CASE d = c
    BY <1>1, <1>2, <2>1, <2>2 DEF BufferOK
  <2>3. CASE d # c
    BY <1>0, <1>11, <2>1, <2>3, OthersKeepData
  <2>. QED  BY <2>2, <2>3
<1>14. \A m \in dataMsgs' : DataOK(m)'
  BY <1>1 DEF DataOK, DataInv
<1>. QED  BY <1>9, <1>12, <1>13, <1>14 DEF DataInv

\* What a read finds: the client's own bytes, or what was there before.
LEMMA ReadFinds ==
    ASSUME TypeOK, NEW stage \in [Ids -> Stages], NEW own \in [Clients -> Ids \cup {NoId}],
           OwnInv(stage, own), ClientInv(stage, own), FileInv(stage, own), DataInv(stage, own),
           NEW t \in PoolThreads, DispatchRead(t), NEW id \in Ids, id = Current(t),
           stage[id] = "transfer", NEW c, c = fr[id].rank
    PROVE  \E b : /\ fr' = [fr EXCEPT ![id].buffer = b]
                  /\ \/ b = disk[FileOf(Layout, c)][fr[id].offset]
                     \/ ~FullTransfers /\ b = FreshBuffer
                  /\ b \in {c, Nobody, FreshBuffer} /\ (Complete => b = c)
<1>1. fr[id].operation = "read"
  BY DEF DispatchRead
<1>2. /\ c \in Clients /\ own[c] = id /\ id # NoId
  BY <1>1, TransferClient, MarkersApart
<1>3. Transfers(id, c)
  BY <1>1, HandleIsOpen
<1>4. PICK f : f = FileOf(Layout, c)
  OBVIOUS
<1>5. FilesOf(fr[id].file_handle) = {f} /\ iter[c] \in 0..(NRequests - 1)
      /\ fr[id].offset = BlockOf(c, iter[c]) /\ phase[c] = "read"
  BY <1>1, <1>3, <1>4 DEF Transfers
<1>6. PICK moved \in {TRUE, FullTransfers} :
         fr' = IF moved THEN [fr EXCEPT ![id].buffer = disk[f][BlockOf(c, iter[c])]] ELSE fr
  <2>1. (CHOOSE g \in FilesOf(fr[id].file_handle) : TRUE) = f
    BY <1>5
  <2>2. PICK moved \in {TRUE, FullTransfers} :
           fr' = IF moved /\ FilesOf(fr[id].file_handle) # {}
                 THEN [fr EXCEPT ![id].buffer =
                         disk[CHOOSE g \in FilesOf(fr[id].file_handle) : TRUE][fr[id].offset]]
                 ELSE fr
    BY DEF DispatchRead, Pread
  <2>. QED  BY <1>5, <2>1, <2>2
<1>7. disk[f][BlockOf(c, iter[c])] \in {c, Nobody}
  BY <1>2, <1>4, <1>5 DEF DataInv, DiskInv
<1>8. Complete => disk[f][BlockOf(c, iter[c])] = c
  BY <1>2, <1>4, <1>5 DEF DataInv, WritesDone, Written, Complete
<1>9. fr[id].buffer = FreshBuffer
  BY <1>1, <1>2 DEF DataInv, BufferOK, Buffered, Hashed, Transferred
<1>10. CASE moved
  <2>1. fr' = [fr EXCEPT ![id].buffer = disk[f][BlockOf(c, iter[c])]]
    BY <1>6, <1>10
  <2>. QED  BY <1>4, <1>5, <1>7, <1>8, <2>1
<1>11. CASE ~moved
  <2>1. fr' = [fr EXCEPT ![id].buffer = fr[id].buffer]
    <3>1. fr' = fr
      BY <1>6, <1>11
    <3>2. fr \in [Ids -> ForwardingRequest]
      BY DEF TypeOK, FileTypes
    <3>3. PICK r \in ForwardingRequest : r = fr[id]
      BY <3>2
    <3>4. [r EXCEPT !.buffer = r.buffer] = r
      BY DEF ForwardingRequest
    <3>5. [fr EXCEPT ![id] = fr[id]] = fr
      BY <3>2
    <3>. QED  BY <3>1, <3>2, <3>3, <3>4, <3>5
  <2>2. ~FullTransfers
    BY <1>6, <1>11, LayoutAssumption
  <2>3. ~Complete
    BY <2>2 DEF Complete
  <2>. QED  BY <1>9, <2>1, <2>2, <2>3
<1>. QED  BY <1>10, <1>11

\* A read finds what its file holds, or falls short.
LEMMA DispatchReadData ==
    ASSUME TypeOK, NEW stage \in [Ids -> Stages], NEW own \in [Clients -> Ids \cup {NoId}],
           OwnInv(stage, own), ClientInv(stage, own), FileInv(stage, own), DataInv(stage, own),
           NEW t \in PoolThreads, DispatchRead(t), NEW id \in Ids, id = Current(t),
           stage[id] = "transfer", NEW next, next = Move(stage, {id}, "transferred")
    PROVE  DataInv(next, own)'
<1>0. PICK c : c = fr[id].rank
  OBVIOUS
<1>1. fr[id].operation = "read" /\ UNCHANGED <<clientVars, disk>> /\ UNCHANGED dataMsgs
  BY DEF DispatchRead, poolOnly
<1>2. c \in Clients /\ own[c] = id /\ pc[c] # "ack"
  BY <1>0, <1>1, TransferClient
<1>3. PICK b : /\ fr' = [fr EXCEPT ![id].buffer = b]
               /\ b \in {c, Nobody, FreshBuffer} /\ (Complete => b = c)
  BY <1>0, ReadFinds
<1>4. OtherRequests(id) /\ fr'[id].buffer = b
  BY <1>3, RequestFields DEF OtherRequests, TypeOK, FileTypes
<1>5. OtherStages(stage, next, id) /\ OtherOwners(own, own, c) /\ next[id] = "transferred"
  BY DEF OtherStages, OtherOwners, Move
<1>6. BufferOK(c, next, own)'
  BY <1>2, <1>3, <1>4, <1>5 DEF BufferOK, Complete, Transferred
<1>. QED  BY <1>0, <1>1, <1>2, <1>4, <1>5, <1>6, OneRequestData

\* The answer takes the bytes of the buffer to the client of the request.
LEMMA CallbackReplyData ==
    ASSUME TypeOK, NEW stage \in [Ids -> Stages], NEW own \in [Clients -> Ids \cup {NoId}],
           OwnInv(stage, own), ClientInv(stage, own), DataInv(stage, own),
           NEW t \in PoolThreads, CallbackReply(t), NEW id \in Ids, id = Current(t),
           stage[id] = "last", NEW next, next = Move(stage, {id}, "free"),
           NEW nown, nown = [own EXCEPT ![fr[id].rank] = NoId]
    PROVE  DataInv(next, nown)'
<1>0. PICK c : c = fr[id].rank
  OBVIOUS
<1>1. c \in Clients /\ own[c] = id /\ id # NoId
  BY <1>0, RequestOf, MarkersApart
<1>2. UNCHANGED <<clientVars, disk>> /\ OtherRequests(id)
  BY DEF CallbackReply, poolOnly, OtherRequests, TypeOK, FileTypes
<1>3. OtherStages(stage, next, id) /\ OtherOwners(own, nown, c) /\ nown[c] = NoId
  BY <1>0, <1>1 DEF OtherStages, OtherOwners, Move
<1>4. HadEffect(c, stage, own)
  BY <1>1 DEF HadEffect, Transferred
<1>5. BufferOK(c, next, nown)'
  BY <1>3 DEF BufferOK
<1>6. ASSUME NEW m \in dataMsgs' PROVE m \in dataMsgs \/ DataOK(m)
  <2>1. CASE fr[id].operation = "read"
    <3>1. dataMsgs' = dataMsgs \cup {[to |-> "client", rank |-> c, tag |-> id, data |-> fr[id].buffer]}
      BY <1>0, <2>1 DEF CallbackReply, Answered
    <3>2. /\ fr[id].buffer \in {c, Nobody, FreshBuffer}
          /\ Complete => fr[id].buffer = c
      BY <1>1, <2>1 DEF DataInv, BufferOK, Transferred
    <3>. QED  BY <3>1, <3>2 DEF DataOK
  <2>2. CASE fr[id].operation # "read"
    BY <2>2 DEF CallbackReply
  <2>. QED  BY <2>1, <2>2
<1>. QED  BY <1>0, <1>2, <1>3, <1>4, <1>5, <1>6, OneRequestData

-----------------------------------------------------------------------------
(* The ages and the end of the run, when the server goes on. *)

\* Steps of the server that issue no identifier age none.
LEMMA ServerAges ==
    ASSUME TypeOK, NEW own, NEW nown, UNCHANGED <<clientVars, requestMsgs, global_id>>, AgeInv(own),
           \A c \in Clients, id \in Ids : Tagged(c, id, nown)' => Tagged(c, id, own)
    PROVE  AgeInv(nown)'
<1>0. UNCHANGED <<pc, iter, barrier, requestMsgs, global_id>>
  BY DEF clientVars
<1>1. \A d \in Clients : Taken(d)' = Taken(d)
  BY <1>0 DEF Taken
<1>2. \A c \in Clients : Overtaking(c)' = Overtaking(c)
  BY <1>0, <1>1 DEF Overtaking
<1>. QED  BY <1>0, <1>2, AgeFrame

\* Nor does a shutdown message.
LEMMA ListenerShutdownAges ==
    ASSUME TypeOK, NEW own, AgeInv(own), NEW c \in Clients, ListenerShutdown(c), pc[c] = "done"
    PROVE  AgeInv(own)'
<1>0. UNCHANGED <<pc, iter, barrier, dataMsgs, global_id>> /\ requestMsgs' = Recv(requestMsgs, c)
      /\ DOMAIN requestMsgs = Clients
  BY DEF ListenerShutdown, clientVars, TypeOK, NetTypes
<1>1. ASSUME NEW d \in Clients PROVE Taken(d)' = Taken(d)
  <2>1. CASE d = c
    BY <1>0, <2>1 DEF Taken
  <2>2. CASE d # c
    <3>1. requestMsgs'[d] = requestMsgs[d]
      BY <1>0, <2>2 DEF Recv
    <3>. QED  BY <1>0, <3>1 DEF Taken
  <2>. QED  BY <2>1, <2>2
<1>2. \A e \in Clients : Overtaking(e)' = Overtaking(e)
  BY <1>0, <1>1 DEF Overtaking
<1>3. \A e \in Clients, id \in Ids : Tagged(e, id, own)' => Tagged(e, id, own)
  BY <1>0 DEF Tagged
<1>. QED  BY <1>0, <1>2, <1>3, AgeFrame

\* A server thread answers the request id of c, or takes data that was sent.
LEMMA TagsOfServer ==
    ASSUME NEW own, NEW nown, NEW c, NEW id, own[c] = id, nown[c] \in {id, NoId}, OtherOwners(own, nown, c),
           \A m \in dataMsgs' : m \in dataMsgs \/ (m.rank = c /\ m.tag = id)
    PROVE  \A d \in Clients, i \in Ids : Tagged(d, i, nown)' => Tagged(d, i, own)
<1>. SUFFICES ASSUME NEW d \in Clients, NEW i \in Ids, Tagged(d, i, nown)' PROVE Tagged(d, i, own)
  OBVIOUS
<1>1. i # NoId
  BY MarkersApart
<1>2. CASE nown[d] = i
  BY <1>1, <1>2 DEF OtherOwners, Tagged
<1>3. CASE nown[d] # i
  <2>1. PICK m \in dataMsgs' : m.rank = d /\ m.tag = i
    BY <1>3 DEF Tagged
  <2>. QED  BY <2>1 DEF Tagged
<1>. QED  BY <1>2, <1>3

\* The clients that have sent their shutdown message can be counted.
LEMMA GoneFinite == IsFiniteSet(Gone) /\ Gone \subseteq Clients
<1>1. Gone \subseteq Clients
  BY DEF Gone
<1>. QED  BY <1>1, ClientsFinite, FS_Subset

\* Each client sends its shutdown message once.
LEMMA ClientShutdowns ==
    ASSUME TypeOK, NEW stage, NEW own, ClientInv(stage, own), ShutdownInv, NEW c \in Clients, Client(c)
    PROVE  ShutdownInv'
<1>0. /\ pc \in [Clients -> {"open", "handle", "opened", "issue", "id", "ack", "data", "drained",
                             "closing", "closed", "shutdown", "done"}]
      /\ DOMAIN requestMsgs = Clients /\ requestMsgs[c] \in Seq(Message)
  BY DEF TypeOK, ClientTypes, NetTypes
<1>1. UNCHANGED <<shutdown, shutdown_control>>
  BY ClientLeaves DEF serverVars
<1>2. pc[c] # "done"
  BY DEF Client, ClientOpen, ClientHandle, ClientStart, ClientIssue, ClientSendData, ClientReadId,
         ClientWriteDone, ClientReadDone, ClientLoopEnd, ClientClose, ClientClosed, ClientNext,
         ClientShutdown
<1>3. pc'[c] = "done" => requestMsgs'[c] # <<>>
  <2>1. CASE ClientShutdown(c)
    <3>1. PICK m : requestMsgs' = Send(requestMsgs, c, m)
      BY <2>1 DEF ClientShutdown, Request
    <3>2. Quiet(c, own)
      BY <2>1, IdleIsQuiet DEF ClientShutdown, Idle, ClientInv
    <3>3. Send(requestMsgs, c, m)[c] = <<m>>
      BY <1>0, <3>2, OneMessage DEF Quiet
    <3>. QED  BY <3>1, <3>3
  <2>2. CASE ~ClientShutdown(c)
    BY <1>0, <1>2, <2>2
    DEF Client, ClientOpen, ClientHandle, ClientStart, ClientIssue, ClientSendData, ClientReadId,
        ClientWriteDone, ClientReadDone, ClientLoopEnd, ClientClose, ClientClosed, ClientNext,
        Request, NextIteration, Follows
  <2>. QED  BY <2>1, <2>2
<1>4. \A d \in Clients : d # c => pc'[d] = pc[d] /\ requestMsgs'[d] = requestMsgs[d]
  BY ClientMovesOne
<1>5. Gone' = Gone
  BY <1>2, <1>3, <1>4 DEF Gone
<1>. QED  BY <1>1, <1>5 DEF ShutdownInv

\* A request is not counted as a shutdown.
LEMMA ListenerRequestShutdowns ==
    ASSUME TypeOK, ShutdownInv, NEW c \in Clients, ListenerRequest(c), pc[c] # "done"
    PROVE  ShutdownInv'
<1>1. UNCHANGED <<pc, shutdown, shutdown_control>> /\ requestMsgs' = Recv(requestMsgs, c)
      /\ DOMAIN requestMsgs = Clients
  BY DEF ListenerRequest, clientVars, TypeOK, NetTypes
<1>2. Gone' = Gone
  BY <1>1 DEF Gone, Recv
<1>. QED  BY <1>1, <1>2 DEF ShutdownInv

\* The listener counts each shutdown message once, and stops at the last.
LEMMA ListenerShutdownShutdowns ==
    ASSUME TypeOK, ShutdownInv, NEW c \in Clients, ListenerShutdown(c), pc[c] = "done",
           requestMsgs[c] # <<>>, requestMsgs'[c] = <<>>
    PROVE  ShutdownInv'
<1>1. /\ UNCHANGED pc /\ requestMsgs' = Recv(requestMsgs, c) /\ DOMAIN requestMsgs = Clients
      /\ shutdown' = shutdown + 1 /\ shutdown_control' = (shutdown_control \/ AllFinished(shutdown'))
  BY DEF ListenerShutdown, clientVars, TypeOK, NetTypes
<1>2. Gone' = Gone \cup {c} /\ c \notin Gone
  BY <1>1 DEF Gone, Recv
<1>3. Cardinality(Gone') = Cardinality(Gone) + 1
  BY <1>2, GoneFinite, FS_AddElement
<1>4. ~shutdown_control
  <2>1. SUFFICES ASSUME shutdown_control PROVE FALSE
    OBVIOUS
  <2>2. Cardinality(Gone) = Cardinality(Clients)
    BY <2>1, ClientsFinite DEF ShutdownInv
  <2>3. Gone = Clients
    BY <2>2, ClientsFinite, GoneFinite, FS_Subset
  <2>. QED  BY <1>2, <2>3
<1>. QED  BY <1>1, <1>3, <1>4 DEF ShutdownInv, AllFinished

\* The rest of the server counts none.
LEMMA ServerShutdowns ==
    ASSUME ShutdownInv, UNCHANGED <<clientVars, requestMsgs, shutdown, shutdown_control>>
    PROVE  ShutdownInv'
<1>1. UNCHANGED <<pc, requestMsgs, shutdown, shutdown_control>>
  BY DEF clientVars
<1>2. Gone' = Gone
  BY <1>1 DEF Gone
<1>. QED  BY <1>1, <1>2 DEF ShutdownInv

\* Nor does it pass the barriers of the clients.
LEMMA ServerBarriers ==
    ASSUME BarrierInv, UNCHANGED clientVars PROVE BarrierInv'
<1>1. UNCHANGED <<pc, phase, barrier>>
  BY DEF clientVars
<1>. QED  BY <1>1 DEF BarrierInv, BarriersIn, Passed

----------------------------------------------------------------------------
(* Why the server does not abort. *)

\* dispatch_operation finds the file of each request of a batch.
LEMMA SortedFilesAreKnown ==
    ASSUME TypeOK, NEW stage \in [Ids -> Stages], NEW own \in [Clients -> Ids \cup {NoId}],
           StageInv(stage), OwnInv(stage, own), ClientInv(stage, own), FileInv(stage, own),
           NEW t \in PoolThreads, DispatchSort(t)
    PROVE  UNCHANGED aborted
<1>1. /\ FileSystem = "pvfs" /\ pool[t].fn = "dispatch_operation" /\ pool[t].at = "begin"
      /\ aborted' = IF FilesOf(fr[pool[t].ids[1]].file_handle) = {} THEN "SIGSEGV" ELSE aborted
  BY DEF DispatchSort, Runs
<1>2. PICK id : id = pool[t].ids[1]
  OBVIOUS
<1>3. id \in Ids /\ stage[id] = "transfer"
  <2>1. /\ PoolPoint(pool[t]) /\ pool[t].ids # <<>> /\ pool[t].ids \in Seq(Ids)
        /\ DOMAIN pool[t].ids = 1..Len(pool[t].ids) /\ Len(pool[t].ids) \in Nat
        /\ \A k \in DOMAIN pool[t].ids :
              /\ pool[t].ids[k] \in Ids
              /\ stage[pool[t].ids[k]] = IF k < pool[t].k THEN "transferred" ELSE "transfer"
    BY <1>1, DispatchPoint DEF StageInv
  <2>2. pool[t].k = 1
    BY <1>1, <2>1 DEF PoolPoint
  <2>3. 1 \in DOMAIN pool[t].ids
    BY <2>1
  <2>. QED  BY <1>2, <2>1, <2>2, <2>3
<1>4. fr[id].operation \in {"read", "write"}
  BY <1>3, TransferClient
<1>5. Transfers(id, fr[id].rank)
  BY <1>3, <1>4, HandleIsOpen
<1>. QED  BY <1>1, <1>2, <1>5 DEF Transfers

\* The callback finds the request that it answers in the hash.
LEMMA AnsweredAreHashed ==
    ASSUME NEW stage, StageInv(stage), NEW t \in PoolThreads, CallbackDel(t),
           NEW id \in Ids, id = Current(t), stage[id] = "answer"
    PROVE  UNCHANGED aborted
BY DEF CallbackDel, StageInv, Hashed

\* The dispatcher finds the request it has popped in the hash.
LEMMA FoundAreHashed ==
    ASSUME TypeOK, NEW stage \in [Ids -> Stages], StageInv(stage), DispatcherFind PROVE UNCHANGED aborted
<1>1. dispatcher.ids \in Seq(Ids) /\ dispatcher.ids # <<>>
  BY DispatcherTypes DEF DispatcherFind
<1>2. dispatcher.ids[1] \in Range(dispatcher.ids)
  BY <1>1 DEF Range
<1>3. dispatcher.ids[1] \in Ids /\ stage[dispatcher.ids[1]] = "batch"
  BY <1>2 DEF StageInv, DispatcherHolds, QueueHolds
<1>. QED  BY <1>3 DEF DispatcherFind, StageInv, Hashed

\* And those that it adds to the batch.
LEMMA BatchedAreHashed ==
    ASSUME TypeOK, NEW stage \in [Ids -> Stages], StageInv(stage), DispatcherBatch PROVE UNCHANGED aborted
<1>1. PICK n : /\ n = Joining(dispatcher.ids[1])
               /\ aborted' = IF n < Len(ready_queue) /\ n < BatchRoom
                                /\ ready_queue[n+1] \notin requests THEN "SIGSEGV" ELSE aborted
  BY DEF DispatcherBatch
<1>2. n \in 0..Len(ready_queue) /\ ready_queue \in Seq(Ids)
  BY <1>1, JoiningIsSound DEF TypeOK, QueueTypes
<1>3. ASSUME n < Len(ready_queue) PROVE ready_queue[n+1] \in requests
  <2>1. n + 1 \in DOMAIN ready_queue
    BY <1>2, <1>3
  <2>2. ready_queue[n+1] \in Range(ready_queue)
    BY <2>1 DEF Range
  <2>. QED  BY <2>2 DEF StageInv, QueueHolds, Hashed
<1>. QED  BY <1>1, <1>3

-----------------------------------------------------------------------------
(* The invariant is kept: steps within the server that no client sees. *)

\* The histories after a step of which the state says the invariant.
IsHistory(stage, own) == stage \in [Ids -> Stages] /\ own \in [Clients -> Ids \cup {NoId}]

\* To show the invariant, name the histories after the step.
LEMMA Kept ==
    ASSUME NEW next, NEW nown, IsHistory(next, nown), SafetyInv(next, nown)'
    PROVE  IInv'
BY DEF IInv, IsHistory

QuietStep == UNCHANGED <<clientVars, netVars, opened_files, pvfs_fh_id, fr, global_id, shutdown,
                         shutdown_control, aborted>>
\* A step of the server that moves requests between stages which no client can
\* tell apart, and leaves everything else alone.
HidesStep(stage, next) ==
    /\ Silent(stage, next) /\ StageInv(next)'
    /\ \A id \in Ids : stage[id] \in Transferred <=> next[id] \in Transferred
HiddenStep(stage) ==
    QuietStep /\ UNCHANGED disk /\ \E next \in [Ids -> Stages] : HidesStep(stage, next)

\* A step that moves no request past what a client notices is hidden.
LEMMA SilentStep ==
    ASSUME NEW stage, QuietStep, UNCHANGED disk,
           NEW next \in [Ids -> Stages], Silent(stage, next), StageInv(next)',
           \A id \in Ids : stage[id] \in Transferred <=> next[id] \in Transferred
    PROVE  HiddenStep(stage)
BY DEF HiddenStep, HidesStep

\* A hidden step keeps each request with its client.
LEMMA HiddenClients ==
    ASSUME TypeOK, NEW stage, NEW own, NEW next, Silent(stage, next), QuietStep,
           OwnInv(stage, own), ClientInv(stage, own)
    PROVE  OwnInv(next, own)' /\ ClientInv(next, own)'
<1>0. UNCHANGED <<clientVars, netVars, fr, aborted>> /\ UNCHANGED fr
  BY DEF QuietStep, netVars
<1>1. OwnInv(next, own)'
  BY <1>0, SilentRequests
<1>2. \A c \in Clients : ClientOK(c, next, own)'
  BY <1>0, SilentClients
<1>. QED  BY <1>1, <1>2 DEF ClientInv

\* A hidden step keeps the invariant.
LEMMA HiddenKeeps ==
    ASSUME TypeOK, NEW stage \in [Ids -> Stages], NEW own \in [Clients -> Ids \cup {NoId}],
           SafetyInv(stage, own), HiddenStep(stage)
    PROVE  IInv'
<1>0. /\ UNCHANGED <<clientVars, netVars, opened_files, pvfs_fh_id>>
      /\ UNCHANGED <<clientVars, netVars, global_id>> /\ UNCHANGED <<clientVars, netVars, fr, disk>>
      /\ UNCHANGED aborted /\ QuietStep
      /\ UNCHANGED <<clientVars, requestMsgs, shutdown, shutdown_control>> /\ UNCHANGED clientVars
  BY DEF HiddenStep, QuietStep, netVars
<1>1. /\ OwnInv(stage, own) /\ ClientInv(stage, own) /\ BarrierInv /\ AgeInv(own)
      /\ FileInv(stage, own) /\ DataInv(stage, own) /\ ShutdownInv
      /\ aborted \in {"no", "ERROR_VALIDATION_FAILED"}
      /\ \A c \in Clients : own[c] \in Ids \cup {NoId}
  BY DEF SafetyInv
<1>2. PICK next \in [Ids -> Stages] : HidesStep(stage, next)
  BY DEF HiddenStep
<1>3. /\ Silent(stage, next) /\ StageInv(next)'
      /\ \A id \in Ids : stage[id] \in Transferred <=> next[id] \in Transferred
  BY <1>2 DEF HidesStep
<1>4. OwnInv(next, own)' /\ ClientInv(next, own)'
  BY <1>0, <1>1, <1>3, HiddenClients
<1>5. BarrierInv' /\ ShutdownInv' /\ AgeInv(own)'
  BY <1>0, <1>1, ServerBarriers, ServerShutdowns, SilentAges
<1>6. FileInv(next, own)'
  BY <1>0, <1>1, <1>3, SilentFiles
<1>7. DataInv(next, own)'
  BY <1>0, <1>1, <1>3, SilentData
<1>8. SafetyInv(next, own)'
  BY <1>0, <1>1, <1>3, <1>4, <1>5, <1>6, <1>7 DEF SafetyInv
<1>. QED  BY <1>8, Kept DEF IsHistory

\* Requests that go from one stage to another without anybody knowing.
Unseen(from, to) == /\ Alike(from, to) /\ (from \in Arriving <=> to \in Arriving)
                    /\ (from \in Transferred <=> to \in Transferred)

\* Some requests that move on between two stages alike make a hidden step.
LEMMA SilentMove ==
    ASSUME NEW stage \in [Ids -> Stages], QuietStep, UNCHANGED disk,
           NEW X \in SUBSET Ids, NEW from, NEW to \in Stages, \A id \in X : stage[id] = from,
           Unseen(from, to), StageInv(Move(stage, X, to))'
    PROVE  HiddenStep(stage)
<1>0. PICK next : next = Move(stage, X, to)
  OBVIOUS
<1>1. next \in [Ids -> Stages] /\ \A id \in Ids : next[id] = IF id \in X THEN to ELSE stage[id]
  BY <1>0, MoveType
<1>2. Silent(stage, next)
  BY <1>1 DEF Silent, Unseen, Alike
<1>3. \A id \in Ids : stage[id] \in Transferred <=> next[id] \in Transferred
  BY <1>1 DEF Unseen
<1>4. StageInv(next)'
  BY <1>0
<1>. QED  BY <1>1, <1>2, <1>3, <1>4, SilentStep

\* The stages between which no client notices a move.
LEMMA UnseenSteps ==
    /\ Unseen("incoming", "got")
    /\ Unseen("handle", "begin") /\ Unseen("dispatch", "transfer") /\ Unseen("callback", "answer")
    /\ Unseen("hash", "add") /\ Unseen("add", "agios") /\ Unseen("agios", "ready")
    /\ Unseen("ready", "batch") /\ Unseen("batch", "dispatch")
    /\ Unseen("transferred", "callback") /\ Unseen("answer", "last")
BY DEF Unseen, Alike, Arriving, Unacked, Buffered, Hashed, Transferred

\* No client sees a handler pop a request.
LEMMA HandlerPopHidden ==
    ASSUME TypeOK, NEW stage \in [Ids -> Stages], NEW own \in [Clients -> Ids \cup {NoId}],
           SafetyInv(stage, own), NEW h \in Handlers, HandlerPop(h)
    PROVE  HiddenStep(stage)
<1>0. PICK id : id = Head(incoming_queue)
  OBVIOUS
<1>1. QuietStep /\ UNCHANGED disk
  BY DEF QuietStep, HandlerPop
<1>2. id \in Ids /\ stage[id] = "incoming" /\ StageInv(Move(stage, {id}, "got"))'
  BY <1>0, HandlerPopStages DEF SafetyInv
<1>3. {id} \in SUBSET Ids /\ \A i \in {id} : stage[i] = "incoming"
  BY <1>2
<1>. QED  BY <1>1, <1>2, <1>3, StageNames, UnseenSteps, SilentMove

\* Nor a pool thread pull a job.
LEMMA PoolPullHidden ==
    ASSUME TypeOK, NEW stage \in [Ids -> Stages], NEW own \in [Clients -> Ids \cup {NoId}],
           SafetyInv(stage, own), NEW t \in PoolThreads, PoolPull(t)
    PROVE  HiddenStep(stage)
<1>0. PICK fn, ids, to, X : fn = Head(jobs).fn /\ ids = Head(jobs).ids /\ to = Pulled(fn) /\ X = Range(ids)
  OBVIOUS
<1>1. QuietStep /\ UNCHANGED disk
  BY DEF QuietStep, PoolPull
<1>2. X \in SUBSET Ids /\ \A id \in X : stage[id] = JobStage(fn)
  BY <1>0, PoolPullStages DEF SafetyInv
<1>3. StageInv(Move(stage, X, to))'
  BY <1>0, PoolPullStages DEF SafetyInv
<1>4. to \in Stages /\ Unseen(JobStage(fn), to)
  BY <1>0, StageNames, UnseenSteps DEF Pulled, JobStage
<1>. QED  BY <1>1, <1>2, <1>3, <1>4, SilentMove

\* Nor a request put in the hash.
LEMMA HandleHashHidden ==
    ASSUME TypeOK, NEW stage \in [Ids -> Stages], NEW own \in [Clients -> Ids \cup {NoId}],
           SafetyInv(stage, own), NEW t \in PoolThreads, HandleHash(t)
    PROVE  HiddenStep(stage)
<1>0. PICK id : id = Current(t)
  OBVIOUS
<1>1. QuietStep /\ UNCHANGED disk
  BY DEF QuietStep, HandleHash, poolOnly, netVars
<1>2. id \in Ids /\ stage[id] = "hash" /\ StageInv(Move(stage, {id}, "add"))'
  BY <1>0, HandleHashStages DEF SafetyInv
<1>3. {id} \in SUBSET Ids /\ \A i \in {id} : stage[i] = "hash"
  BY <1>2
<1>. QED  BY <1>1, <1>2, <1>3, StageNames, UnseenSteps, SilentMove

\* Nor a request given to AGIOS.
LEMMA HandleAgiosHidden ==
    ASSUME TypeOK, NEW stage \in [Ids -> Stages], NEW own \in [Clients -> Ids \cup {NoId}],
           SafetyInv(stage, own), NEW t \in PoolThreads, HandleAgios(t)
    PROVE  HiddenStep(stage)
<1>0. PICK id : id = Current(t)
  OBVIOUS
<1>1. QuietStep /\ UNCHANGED disk
  BY DEF QuietStep, HandleAgios, poolOnly, netVars
<1>2. id \in Ids /\ stage[id] = "add" /\ StageInv(Move(stage, {id}, "agios"))'
  BY <1>0, HandleAgiosStages DEF SafetyInv
<1>3. {id} \in SUBSET Ids /\ \A i \in {id} : stage[i] = "add"
  BY <1>2
<1>. QED  BY <1>1, <1>2, <1>3, StageNames, UnseenSteps, SilentMove

\* Nor a batch sorted.
LEMMA DispatchSortHidden ==
    ASSUME TypeOK, NEW stage \in [Ids -> Stages], NEW own \in [Clients -> Ids \cup {NoId}],
           SafetyInv(stage, own), NEW t \in PoolThreads, DispatchSort(t)
    PROVE  HiddenStep(stage)
<1>1. UNCHANGED aborted
  BY SortedFilesAreKnown DEF SafetyInv
<1>2. QuietStep /\ UNCHANGED disk
  BY <1>1 DEF QuietStep, DispatchSort, poolOnly, netVars
<1>3. StageInv(stage)'
  BY DispatchSortStages DEF SafetyInv
<1>4. Silent(stage, stage)
  BY DEF Silent, Alike
<1>. QED  BY <1>2, <1>3, <1>4, SilentStep

\* Nor the end of a dispatch.
LEMMA DispatchDoneHidden ==
    ASSUME TypeOK, NEW stage \in [Ids -> Stages], NEW own \in [Clients -> Ids \cup {NoId}],
           SafetyInv(stage, own), NEW t \in PoolThreads, DispatchDone(t)
    PROVE  HiddenStep(stage)
<1>0. PICK ids, X : ids = pool[t].ids /\ X = Range(ids)
  OBVIOUS
<1>1. QuietStep /\ UNCHANGED disk
  BY DEF QuietStep, DispatchDone, poolOnly, netVars
<1>2. X \in SUBSET Ids /\ \A id \in X : stage[id] = "transferred"
  BY <1>0, DispatchDoneStages DEF SafetyInv
<1>3. StageInv(Move(stage, X, "callback"))'
  BY <1>0, DispatchDoneStages DEF SafetyInv
<1>. QED  BY <1>1, <1>2, <1>3, StageNames, UnseenSteps, SilentMove

\* Nor a request taken out of the hash.
LEMMA CallbackDelHidden ==
    ASSUME TypeOK, NEW stage \in [Ids -> Stages], NEW own \in [Clients -> Ids \cup {NoId}],
           SafetyInv(stage, own), NEW t \in PoolThreads, CallbackDel(t)
    PROVE  HiddenStep(stage)
<1>0. PICK id : id = Current(t)
  OBVIOUS
<1>1. id \in Ids /\ stage[id] = "answer" /\ StageInv(Move(stage, {id}, "last"))'
  BY <1>0, CallbackDelStages DEF SafetyInv
<1>2. UNCHANGED aborted
  BY <1>0, <1>1, AnsweredAreHashed DEF SafetyInv
<1>3. QuietStep /\ UNCHANGED disk
  BY <1>2 DEF QuietStep, CallbackDel, poolOnly, netVars
<1>4. {id} \in SUBSET Ids /\ \A i \in {id} : stage[i] = "answer"
  BY <1>1
<1>. QED  BY <1>1, <1>3, <1>4, StageNames, UnseenSteps, SilentMove

\* Nor what AGIOS schedules.
LEMMA AgiosHidden ==
    ASSUME TypeOK, NEW stage \in [Ids -> Stages], NEW own \in [Clients -> Ids \cup {NoId}],
           SafetyInv(stage, own), Agios
    PROVE  HiddenStep(stage)
<1>1. QuietStep /\ UNCHANGED disk
  BY DEF QuietStep, Agios, AgiosCallback, AgiosCallbackAggregated, agiosOnly
<1>2. PICK X \in SUBSET Ids : /\ \A id \in X : stage[id] = "agios"
                              /\ StageInv(Move(stage, X, "ready"))'
  <2>1. ASSUME NEW id \in agios, AgiosCallback(id)
        PROVE  id \in Ids /\ stage[id] = "agios" /\ StageInv(Move(stage, {id}, "ready"))'
    BY <2>1, AgiosCallbackStages DEF SafetyInv
  <2>2. ASSUME NEW ids \in SUBSET agios, AgiosCallbackAggregated(ids)
        PROVE  /\ ids \subseteq Ids /\ \A id \in ids : stage[id] = "agios"
               /\ StageInv(Move(stage, ids, "ready"))'
    BY <2>2, AgiosAggregatedStages DEF SafetyInv
  <2>3. CASE \E id \in agios : AgiosCallback(id)
    <3>1. PICK id \in agios : AgiosCallback(id)
      BY <2>3
    <3>2. {id} \in SUBSET Ids /\ (\A i \in {id} : stage[i] = "agios") /\ StageInv(Move(stage, {id}, "ready"))'
      BY <2>1, <3>1
    <3>. QED  BY <3>2
  <2>4. CASE \E ids \in SUBSET agios : AgiosCallbackAggregated(ids)
    BY <2>2, <2>4
  <2>. QED  BY <2>3, <2>4 DEF Agios
<1>. QED  BY <1>1, <1>2, StageNames, UnseenSteps, SilentMove

\* Nor what the dispatcher does.
LEMMA DispatcherHidden ==
    ASSUME TypeOK, NEW stage \in [Ids -> Stages], NEW own \in [Clients -> Ids \cup {NoId}],
           SafetyInv(stage, own), Dispatcher
    PROVE  HiddenStep(stage)
<1>0. StageInv(stage)
  BY DEF SafetyInv
<1>1. UNCHANGED aborted
  BY <1>0, FoundAreHashed, BatchedAreHashed DEF Dispatcher, DispatcherPop, DispatcherSubmit
<1>2. QuietStep /\ UNCHANGED disk
  BY <1>1
  DEF QuietStep, Dispatcher, DispatcherPop, DispatcherFind, DispatcherBatch, DispatcherSubmit,
      dispatcherOnly
<1>3. CASE DispatcherPop
  <2>0. PICK id : id = Head(ready_queue)
    OBVIOUS
  <2>1. id \in Ids /\ stage[id] = "ready" /\ StageInv(Move(stage, {id}, "batch"))'
    BY <1>0, <1>3, <2>0, DispatcherPopStages
  <2>2. {id} \in SUBSET Ids /\ \A i \in {id} : stage[i] = "ready"
    BY <2>1
  <2>. QED  BY <1>2, <2>1, <2>2, StageNames, UnseenSteps, SilentMove
<1>4. CASE DispatcherFind
  <2>1. StageInv(stage)'
    BY <1>0, <1>4, DispatcherFindStages
  <2>2. Silent(stage, stage)
    BY DEF Silent, Alike
  <2>. QED  BY <1>2, <2>1, <2>2, SilentStep
<1>5. CASE DispatcherBatch
  <2>1. PICK X \in SUBSET {id \in Ids : stage[id] = "ready"} : StageInv(Move(stage, X, "batch"))'
    BY <1>0, <1>5, DispatcherBatchStages
  <2>2. X \in SUBSET Ids /\ \A i \in X : stage[i] = "ready"
    BY <2>1
  <2>. QED  BY <1>2, <2>1, <2>2, StageNames, UnseenSteps, SilentMove
<1>6. CASE DispatcherSubmit
  <2>0. PICK ids, X : ids = dispatcher.ids /\ X = Range(ids)
    OBVIOUS
  <2>1. X \in SUBSET Ids /\ \A id \in X : stage[id] = "batch"
    BY <1>0, <1>6, <2>0, DispatcherSubmitStages
  <2>2. StageInv(Move(stage, X, "dispatch"))'
    BY <1>0, <1>6, <2>0, DispatcherSubmitStages
  <2>. QED  BY <1>2, <2>1, <2>2, StageNames, UnseenSteps, SilentMove
<1>. QED  BY <1>3, <1>4, <1>5, <1>6 DEF Dispatcher

-----------------------------------------------------------------------------
(* The invariant is kept: steps of the clients, and those they notice. *)

\* A thread or queue that nobody touched holds what it held.
LEMMA StagesStay ==
    ASSUME NEW stage, StageInv(stage),
           UNCHANGED <<incoming_queue, handler, jobs, pool, agios, ready_queue, dispatcher, requests, fr>>
    PROVE  StageInv(stage)'
<1>0. UNCHANGED <<incoming_queue, handler, jobs, pool, agios, ready_queue, dispatcher, requests, fr>>
  OBVIOUS
<1>1. \A ids : IsBatch(ids)' <=> IsBatch(ids)
  BY <1>0 DEF IsBatch, Same
<1>2. \A fn, ids : IsJob(fn, ids)' <=> IsJob(fn, ids)
  BY <1>0, <1>1 DEF IsJob, HandleOf
<1>3. HandlersHold(stage)' /\ JobsHold(stage)' /\ PoolHold(stage)' /\ DispatcherHolds(stage)'
  BY <1>0, <1>1, <1>2
  DEF StageInv, HandlersHold, JobsHold, PoolHold, DispatcherHolds, QueueHolds
<1>. QED  BY <1>0, <1>3 DEF StageInv, QueueHolds

\* No step of a client makes it wait with an identifier it did not have.
LEMMA ClientTags ==
    ASSUME TypeOK, NEW stage, NEW own, NEW c \in Clients, ClientOK(c, stage, own), Client(c),
           NEW d \in Clients, NEW id \in Ids, Tagged(d, id, own)'
    PROVE  Tagged(d, id, own)
<1>1. CASE ClientSendData(c)
  <2>1. /\ pc[c] = "id" /\ phase[c] = "write" /\ ackMsgs[c] # <<>>
        /\ dataMsgs' = dataMsgs \cup {[to |-> "server", rank |-> c, tag |-> Head(ackMsgs[c]), data |-> c]}
    BY <1>1 DEF ClientSendData
  <2>2. Served(c, stage, own)
    BY <2>1 DEF ClientOK, Quiet, Asking, HasAnswer, GaveUp, Idle
  <2>3. ackMsgs[c] = <<own[c]>>
    BY <2>1, <2>2 DEF Served, ServedAs
  <2>4. Head(ackMsgs[c]) = own[c]
    BY <2>3
  <2>. QED  BY <2>1, <2>4 DEF Tagged
<1>2. CASE ~ClientSendData(c)
  <2>1. dataMsgs' \subseteq dataMsgs
    BY <1>2
    DEF Client, ClientOpen, ClientHandle, ClientStart, ClientIssue, ClientReadId, ClientWriteDone,
        ClientReadDone, ClientLoopEnd, ClientClose, ClientClosed, ClientNext, ClientShutdown, netVars
  <2>. QED  BY <2>1 DEF Tagged
<1>. QED  BY <1>1, <1>2

\* The steps of the clients keep the invariant.
LEMMA ClientKeeps ==
    ASSUME TypeOK, Running, NEW stage \in [Ids -> Stages], NEW own \in [Clients -> Ids \cup {NoId}],
           SafetyInv(stage, own), NEW c \in Clients, Client(c)
    PROVE  IInv'
<1>1. /\ StageInv(stage) /\ OwnInv(stage, own) /\ ClientInv(stage, own) /\ BarrierInv /\ AgeInv(own)
      /\ FileInv(stage, own) /\ DataInv(stage, own) /\ ShutdownInv
  BY DEF SafetyInv
<1>2. StageInv(stage)'
  BY <1>1, StagesStay, ClientLeaves DEF serverVars, ioVars
<1>3. OwnInv(stage, own)'
  BY <1>1, ClientLeaves DEF OwnInv, serverVars
<1>4. ClientInv(stage, own)'
  BY <1>1, ClientClients
<1>5. BarrierInv'
  BY <1>1, ClientBarriers
<1>6. AgeInv(own)'
  <2>1. \A d \in Clients, id \in Ids : Tagged(d, id, own)' => Tagged(d, id, own)
    BY <1>1, ClientTags DEF ClientInv
  <2>. QED  BY <1>1, <1>4, <2>1, ClientAges
<1>7. FileInv(stage, own)' /\ DataInv(stage, own)' /\ ShutdownInv'
  BY <1>1, ClientFiles, ClientData, ClientShutdowns
<1>8. aborted' \in {"no", "ERROR_VALIDATION_FAILED"}
  BY DEF Running, Client, ClientOpen, ClientHandle, ClientStart, ClientIssue, ClientSendData,
         ClientReadId, ClientWriteDone, ClientReadDone, ClientLoopEnd, ClientClose, ClientClosed,
         ClientNext, ClientShutdown
<1>9. SafetyInv(stage, own)'
  BY <1>2, <1>3, <1>4, <1>5, <1>6, <1>7, <1>8 DEF SafetyInv
<1>. QED  BY <1>9, Kept DEF IsHistory

\* The parts of the invariant, for a step of the server that changes no barrier.
LEMMA ServerStep ==
    ASSUME NEW stage, NEW own, SafetyInv(stage, own), UNCHANGED clientVars, UNCHANGED aborted,
           NEW next, NEW nown, IsHistory(next, nown),
           StageInv(next)', OwnInv(next, nown)', ClientInv(next, nown)', AgeInv(nown)',
           FileInv(next, nown)', DataInv(next, nown)', ShutdownInv'
    PROVE  IInv'
<1>1. BarrierInv'
  BY ServerBarriers DEF SafetyInv
<1>2. aborted' \in {"no", "ERROR_VALIDATION_FAILED"}
  BY DEF SafetyInv
<1>3. SafetyInv(next, nown)'
  BY <1>1, <1>2 DEF SafetyInv
<1>. QED  BY <1>3, Kept

\* The histories after one request has moved.
LEMMA HistoryType ==
    ASSUME NEW stage \in [Ids -> Stages], NEW own \in [Clients -> Ids \cup {NoId}],
           NEW id \in Ids, NEW to \in Stages, NEW c, NEW i \in Ids \cup {NoId}
    PROVE  /\ IsHistory(Move(stage, {id}, to), [own EXCEPT ![c] = i])
           /\ IsHistory(Move(stage, {id}, to), own)
<1>1. Move(stage, {id}, to) \in [Ids -> Stages]
  BY DEF Move
<1>. QED  BY <1>1 DEF IsHistory

\* The listener keeps the invariant when it takes a request.
LEMMA ListenerRequestKeeps ==
    ASSUME TypeOK, Running, IdsSuffice,
           NEW stage \in [Ids -> Stages], NEW own \in [Clients -> Ids \cup {NoId}],
           SafetyInv(stage, own), NEW c \in Clients, ListenerRequest(c)
    PROVE  IInv'
<1>1. /\ StageInv(stage) /\ OwnInv(stage, own) /\ ClientInv(stage, own) /\ BarrierInv /\ AgeInv(own)
      /\ FileInv(stage, own) /\ DataInv(stage, own) /\ ShutdownInv
  BY DEF SafetyInv
<1>2. PICK id : id = global_id'
  OBVIOUS
<1>3. pc[c] # "done" /\ Asking(c, own) /\ id \in Ids /\ stage[id] = "free"
  BY <1>1, <1>2, NextIdStage
<1>4. PICK next, nown : next = Move(stage, {id}, "incoming") /\ nown = [own EXCEPT ![c] = id]
  OBVIOUS
<1>5. IsHistory(next, nown)
  BY <1>3, <1>4, StageNames, HistoryType
<1>6. StageInv(next)'
  BY <1>1, <1>2, <1>3, <1>4, ListenerRequestStages
<1>7. OwnInv(next, nown)' /\ ClientInv(next, nown)'
  BY <1>1, <1>2, <1>3, <1>4, ListenerRequestClients
<1>8. AgeInv(nown)'
  <2>1. \A d \in Clients : nown[d] = IF d = c THEN id ELSE own[d]
    BY <1>4
  <2>. QED  BY <1>1, <1>2, <1>3, <2>1, ListenerAges
<1>9. FileInv(next, nown)' /\ DataInv(next, nown)'
  BY <1>1, <1>2, <1>3, <1>4, ListenerRequestFiles, ListenerRequestData
<1>10. ShutdownInv'
  BY <1>1, <1>3, ListenerRequestShutdowns
<1>11. UNCHANGED clientVars /\ UNCHANGED aborted
  BY DEF ListenerRequest
<1>. QED  BY <1>5, <1>6, <1>7, <1>8, <1>9, <1>10, <1>11, ServerStep

\* The listener keeps it when it takes a shutdown message.
LEMMA ListenerShutdownKeeps ==
    ASSUME TypeOK, Running, NEW stage \in [Ids -> Stages], NEW own \in [Clients -> Ids \cup {NoId}],
           SafetyInv(stage, own), NEW c \in Clients, ListenerShutdown(c)
    PROVE  IInv'
<1>1. /\ StageInv(stage) /\ OwnInv(stage, own) /\ ClientInv(stage, own) /\ BarrierInv /\ AgeInv(own)
      /\ FileInv(stage, own) /\ DataInv(stage, own) /\ ShutdownInv
  BY DEF SafetyInv
<1>2. /\ pc[c] = "done" /\ requestMsgs[c] # <<>> /\ requestMsgs'[c] = <<>>
      /\ OwnInv(stage, own)' /\ ClientInv(stage, own)'
  BY <1>1, ListenerShutdownClients
<1>3. StageInv(stage)'
  BY <1>1, StagesStay DEF ListenerShutdown, ioVars
<1>4. AgeInv(own)' /\ FileInv(stage, own)' /\ ShutdownInv'
  BY <1>1, <1>2, ListenerShutdownAges, ListenerShutdownFiles, ListenerShutdownShutdowns
<1>5. UNCHANGED clientVars /\ UNCHANGED aborted /\ UNCHANGED <<clientVars, disk, fr, dataMsgs>>
  BY DEF ListenerShutdown
<1>6. DataInv(stage, own)'
  <2>1. \A d \in Clients : own[d] \in Ids \cup {NoId}
    OBVIOUS
  <2>. QED  BY <1>1, <1>5, <2>1, SameRequestsData
<1>. QED  BY <1>2, <1>3, <1>4, <1>5, <1>6, ServerStep DEF IsHistory

-----------------------------------------------------------------------------
(* The invariant is kept: the steps of the server that a client notices. *)

\* A handler keeps the invariant when it opens or closes a file.
LEMMA HandlerOpenKeeps ==
    ASSUME TypeOK, Running, NEW stage \in [Ids -> Stages], NEW own \in [Clients -> Ids \cup {NoId}],
           SafetyInv(stage, own), NEW h \in Handlers, HandlerOpen(h) \/ HandlerClose(h)
    PROVE  IInv'
<1>1. /\ StageInv(stage) /\ OwnInv(stage, own) /\ ClientInv(stage, own) /\ BarrierInv /\ AgeInv(own)
      /\ FileInv(stage, own) /\ DataInv(stage, own) /\ ShutdownInv
  BY DEF SafetyInv
<1>2. PICK id, next : id = handler[h].id /\ next = Move(stage, {id}, "reply")
  OBVIOUS
<1>3. id \in Ids /\ stage[id] = "got" /\ StageInv(next)'
  BY <1>1, <1>2, HandlerOpenStages
<1>4. IsHistory(next, own)
  BY <1>2, <1>3, StageNames, HistoryType
<1>5. OwnInv(next, own)' /\ ClientInv(next, own)'
  BY <1>1, <1>2, <1>3, HandlerOpenClients
<1>6. FileInv(next, own)' /\ UNCHANGED aborted
  <2>1. CASE HandlerOpen(h)
    BY <1>1, <1>2, <1>3, <2>1, HandlerOpenFiles DEF HandlerOpen
  <2>2. CASE HandlerClose(h)
    BY <1>1, <1>2, <1>3, <2>2, HandlerCloseFiles
  <2>. QED  BY <2>1, <2>2
<1>7. /\ UNCHANGED clientVars /\ UNCHANGED <<clientVars, disk, fr, dataMsgs>>
      /\ UNCHANGED <<clientVars, requestMsgs, global_id>>
      /\ UNCHANGED <<clientVars, requestMsgs, shutdown, shutdown_control>>
  BY DEF HandlerOpen, HandlerClose, handlerOnly
<1>8. DataInv(next, own)'
  <2>1. \A i \in Ids : /\ stage[i] \in Transferred <=> next[i] \in Transferred
                       /\ stage[i] \in Buffered <=> next[i] \in Buffered
    BY <1>2, <1>3 DEF Move, Transferred, Buffered, Hashed
  <2>2. \A d \in Clients : own[d] \in Ids \cup {NoId}
    OBVIOUS
  <2>. QED  BY <1>1, <1>7, <2>1, <2>2, SameRequestsData
<1>9. AgeInv(own)' /\ ShutdownInv'
  <2>1. \A d \in Clients, i \in Ids : Tagged(d, i, own)' => Tagged(d, i, own)
    BY <1>7 DEF Tagged
  <2>. QED  BY <1>1, <1>7, <2>1, ServerAges, ServerShutdowns
<1>. QED  BY <1>3, <1>4, <1>5, <1>6, <1>7, <1>8, <1>9, ServerStep

\* A handler keeps it when it answers.
LEMMA HandlerAnswerKeeps ==
    ASSUME TypeOK, Running, NEW stage \in [Ids -> Stages], NEW own \in [Clients -> Ids \cup {NoId}],
           SafetyInv(stage, own), NEW h \in Handlers, HandlerSendHandle(h) \/ HandlerAckClose(h)
    PROVE  IInv'
<1>1. /\ StageInv(stage) /\ OwnInv(stage, own) /\ ClientInv(stage, own) /\ BarrierInv /\ AgeInv(own)
      /\ FileInv(stage, own) /\ DataInv(stage, own) /\ ShutdownInv
  BY DEF SafetyInv
<1>2. PICK id, next, c, nown : /\ id = handler[h].id /\ next = Move(stage, {id}, "free")
                               /\ c = fr[id].rank /\ nown = [own EXCEPT ![fr[id].rank] = NoId]
  OBVIOUS
<1>3. id \in Ids /\ stage[id] = "reply" /\ StageInv(next)'
  BY <1>1, <1>2, HandlerAnswerStages
<1>4. IsHistory(next, nown)
  BY <1>2, <1>3, StageNames, HistoryType
<1>5. OwnInv(next, nown)' /\ ClientInv(next, nown)'
  BY <1>1, <1>2, <1>3, HandlerAnswerClients
<1>6. FileInv(next, nown)' /\ DataInv(next, nown)'
  BY <1>1, <1>2, <1>3, HandlerAnswerFiles, HandlerAnswerData
<1>7. /\ UNCHANGED clientVars /\ UNCHANGED <<aborted, dataMsgs>>
      /\ UNCHANGED <<clientVars, requestMsgs, global_id>>
      /\ UNCHANGED <<clientVars, requestMsgs, shutdown, shutdown_control>>
  BY DEF HandlerSendHandle, HandlerAckClose, handlerOnly
<1>8. AgeInv(nown)' /\ ShutdownInv'
  <2>1. c \in Clients /\ own[c] = id
    BY <1>1, <1>2, <1>3, RequestOf
  <2>2. nown[c] \in {id, NoId} /\ OtherOwners(own, nown, c)
    BY <1>2, <2>1 DEF OtherOwners
  <2>3. \A d \in Clients, i \in Ids : Tagged(d, i, nown)' => Tagged(d, i, own)
    BY <1>7, <2>1, <2>2, TagsOfServer
  <2>. QED  BY <1>1, <1>7, <2>3, ServerAges, ServerShutdowns
<1>. QED  BY <1>3, <1>4, <1>5, <1>6, <1>7, <1>8, ServerStep

\* No client sees a handler hand a request to the thread pool.
LEMMA HandlerDelegateHidden ==
    ASSUME TypeOK, NEW stage \in [Ids -> Stages], NEW own \in [Clients -> Ids \cup {NoId}],
           SafetyInv(stage, own), NEW h \in Handlers, HandlerDelegate(h)
    PROVE  HiddenStep(stage)
<1>1. PICK id, next : id = handler[h].id /\ next = Move(stage, {id}, "handle")
  OBVIOUS
<1>2. id \in Ids /\ stage[id] = "got" /\ StageInv(next)'
  BY <1>1, HandlerDelegateStages DEF SafetyInv
<1>3. fr[id].operation \in {"read", "write"} /\ QuietStep /\ UNCHANGED disk
  BY <1>1 DEF HandlerDelegate, frOf, handlerOnly, QuietStep, netVars
<1>4. next \in [Ids -> Stages] /\ \A i \in Ids : next[i] = IF i = id THEN "handle" ELSE stage[i]
  BY <1>1, StageNames DEF Move
<1>5. Silent(stage, next)
  BY <1>2, <1>3, <1>4 DEF Silent, Alike, Unacked, Arriving, Buffered, Hashed
<1>6. \A i \in Ids : stage[i] \in Transferred <=> next[i] \in Transferred
  BY <1>2, <1>4 DEF Transferred
<1>. QED  BY <1>2, <1>3, <1>4, <1>5, <1>6, SilentStep

\* What all steps of a pool thread leave alone.
LEMMA PoolLeavesClients ==
    ASSUME UNCHANGED <<poolOnly>>
    PROVE  /\ UNCHANGED clientVars /\ UNCHANGED <<clientVars, requestMsgs, global_id>>
           /\ UNCHANGED <<clientVars, requestMsgs, shutdown, shutdown_control>>
           /\ UNCHANGED <<clientVars, requestMsgs, handleMsgs, opened_files, pvfs_fh_id>>
BY DEF poolOnly

\* A request that goes on without an answer, with what it has of its client.
LEMMA RequestStep ==
    ASSUME TypeOK, Running, NEW stage \in [Ids -> Stages], NEW own \in [Clients -> Ids \cup {NoId}],
           SafetyInv(stage, own), UNCHANGED <<poolOnly>>, UNCHANGED aborted,
           NEW id \in Ids, stage[id] \notin {"free", "reply"}, NEW to \in Stages, to # "reply",
           NEW next, next = Move(stage, {id}, to),
           StageInv(next)', OwnInv(next, own)', ClientInv(next, own)', DataInv(next, own)',
           dataMsgs' \subseteq dataMsgs
    PROVE  IInv'
<1>1. /\ ClientInv(stage, own) /\ AgeInv(own) /\ FileInv(stage, own) /\ ShutdownInv
  BY DEF SafetyInv
<1>2. IsHistory(next, own)
  BY HistoryType
<1>3. OtherStages(stage, next, id) /\ next[id] = to
  BY DEF OtherStages, Move
<1>4. FileInv(next, own)'
  <2>1. \A c \in Clients : own[c] \in Ids \cup {NoId}
    OBVIOUS
  <2>. QED  BY <1>1, <1>3, <2>1, PoolLeavesClients, GoesOnFiles
<1>5. AgeInv(own)' /\ ShutdownInv'
  <2>1. \A d \in Clients, i \in Ids : Tagged(d, i, own)' => Tagged(d, i, own)
    BY DEF Tagged
  <2>. QED  BY <1>1, <2>1, PoolLeavesClients, ServerAges, ServerShutdowns
<1>. QED  BY <1>2, <1>4, <1>5, PoolLeavesClients, ServerStep

\* handle_read and the acknowledgement of handle_write keep the invariant.
LEMMA HandleAckKeeps ==
    ASSUME TypeOK, Running, NEW stage \in [Ids -> Stages], NEW own \in [Clients -> Ids \cup {NoId}],
           SafetyInv(stage, own), NEW t \in PoolThreads, HandleAck(t)
    PROVE  IInv'
<1>1. /\ StageInv(stage) /\ OwnInv(stage, own) /\ ClientInv(stage, own) /\ DataInv(stage, own)
  BY DEF SafetyInv
<1>2. PICK id, to, next : id = Current(t) /\ to = AfterAck(HandleOf(id)) /\ next = Move(stage, {id}, to)
  OBVIOUS
<1>3. /\ id \in Ids /\ stage[id] = "begin" /\ to \in {"wait", "hash"}
      /\ to = (IF fr[id].operation = "write" THEN "wait" ELSE "hash")
      /\ StageInv(next)'
  BY <1>1, <1>2, HandleAckStages
<1>4. OwnInv(next, own)' /\ ClientInv(next, own)' /\ DataInv(next, own)'
  BY <1>1, <1>2, <1>3, HandleAckClients, HandleAckData
<1>5. UNCHANGED <<poolOnly>> /\ UNCHANGED aborted /\ dataMsgs' \subseteq dataMsgs
  BY DEF HandleAck
<1>6. to \in Stages /\ to # "reply"
  BY <1>3, StageNames
<1>. QED  BY <1>2, <1>3, <1>4, <1>5, <1>6, RequestStep

\* The data that handle_write receives keep it.
LEMMA HandleWriteWaitKeeps ==
    ASSUME TypeOK, Running, NEW stage \in [Ids -> Stages], NEW own \in [Clients -> Ids \cup {NoId}],
           SafetyInv(stage, own), NEW t \in PoolThreads, HandleWriteWait(t)
    PROVE  IInv'
<1>1. /\ StageInv(stage) /\ OwnInv(stage, own) /\ ClientInv(stage, own) /\ DataInv(stage, own)
  BY DEF SafetyInv
<1>2. PICK id, next : id = Current(t) /\ next = Move(stage, {id}, "hash")
  OBVIOUS
<1>3. id \in Ids /\ stage[id] = "wait" /\ StageInv(next)'
  BY <1>1, <1>2, HandleWriteWaitStages
<1>4. OwnInv(next, own)' /\ ClientInv(next, own)' /\ fr'[id].operation = "write"
  BY <1>1, <1>2, <1>3, HandleWriteWaitClients
<1>5. DataInv(next, own)'
  BY <1>1, <1>2, <1>3, <1>4, HandleWriteWaitData
<1>6. UNCHANGED <<poolOnly>> /\ UNCHANGED aborted /\ dataMsgs' \subseteq dataMsgs
  BY DEF HandleWriteWait
<1>. QED  BY <1>2, <1>3, <1>4, <1>5, <1>6, StageNames, RequestStep

\* Each write to a file keeps it.
LEMMA DispatchWriteKeeps ==
    ASSUME TypeOK, Running, NEW stage \in [Ids -> Stages], NEW own \in [Clients -> Ids \cup {NoId}],
           SafetyInv(stage, own), NEW t \in PoolThreads, DispatchWrite(t)
    PROVE  IInv'
<1>1. /\ StageInv(stage) /\ OwnInv(stage, own) /\ ClientInv(stage, own) /\ FileInv(stage, own)
      /\ DataInv(stage, own)
  BY DEF SafetyInv
<1>2. PICK id, next : id = Current(t) /\ next = Move(stage, {id}, "transferred")
  OBVIOUS
<1>3. id \in Ids /\ stage[id] = "transfer" /\ StageInv(next)'
  BY <1>1, <1>2, DispatchStages
<1>4. /\ UNCHANGED <<poolOnly>> /\ UNCHANGED aborted /\ dataMsgs' \subseteq dataMsgs
      /\ UNCHANGED fr /\ UNCHANGED <<clientVars, netVars, fr, aborted>>
  BY DEF DispatchWrite, poolOnly, netVars
<1>5. Silent(stage, next)
  <2>1. \A i \in Ids : next[i] = IF i = id THEN "transferred" ELSE stage[i]
    BY <1>2 DEF Move
  <2>. QED  BY <1>3, <2>1 DEF Silent, Alike, Arriving, Unacked, Buffered, Hashed
<1>6. OwnInv(next, own)' /\ ClientInv(next, own)'
  <2>1. \A c \in Clients : ClientOK(c, next, own)'
    BY <1>1, <1>4, <1>5, SilentClients
  <2>2. OwnInv(next, own)'
    BY <1>1, <1>4, <1>5, SilentRequests
  <2>. QED  BY <2>1, <2>2 DEF ClientInv
<1>7. DataInv(next, own)'
  BY <1>1, <1>2, <1>3, DispatchWriteData
<1>. QED  BY <1>2, <1>3, <1>4, <1>6, <1>7, StageNames, RequestStep

\* Each read from a file keeps it.
LEMMA DispatchReadKeeps ==
    ASSUME TypeOK, Running, NEW stage \in [Ids -> Stages], NEW own \in [Clients -> Ids \cup {NoId}],
           SafetyInv(stage, own), NEW t \in PoolThreads, DispatchRead(t)
    PROVE  IInv'
<1>1. /\ StageInv(stage) /\ OwnInv(stage, own) /\ ClientInv(stage, own) /\ FileInv(stage, own)
      /\ DataInv(stage, own)
  BY DEF SafetyInv
<1>2. PICK id, next : id = Current(t) /\ next = Move(stage, {id}, "transferred")
  OBVIOUS
<1>3. id \in Ids /\ stage[id] = "transfer" /\ StageInv(next)'
  BY <1>1, <1>2, DispatchStages
<1>4. /\ UNCHANGED <<poolOnly>> /\ UNCHANGED aborted /\ dataMsgs' \subseteq dataMsgs
      /\ fr[id].operation = "read" /\ UNCHANGED <<clientVars, requestMsgs, handleMsgs, ackMsgs, dataMsgs>>
  BY <1>2 DEF DispatchRead, poolOnly
<1>5. OwnInv(next, own)' /\ ClientInv(next, own)'
  <2>1. PICK b : fr' = [fr EXCEPT ![id].buffer = b]
    BY <1>1, <1>2, <1>3, ReadFinds
  <2>. QED  BY <1>1, <1>2, <1>3, <1>4, <2>1, DispatchReadClients
<1>6. DataInv(next, own)'
  BY <1>1, <1>2, <1>3, DispatchReadData
<1>. QED  BY <1>2, <1>3, <1>4, <1>5, <1>6, StageNames, RequestStep

\* Each answer of a callback keeps it.
LEMMA CallbackReplyKeeps ==
    ASSUME TypeOK, Running, NEW stage \in [Ids -> Stages], NEW own \in [Clients -> Ids \cup {NoId}],
           SafetyInv(stage, own), NEW t \in PoolThreads, CallbackReply(t)
    PROVE  IInv'
<1>1. /\ StageInv(stage) /\ OwnInv(stage, own) /\ ClientInv(stage, own) /\ BarrierInv /\ AgeInv(own)
      /\ FileInv(stage, own) /\ DataInv(stage, own) /\ ShutdownInv
  BY DEF SafetyInv
<1>2. PICK id, next, c, nown : /\ id = Current(t) /\ next = Move(stage, {id}, "free")
                               /\ c = fr[id].rank /\ nown = [own EXCEPT ![fr[id].rank] = NoId]
  OBVIOUS
<1>3. id \in Ids /\ stage[id] = "last" /\ StageInv(next)'
  BY <1>1, <1>2, CallbackReplyStages
<1>4. IsHistory(next, nown)
  BY <1>2, <1>3, StageNames, HistoryType
<1>5. OwnInv(next, nown)' /\ ClientInv(next, nown)'
  BY <1>1, <1>2, <1>3, CallbackReplyClients
<1>6. FileInv(next, nown)' /\ DataInv(next, nown)'
  BY <1>1, <1>2, <1>3, CallbackReplyFiles, CallbackReplyData
<1>7. UNCHANGED <<poolOnly>> /\ UNCHANGED aborted
  BY DEF CallbackReply
<1>8. AgeInv(nown)' /\ ShutdownInv'
  <2>1. c \in Clients /\ own[c] = id
    BY <1>1, <1>2, <1>3, RequestOf
  <2>2. nown[c] \in {id, NoId} /\ OtherOwners(own, nown, c)
    BY <1>2, <2>1 DEF OtherOwners
  <2>3. \A m \in dataMsgs' : m \in dataMsgs \/ (m.rank = c /\ m.tag = id)
    BY <1>2 DEF CallbackReply, Answered
  <2>4. \A d \in Clients, i \in Ids : Tagged(d, i, nown)' => Tagged(d, i, own)
    BY <2>1, <2>2, <2>3, TagsOfServer
  <2>. QED  BY <1>1, <1>7, <2>4, PoolLeavesClients, ServerAges, ServerShutdowns
<1>. QED  BY <1>3, <1>4, <1>5, <1>6, <1>7, <1>8, PoolLeavesClients, ServerStep

\* The steps that only the server sees.
HiddenOfPool(t) == \/ PoolPull(t) \/ HandleHash(t) \/ HandleAgios(t)
                   \/ DispatchSort(t) \/ DispatchDone(t) \/ CallbackDel(t)
HiddenAction == \/ \E t \in PoolThreads : HiddenOfPool(t)
                \/ \E h \in Handlers : HandlerPop(h) \/ HandlerDelegate(h)
                \/ Agios \/ Dispatcher \/ UNCHANGED vars

\* When nothing happens, nobody sees it.
LEMMA StutterHidden ==
    ASSUME NEW stage \in [Ids -> Stages], StageInv(stage), UNCHANGED vars PROVE HiddenStep(stage)
<1>1. QuietStep /\ UNCHANGED disk
  BY DEF vars, QuietStep, clientVars, netVars
<1>2. StageInv(stage)'
  BY StagesStay DEF vars, ioVars
<1>3. Silent(stage, stage)
  BY DEF Silent, Alike
<1>. QED  BY <1>1, <1>2, <1>3, SilentStep

\* Each of the hidden actions is a hidden step.
LEMMA ServerHides ==
    ASSUME TypeOK, NEW stage \in [Ids -> Stages], NEW own \in [Clients -> Ids \cup {NoId}],
           SafetyInv(stage, own), HiddenAction
    PROVE  HiddenStep(stage)
<1>1. ASSUME NEW t \in PoolThreads, HiddenOfPool(t) PROVE HiddenStep(stage)
  BY <1>1, PoolPullHidden, HandleHashHidden, HandleAgiosHidden, DispatchSortHidden,
     DispatchDoneHidden, CallbackDelHidden DEF HiddenOfPool
<1>2. ASSUME NEW h \in Handlers, HandlerPop(h) \/ HandlerDelegate(h) PROVE HiddenStep(stage)
  BY <1>2, HandlerPopHidden, HandlerDelegateHidden
<1>3. CASE Agios \/ Dispatcher
  BY <1>3, AgiosHidden, DispatcherHidden
<1>4. CASE UNCHANGED vars
  BY <1>4, StutterHidden DEF SafetyInv
<1>. QED  BY <1>1, <1>2, <1>3, <1>4 DEF HiddenAction

\* The steps of the thread pool keep the invariant.
LEMMA PoolKeeps ==
    ASSUME TypeOK, Running, NEW stage \in [Ids -> Stages], NEW own \in [Clients -> Ids \cup {NoId}],
           SafetyInv(stage, own), NEW t \in PoolThreads, Pool(t)
    PROVE  IInv'
<1>1. CASE HiddenOfPool(t)
  BY <1>1, ServerHides, HiddenKeeps DEF HiddenAction
<1>2. CASE ~HiddenOfPool(t)
  BY <1>2, HandleAckKeeps, HandleWriteWaitKeeps, DispatchWriteKeeps, DispatchReadKeeps,
     CallbackReplyKeeps DEF Pool, HiddenOfPool
<1>. QED  BY <1>1, <1>2

\* The steps of the handlers keep the invariant.
LEMMA HandlerKeeps ==
    ASSUME TypeOK, Running, NEW stage \in [Ids -> Stages], NEW own \in [Clients -> Ids \cup {NoId}],
           SafetyInv(stage, own), NEW h \in Handlers, Handler(h)
    PROVE  IInv'
<1>1. CASE HandlerPop(h) \/ HandlerDelegate(h)
  BY <1>1, ServerHides, HiddenKeeps DEF HiddenAction
<1>2. CASE ~(HandlerPop(h) \/ HandlerDelegate(h))
  BY <1>2, HandlerOpenKeeps, HandlerAnswerKeeps DEF Handler
<1>. QED  BY <1>1, <1>2

\* Every step of the program keeps the invariant.
LEMMA NextKeeps ==
    ASSUME IdsSuffice, TypeOK, IInv, [Next]_vars PROVE IInv'
<1>1. PICK stage \in [Ids -> Stages], own \in [Clients -> Ids \cup {NoId}] : SafetyInv(stage, own)
  BY DEF IInv
<1>2. CASE UNCHANGED vars \/ Finished \/ Agios \/ Dispatcher
  <2>1. HiddenAction
    BY <1>2 DEF HiddenAction, Finished
  <2>. QED  BY <1>1, <2>1, ServerHides, HiddenKeeps
<1>3. ASSUME Running, NEW c \in Clients, Client(c) PROVE IInv'
  BY <1>1, <1>3, ClientKeeps
<1>5. ASSUME Running, Listener PROVE IInv'
  BY <1>1, <1>5, ListenerRequestKeeps, ListenerShutdownKeeps DEF Listener
<1>6. ASSUME Running, NEW h \in Handlers, Handler(h) PROVE IInv'
  BY <1>1, <1>6, HandlerKeeps
<1>7. ASSUME Running, NEW t \in PoolThreads, Pool(t) PROVE IInv'
  BY <1>1, <1>7, PoolKeeps
<1>. QED  BY <1>2, <1>3, <1>5, <1>6, <1>7 DEF Next

\* The program starts in the invariant.
LEMMA InitKeeps == Init => IInv
<1>. SUFFICES ASSUME Init PROVE IInv
  OBVIOUS
<1>1. PICK stage, own : stage = [id \in Ids |-> "free"] /\ own = [c \in Clients |-> NoId]
  OBVIOUS
<1>2. /\ stage \in [Ids -> Stages] /\ own \in [Clients -> Ids \cup {NoId}]
      /\ (\A id \in Ids : stage[id] = "free") /\ (\A c \in Clients : own[c] = NoId)
  BY <1>1, StageNames
<1>3. IsInjective(<<>>) /\ Range(<<>>) = {} /\ Len(<<>>) = 0 /\ DOMAIN <<>> = {}
  BY DEF IsInjective, Range
<1>4. StageInv(stage)
  <2>1. \A s : s # "free" => QueueHolds(<<>>, s, stage)
    BY <1>2, <1>3 DEF QueueHolds
  <2>2. HandlersHold(stage)
    BY <1>2 DEF Init, HandlersHold, IdleHandler
  <2>3. JobsHold(stage)
    BY <1>2, <1>3 DEF Init, JobsHold
  <2>4. PoolHold(stage)
    <3>1. \A t \in PoolThreads : pool[t] = IdleThread /\ Unanswered(pool[t]) = {}
      BY IdleHolds DEF Init
    <3>. QED  BY <1>2, <3>1 DEF PoolHold, PoolStages, IdleThread
  <2>5. DispatcherHolds(stage)
    BY <1>3, <2>1, SizesAssumption DEF Init, DispatcherHolds, IdleDispatcher, IsBatch
  <2>6. agios = {id \in Ids : stage[id] = "agios"} /\ requests = {id \in Ids : stage[id] \in Hashed}
    BY <1>2 DEF Init, Hashed
  <2>. QED  BY <2>1, <2>2, <2>3, <2>4, <2>5, <2>6 DEF Init, StageInv
<1>5. OwnInv(stage, own)
  BY <1>2 DEF Init, OwnInv
<1>6. ClientInv(stage, own)
  BY <1>2 DEF Init, ClientInv, ClientOK, Quiet, Mail, Idle
<1>7. BarrierInv
  <2>1. FirstPhase \in Phases /\ (FirstPhase = "read" => "write" \notin Phases)
    <3>1. Phases \subseteq {"write", "read"} /\ Phases # {}
      BY LayoutAssumption
    <3>2. CASE "write" \in Phases
      BY <3>2 DEF FirstPhase
    <3>3. CASE "write" \notin Phases
      <4>1. FirstPhase = "read"
        BY <3>3 DEF FirstPhase
      <4>. QED  BY <3>1, <3>3, <4>1
    <3>. QED  BY <3>2, <3>3
  <2>2. ASSUME NEW c \in Clients PROVE pc[c] = "open" /\ phase[c] = FirstPhase /\ barrier[c] = 0
    BY DEF Init
  <2>3. ASSUME NEW c \in Clients PROVE BarriersIn(c) = 0 /\ Passed(c) = 0
    <3>1. pc[c] = "open" /\ barrier[c] = 0 /\ (phase[c] = "read" => "write" \notin Phases)
      BY <2>1, <2>2
    <3>2. BarriersIn(c) = 0
      BY <3>1 DEF BarriersIn, Inside
    <3>3. Passed(c) = 0
      BY <3>1 DEF Passed
    <3>. QED  BY <3>2, <3>3
  <2>. QED  BY <2>1, <2>2, <2>3 DEF BarrierInv
<1>8. AgeInv(own)
  BY <1>2, MarkersApart DEF Init, AgeInv, Tagged
<1>9. FileInv(stage, own)
  <2>1. \A c \in Clients : ~Open(c, stage, own)
    BY DEF Init, Open, Inside
  <2>2. \A f \in Files : Cardinality(Openers(f, stage, own)) = 0
    <3>1. \A f : Openers(f, stage, own) = {}
      BY <2>1 DEF Openers
    <3>. QED  BY <3>1, FS_EmptySet
  <2>3. OpenFiles = {}
    BY DEF Init, OpenFiles, NotOpened
  <2>4. FilesCounted(stage, own) /\ Descriptors /\ LatestHandles
    BY <2>2, <2>3 DEF Init, FilesCounted, Descriptors, LatestHandles, NotOpened
  <2>5. \A c \in Clients : HandleKnown(c)
    BY DEF Init, HandleKnown, Inside
  <2>. QED  BY <2>4, <2>5 DEF FileInv
<1>10. DataInv(stage, own)
  <2>1. DiskInv
    <3>1. ASSUME NEW c \in Clients, NEW i \in 0..(NRequests - 1)
          PROVE  disk[FileOf(Layout, c)][BlockOf(c, i)] = Nobody
      <4>1. FileOf(Layout, c) \in Files /\ BlockOf(c, i) \in Blocks
        BY FileType, BlockType, SizesAssumption
      <4>. QED  BY <4>1 DEF Init
    <3>. QED  BY <3>1 DEF DiskInv
  <2>2. \A c \in Clients : WritesDone(c, stage, own)
    <3>1. 0..(0 - 1) = {}
      OBVIOUS
    <3>2. Phases = {"write", "read"} => FirstPhase = "write"
      BY DEF FirstPhase
    <3>. QED  BY <3>1, <3>2 DEF Init, WritesDone
  <2>3. \A c \in Clients : AllIssued(c) /\ BufferOK(c, stage, own)
    BY <1>2 DEF Init, AllIssued, BufferOK
  <2>4. \A m \in dataMsgs : DataOK(m)
    BY DEF Init
  <2>. QED  BY <2>1, <2>2, <2>3, <2>4 DEF DataInv
<1>11. ShutdownInv
  <2>1. Gone = {}
    BY DEF Init, Gone
  <2>. QED  BY <2>1, FS_EmptySet DEF Init, ShutdownInv
<1>12. SafetyInv(stage, own)
  BY <1>4, <1>5, <1>6, <1>7, <1>8, <1>9, <1>10, <1>11 DEF Init, SafetyInv
<1>. QED  BY <1>2, <1>12 DEF IInv

\* IInv always holds: the server has each request at exactly one stage, for
\* the client that waits for it, with the bytes of that client.
THEOREM Inductive == ASSUME IdsSuffice PROVE Spec => []IInv
<1>1. Init => IInv
  BY InitKeeps
<1>2. TypeOK /\ IInv /\ [Next]_vars => IInv'
  BY NextKeeps
<1>. QED  BY <1>1, <1>2, TypeCorrect, PTL DEF Spec

-----------------------------------------------------------------------------
(* What the invariant says of the system. *)

\* What the invariant says of the handles of the clients.
LEMMA InvariantHandles == TypeOK /\ IInv => HandlesStayOpen
<1>. SUFFICES ASSUME TypeOK, IInv PROVE HandlesStayOpen
  OBVIOUS
<1>1. PICK stage \in [Ids -> Stages], own \in [Clients -> Ids \cup {NoId}] : SafetyInv(stage, own)
  BY DEF IInv
<1>2. ASSUME NEW id \in Ids, fr[id].operation \in {"read", "write"}
      PROVE  /\ opened_files[FileOf(Layout, fr[id].rank)].references > 0
             /\ opened_files[FileOf(Layout, fr[id].rank)].fh = fr[id].file_handle
  <2>1. stage[id] # "free"
    BY <1>1, <1>2 DEF SafetyInv, OwnInv, NoRequest
  <2>2. Transfers(id, fr[id].rank)
    BY <1>1, <1>2, <2>1, HandleIsOpen DEF SafetyInv
  <2>3. PICK f : f = FileOf(Layout, fr[id].rank)
    OBVIOUS
  <2>4. f \in Files /\ opened_files[f].references # 0 /\ opened_files[f].fh = fr[id].file_handle
    BY <2>2, <2>3 DEF Transfers, OpenFiles
  <2>5. opened_files[f].references \in Nat
    BY <2>4 DEF TypeOK, FileTypes
  <2>. QED  BY <2>3, <2>4, <2>5
<1>. QED  BY <1>2 DEF HandlesStayOpen

\* What it says of the hash.
LEMMA InvariantSchedule == TypeOK /\ IInv => ScheduledAreHashed
<1>. SUFFICES ASSUME TypeOK, IInv PROVE ScheduledAreHashed
  OBVIOUS
<1>1. PICK stage \in [Ids -> Stages], own \in [Clients -> Ids \cup {NoId}] : SafetyInv(stage, own)
  BY DEF IInv
<1>2. /\ agios = {id \in Ids : stage[id] = "agios"}
      /\ Range(ready_queue) = {id \in Ids : stage[id] = "ready"}
      /\ Range(dispatcher.ids) = {id \in Ids : stage[id] = "batch"}
      /\ requests = {id \in Ids : stage[id] \in Hashed}
  BY <1>1 DEF SafetyInv, StageInv, DispatcherHolds, QueueHolds
<1>. QED  BY <1>2 DEF ScheduledAreHashed, Hashed

\* What it says of the batches.
LEMMA InvariantBatches == TypeOK /\ IInv => BatchesAreSound
<1>. SUFFICES ASSUME TypeOK, IInv PROVE BatchesAreSound
  OBVIOUS
<1>1. PICK stage \in [Ids -> Stages], own \in [Clients -> Ids \cup {NoId}] : SafetyInv(stage, own)
  BY DEF IInv
<1>2. IsBatch(dispatcher.ids) /\ \A j \in DOMAIN jobs : IsBatch(jobs[j].ids)
  BY <1>1 DEF SafetyInv, StageInv, DispatcherHolds, JobsHold, IsJob
<1>. QED  BY <1>2 DEF BatchesAreSound, IsBatch

\* What it says of the files.
LEMMA InvariantWrites == TypeOK /\ IInv => DoneWritesAreOnDisk
  BY DEF IInv, SafetyInv, DataInv, WritesDone, Written, DoneWritesAreOnDisk

\* What it says of the bytes on the way.
LEMMA InvariantBytes == TypeOK /\ IInv => NoForeignBytes
  BY DEF IInv, SafetyInv, DataInv, DataOK, NoForeignBytes

\* Which client a request is of.
LEMMA RequestsOf ==
    ASSUME TypeOK, NEW stage, NEW own, OwnInv(stage, own), ClientInv(stage, own),
           NEW c \in Clients, NEW id \in Ids
    PROVE  fr[id].rank = c <=> own[c] = id
<1>1. NoId \notin Ids /\ Nobody # c
  BY MarkersApart
<1>2. ASSUME fr[id].rank = c PROVE own[c] = id
  <2>1. fr[id] # NoRequest
    BY <1>1, <1>2 DEF NoRequest
  <2>. QED  BY <1>2, <2>1 DEF OwnInv
<1>3. ASSUME own[c] = id PROVE fr[id].rank = c
  <2>1. Served(c, stage, own)
    BY <1>1, <1>3, ServedClient DEF ClientInv
  <2>. QED  BY <1>3, <2>1 DEF Served, IsRequestOf
<1>. QED  BY <1>2, <1>3

\* What it says of the end of the server.
LEMMA InvariantStop == TypeOK /\ IInv => StopsOnlyWhenDrained
<1>. SUFFICES ASSUME TypeOK, IInv, shutdown_control PROVE StopsOnlyWhenDrained
  BY DEF StopsOnlyWhenDrained
<1>1. PICK stage \in [Ids -> Stages], own \in [Clients -> Ids \cup {NoId}] : SafetyInv(stage, own)
  BY DEF IInv
<1>2. StageInv(stage) /\ OwnInv(stage, own) /\ ClientInv(stage, own) /\ FileInv(stage, own) /\ ShutdownInv
  BY <1>1 DEF SafetyInv
<1>3. Gone = Clients
  <2>1. Cardinality(Gone) = NClients
    BY <1>2 DEF ShutdownInv
  <2>. QED  BY <2>1, ClientsFinite, GoneFinite, FS_Subset
<1>4. ASSUME NEW c \in Clients PROVE pc[c] = "done" /\ requestMsgs[c] = <<>> /\ own[c] = NoId
  <2>1. pc[c] = "done" /\ requestMsgs[c] = <<>>
    BY <1>3 DEF Gone
  <2>. QED
    BY <1>2, <2>1 DEF ClientInv, ClientOK, Quiet, Asking, Served, ServedAs, HasAnswer, GaveUp
<1>5. ASSUME NEW id \in Ids PROVE stage[id] = "free" /\ fr[id] = NoRequest
  <2>1. CASE stage[id] # "free"
    <3>1. fr[id].rank \in Clients /\ own[fr[id].rank] = id
      BY <1>2, <2>1, RequestOf
    <3>. QED  BY <1>4, <3>1, MarkersApart
  <2>. QED  BY <1>2, <2>1 DEF OwnInv
<1>6. Range(incoming_queue) = {} /\ Range(ready_queue) = {} /\ agios = {} /\ requests = {}
  BY <1>2, <1>5 DEF StageInv, QueueHolds, Hashed
<1>7. incoming_queue = <<>> /\ ready_queue = <<>>
  <2>1. incoming_queue \in Seq(Ids) /\ ready_queue \in Seq(Ids)
    BY DEF TypeOK, QueueTypes
  <2>2. ASSUME NEW q \in Seq(Ids), Range(q) = {} PROVE q = <<>>
    <3>1. ASSUME NEW j \in 1..Len(q) PROVE FALSE
      <4>1. q[j] \in Range(q)
        BY DEF Range
      <4>. QED  BY <2>2, <4>1
    <3>2. Len(q) = 0
      <4>1. Len(q) \in Nat
        OBVIOUS
      <4>. QED  BY <3>1, <4>1
    <3>. QED  BY <3>2
  <2>. QED  BY <1>6, <2>1, <2>2
<1>8. jobs = <<>>
  <2>1. ASSUME jobs # <<>> PROVE FALSE
    <3>1. 1 \in DOMAIN jobs
      BY <2>1, JobTypes
    <3>2. jobs[1].ids \in Seq(Ids) /\ jobs[1].ids # <<>>
      BY <3>1, JobTypes
    <3>3. 1 \in DOMAIN jobs[1].ids /\ jobs[1].ids[1] \in Ids
      BY <3>2
    <3>4. stage[jobs[1].ids[1]] = JobStage(jobs[1].fn)
      BY <1>2, <3>1, <3>3 DEF StageInv, JobsHold
    <3>5. JobStage(jobs[1].fn) # "free"
      BY JobStageType DEF JobStages
    <3>. QED  BY <1>5, <3>3, <3>4, <3>5
  <2>. QED  BY <2>1
<1>9. OpenFds = {}
  <2>1. ASSUME NEW f \in Files PROVE opened_files[f].fh = NoFd
    <3>1. \A c \in Clients : ~Open(c, stage, own)
      BY <1>4 DEF Open, Inside
    <3>2. Openers(f, stage, own) = {}
      BY <3>1 DEF Openers
    <3>3. opened_files[f].references = Cardinality({})
      BY <1>2, <3>2 DEF FileInv, FilesCounted
    <3>4. f \notin OpenFiles
      BY <3>3, FS_EmptySet DEF OpenFiles
    <3>. QED  BY <1>2, <3>4 DEF FileInv, Descriptors, NotOpened
  <2>. QED  BY <2>1 DEF OpenFds
<1>. QED  BY <1>5, <1>6, <1>7, <1>8, <1>9 DEF StopsOnlyWhenDrained

\* Where the requests are that had their effect.
LEMMA EffectedStages ==
    ASSUME TypeOK, NEW stage \in [Ids -> Stages], StageInv(stage), NEW id \in Ids
    PROVE  id \in Effected <=> stage[id] \in {"reply"} \cup Transferred
<1>0. /\ HandlersHold(stage) /\ JobsHold(stage) /\ PoolHold(stage)
  BY DEF StageInv
<1>1. id \in {handler[h].id : h \in {g \in Handlers : handler[g].at = "reply"}} <=> stage[id] = "reply"
  <2>1. ASSUME NEW h \in Handlers, handler[h].at = "reply" PROVE stage[handler[h].id] = "reply"
    BY <1>0, <2>1 DEF HandlersHold
  <2>2. ASSUME stage[id] = "reply"
        PROVE  \E h \in Handlers : handler[h].at = "reply" /\ handler[h].id = id
    BY <1>0, <2>2 DEF HandlersHold
  <2>. QED  BY <2>1, <2>2
<1>2. id \in UNION {Range(jobs[j].ids) : j \in {i \in DOMAIN jobs : jobs[i].fn = "callback"}}
      <=> stage[id] = "callback"
  <2>1. ASSUME NEW j \in DOMAIN jobs, jobs[j].fn = "callback", id \in Range(jobs[j].ids)
        PROVE  stage[id] = "callback"
    BY <1>0, <2>1 DEF JobsHold, JobStage, Range
  <2>2. ASSUME stage[id] = "callback"
        PROVE  \E j \in DOMAIN jobs : jobs[j].fn = "callback" /\ id \in Range(jobs[j].ids)
    <3>1. PICK j \in DOMAIN jobs : \E k \in DOMAIN jobs[j].ids : jobs[j].ids[k] = id
      BY <1>0, <2>2 DEF JobsHold
    <3>2. JobStage(jobs[j].fn) = "callback"
      BY <1>0, <2>2, <3>1 DEF JobsHold
    <3>3. jobs[j].fn = "callback"
      BY <3>2 DEF JobStage
    <3>. QED  BY <3>1, <3>3 DEF Range
  <2>. QED  BY <2>1, <2>2
<1>3. id \in UNION {{pool[t].ids[k] : k \in DOMAIN pool[t].ids \ 1..(pool[t].k - 1)} :
                      t \in {u \in PoolThreads : pool[u].fn = "callback"}}
      <=> stage[id] \in {"answer", "last"}
  <2>1. ASSUME NEW t \in PoolThreads, pool[t].fn = "callback",
               NEW k \in DOMAIN pool[t].ids \ 1..(pool[t].k - 1), id = pool[t].ids[k]
        PROVE  stage[id] \in {"answer", "last"}
    <3>1. pool[t].at # "idle"
      BY <2>1, PoolTypes DEF IdleThread, TypeOK, ThreadTypes
    <3>2. k \in Unanswered(pool[t])
      <4>1. DOMAIN pool[t].ids = 1..Len(pool[t].ids) /\ pool[t].k \in Nat \ {0}
        BY <3>1, PoolTypes DEF Work
      <4>. QED  BY <2>1, <4>1 DEF Unanswered
    <3>. QED  BY <1>0, <2>1, <3>1, <3>2 DEF PoolHold, PoolStage
  <2>2. ASSUME stage[id] \in {"answer", "last"}
        PROVE  \E t \in PoolThreads : /\ pool[t].fn = "callback"
                  /\ \E k \in DOMAIN pool[t].ids \ 1..(pool[t].k - 1) : id = pool[t].ids[k]
    <3>1. PICK t \in PoolThreads : \E k \in Unanswered(pool[t]) : pool[t].ids[k] = id
      BY <1>0, <2>2 DEF PoolHold, PoolStages
    <3>0. PICK k \in Unanswered(pool[t]) : pool[t].ids[k] = id
      BY <3>1
    <3>2. pool[t].at # "idle"
      BY <3>0, PoolTypes DEF Unanswered, TypeOK, ThreadTypes, IdleThread
    <3>3. PoolPoint(pool[t]) /\ PoolStage(pool[t], k) \in {"answer", "last"}
      BY <1>0, <2>2, <3>0, <3>2 DEF PoolHold
    <3>4. pool[t].fn = "callback"
      BY <3>3 DEF PoolPoint, PoolStage
    <3>5. k \in DOMAIN pool[t].ids \ 1..(pool[t].k - 1)
      <4>1. DOMAIN pool[t].ids = 1..Len(pool[t].ids) /\ pool[t].k \in Nat \ {0}
        BY <3>2, PoolTypes DEF Work
      <4>. QED  BY <3>0, <3>4, <4>1 DEF Unanswered
    <3>. QED  BY <3>0, <3>4, <3>5
  <2>. QED  BY <2>1, <2>2
<1>4. id \in UNION {{pool[t].ids[k] : k \in 1..(pool[t].k - 1)} :
                      t \in {u \in PoolThreads : pool[u].fn = "dispatch_operation"}}
      <=> stage[id] = "transferred"
  <2>1. ASSUME NEW t \in PoolThreads, pool[t].fn = "dispatch_operation",
               NEW k \in 1..(pool[t].k - 1), id = pool[t].ids[k]
        PROVE  stage[id] = "transferred"
    <3>1. pool[t].at # "idle" /\ pool[t].k \in Nat \ {0}
      BY <2>1, PoolTypes DEF IdleThread, TypeOK, ThreadTypes
    <3>2. pool[t].k <= Len(pool[t].ids) + 1
      BY <1>0, <2>1, <3>1 DEF PoolHold, PoolPoint
    <3>3. k \in Unanswered(pool[t]) /\ k < pool[t].k
      BY <2>1, <3>1, <3>2, PoolTypes DEF Unanswered
    <3>. QED  BY <1>0, <2>1, <3>1, <3>3 DEF PoolHold, PoolStage
  <2>2. ASSUME stage[id] = "transferred"
        PROVE  \E t \in PoolThreads : /\ pool[t].fn = "dispatch_operation"
                  /\ \E k \in 1..(pool[t].k - 1) : id = pool[t].ids[k]
    <3>1. PICK t \in PoolThreads : \E k \in Unanswered(pool[t]) : pool[t].ids[k] = id
      BY <1>0, <2>2 DEF PoolHold, PoolStages
    <3>0. PICK k \in Unanswered(pool[t]) : pool[t].ids[k] = id
      BY <3>1
    <3>2. pool[t].at # "idle"
      BY <3>0, PoolTypes DEF Unanswered, TypeOK, ThreadTypes, IdleThread
    <3>3. PoolPoint(pool[t]) /\ PoolStage(pool[t], k) = "transferred"
      BY <1>0, <2>2, <3>0, <3>2 DEF PoolHold
    <3>4. pool[t].fn = "dispatch_operation" /\ k < pool[t].k
      BY <3>3 DEF PoolPoint, PoolStage
    <3>5. k \in 1..(pool[t].k - 1)
      <4>1. DOMAIN pool[t].ids = 1..Len(pool[t].ids) /\ pool[t].k \in Nat \ {0}
        BY <3>2, PoolTypes DEF Work
      <4>2. k \in DOMAIN pool[t].ids
        BY <3>0 DEF Unanswered
      <4>. QED  BY <3>4, <4>1, <4>2
    <3>. QED  BY <3>0, <3>4, <3>5
  <2>. QED  BY <2>1, <2>2
<1>5. id \in Effected <=> \/ stage[id] = "reply" \/ stage[id] = "callback"
                          \/ stage[id] \in {"answer", "last"} \/ stage[id] = "transferred"
  <2>1. PICK A, B, C, D :
          /\ A = {handler[h].id : h \in {g \in Handlers : handler[g].at = "reply"}}
          /\ B = UNION {Range(jobs[j].ids) : j \in {i \in DOMAIN jobs : jobs[i].fn = "callback"}}
          /\ C = UNION {{pool[t].ids[k] : k \in DOMAIN pool[t].ids \ 1..(pool[t].k - 1)} :
                         t \in {u \in PoolThreads : pool[u].fn = "callback"}}
          /\ D = UNION {{pool[t].ids[k] : k \in 1..(pool[t].k - 1)} :
                         t \in {u \in PoolThreads : pool[u].fn = "dispatch_operation"}}
    OBVIOUS
  <2>2. Effected = A \cup B \cup C \cup D
    BY <2>1, Zenon DEF Effected
  <2>3. /\ id \in A <=> stage[id] = "reply"
        /\ id \in B <=> stage[id] = "callback"
        /\ id \in C <=> stage[id] \in {"answer", "last"}
        /\ id \in D <=> stage[id] = "transferred"
    BY <1>1, <1>2, <1>3, <1>4, <2>1, Zenon
  <2>. QED  BY <2>2, <2>3
<1>. QED  BY <1>5 DEF Transferred

\* An operation has had no effect yet while its request is on the way or not
\* transferred.
LEMMA PendingRequests ==
    ASSUME TypeOK, NEW stage \in [Ids -> Stages], NEW own \in [Clients -> Ids \cup {NoId}],
           StageInv(stage), OwnInv(stage, own), ClientInv(stage, own), NEW c \in Clients
    PROVE  Pending(c) <=> \/ requestMsgs[c] # <<>>
                          \/ own[c] # NoId /\ stage[own[c]] \notin {"reply"} \cup Transferred
<1>1. \A id \in Ids : fr[id].rank = c <=> own[c] = id
  BY RequestsOf
<1>2. \A id \in Ids : id \in Effected <=> stage[id] \in {"reply"} \cup Transferred
  BY EffectedStages
<1>. QED  BY <1>1, <1>2, MarkersApart DEF Pending

\* Open: what the invariant counts and what the property counts.
LEMMA UsersAreOpeners ==
    ASSUME TypeOK, NEW stage \in [Ids -> Stages], NEW own \in [Clients -> Ids \cup {NoId}],
           SafetyInv(stage, own), NEW c \in Clients
    PROVE  Uses(c) <=> Open(c, stage, own)
<1>0. StageInv(stage) /\ OwnInv(stage, own) /\ ClientInv(stage, own)
  BY DEF SafetyInv
<1>1. Pending(c) <=> \/ requestMsgs[c] # <<>>
                     \/ own[c] # NoId /\ stage[own[c]] \notin {"reply"} \cup Transferred
  BY <1>0, PendingRequests
<1>2. pc[c] \in {"handle", "closing"} /\ own[c] # NoId => stage[own[c]] \in Arriving \cup {"reply"}
  BY <1>0, ServedClient DEF ClientInv, Served, ServedAs
<1>3. \A s \in Arriving \cup {"reply"} : s \in {"reply"} \cup Transferred <=> s = "reply"
  BY DEF Arriving, Transferred
<1>. QED  BY <1>1, <1>2, <1>3 DEF Uses, Open, Inside

\* What the invariant says of the references of the open files.
LEMMA InvariantReferences == TypeOK /\ IInv => ReferencesCountUsers
<1>. SUFFICES ASSUME TypeOK, IInv PROVE ReferencesCountUsers
  OBVIOUS
<1>1. PICK stage \in [Ids -> Stages], own \in [Clients -> Ids \cup {NoId}] : SafetyInv(stage, own)
  BY DEF IInv
<1>2. ASSUME NEW f \in Files
      PROVE  Openers(f, stage, own) = {c \in Clients : FileOf(Layout, c) = f /\ Uses(c)}
  BY <1>1, UsersAreOpeners DEF Openers
<1>. QED  BY <1>1, <1>2 DEF SafetyInv, FileInv, FilesCounted, ReferencesCountUsers

-----------------------------------------------------------------------------
(* Where each request is. *)

\* The request id is once among the places P if its stage is one of S, and
\* not at all if it is not.
OnceIn(P, S, id, stage) ==
    IF stage[id] \in S
    THEN \E x \in P : x[3] = id /\ \A p \in P : p[3] = id => p = x
    ELSE \A p \in P : p[3] # id

\* An identifier at the stage of a queue is there once, any other is not.
LEMMA OnceInQueue ==
    ASSUME NEW stage, NEW q \in Seq(Ids), NEW s, QueueHolds(q, s, stage), NEW id \in Ids, NEW name
    PROVE  OnceIn({<<name, j, q[j]>> : j \in DOMAIN q}, {s}, id, stage)
<1>. DEFINE P == {<<name, j, q[j]>> : j \in DOMAIN q}
<1>1. IsInjective(q) /\ (id \in Range(q) <=> stage[id] = s)
  BY DEF QueueHolds
<1>2. CASE stage[id] = s
  <2>1. PICK k \in DOMAIN q : q[k] = id
    BY <1>1, <1>2 DEF Range
  <2>2. \A j \in DOMAIN q : q[j] = id => j = k
    BY <1>1, <2>1 DEF IsInjective
  <2>3. <<name, k, id>> \in P /\ <<name, k, id>>[3] = id
    BY <2>1
  <2>4. ASSUME NEW p \in P, p[3] = id PROVE p = <<name, k, id>>
    <3>1. PICK j \in DOMAIN q : p = <<name, j, q[j]>>
      BY <2>4
    <3>. QED  BY <2>2, <2>4, <3>1
  <2>. QED  BY <1>2, <2>3, <2>4 DEF OnceIn
<1>3. CASE stage[id] # s
  <2>1. ASSUME NEW p \in P PROVE p[3] # id
    <3>1. PICK j \in DOMAIN q : p = <<name, j, q[j]>>
      BY <2>1
    <3>2. q[j] \in Range(q)
      BY DEF Range
    <3>. QED  BY <1>1, <1>3, <3>1, <3>2
  <2>. QED  BY <1>3, <2>1 DEF OnceIn
<1>. QED  BY <1>2, <1>3

\* The threads of one kind, each with the requests X[t] in hand.
HandPlaces(name, X, T) == UNION {{<<name, t, i>> : i \in X[t]} : t \in T}
InOneHand(X, T, S, id, stage) ==
    /\ \A t \in T : id \in X[t] => stage[id] \in S
    /\ \A t, u \in T : id \in X[t] /\ id \in X[u] => t = u
    /\ stage[id] \in S => \E t \in T : id \in X[t]

\* An identifier at a stage of the threads is in the hands of one of them,
\* once.
LEMMA OnceInHands ==
    ASSUME NEW stage, NEW S, NEW T, NEW X, NEW id \in Ids, NEW name, InOneHand(X, T, S, id, stage)
    PROVE  OnceIn(HandPlaces(name, X, T), S, id, stage)
<1>. DEFINE P == HandPlaces(name, X, T)
<1>1. \A p : p \in P <=> \E t \in T : \E i \in X[t] : p = <<name, t, i>>
  BY DEF HandPlaces
<1>0. /\ \A t \in T : id \in X[t] => stage[id] \in S
      /\ \A t, u \in T : id \in X[t] /\ id \in X[u] => t = u
      /\ stage[id] \in S => \E t \in T : id \in X[t]
  BY DEF InOneHand
<1>. HIDE DEF P
<1>2. CASE stage[id] \in S
  <2>1. PICK t \in T : id \in X[t]
    BY <1>0, <1>2
  <2>2. <<name, t, id>> \in P /\ <<name, t, id>>[3] = id
    BY <1>1, <2>1
  <2>3. ASSUME NEW p \in P, p[3] = id PROVE p = <<name, t, id>>
    <3>1. PICK u \in T : \E i \in X[u] : p = <<name, u, i>>
      BY <1>1
    <3>2. PICK i \in X[u] : p = <<name, u, i>>
      BY <3>1
    <3>3. i = id
      BY <2>3, <3>2
    <3>. QED  BY <1>0, <2>1, <2>3, <3>2, <3>3
  <2>. QED  BY <1>2, <2>2, <2>3 DEF OnceIn, P
<1>3. CASE stage[id] \notin S
  <2>1. ASSUME NEW p \in P, p[3] = id PROVE FALSE
    <3>1. PICK u \in T : \E i \in X[u] : p = <<name, u, i>>
      BY <1>1
    <3>2. PICK i \in X[u] : p = <<name, u, i>>
      BY <3>1
    <3>. QED  BY <1>0, <1>3, <2>1, <3>2
  <2>. QED  BY <1>3, <2>1 DEF OnceIn, P
<1>. QED  BY <1>2, <1>3

HandlerPlaces == {<<"handler", h, handler[h].id>> : h \in {h \in Handlers : handler[h].at # "idle"}}
JobPlaces == UNION {{<<"job", j, id>> : id \in Range(jobs[j].ids)} : j \in DOMAIN jobs}
PoolPlaces == UNION {{<<"pool", t, id>> : id \in PoolIds(t)} : t \in PoolThreads}
AgiosPlaces == {<<"agios", 0, id>> : id \in agios}

\* The handlers have each identifier at most once.
LEMMA OnceInHandlers ==
    ASSUME NEW stage, HandlersHold(stage), TypeOK, NEW id \in Ids
    PROVE  OnceIn(HandlerPlaces, {"got", "reply"}, id, stage)
<1>1. PICK X : X = [h \in Handlers |-> IF handler[h].at # "idle" THEN {handler[h].id} ELSE {}]
  OBVIOUS
<1>2. ASSUME NEW h \in Handlers
      PROVE  id \in X[h] <=> handler[h].at # "idle" /\ handler[h].id = id
  BY <1>1
<1>3. \A h \in Handlers : handler[h].at # "idle" => handler[h].at \in {"got", "reply"}
  BY DEF TypeOK, ThreadTypes, IdleHandler
<1>4. \A p : p \in HandlerPlaces <=> \E h \in Handlers : \E i \in X[h] : p = <<"handler", h, i>>
  BY <1>1 DEF HandlerPlaces
<1>5. HandlerPlaces = HandPlaces("handler", X, Handlers)
  BY <1>4 DEF HandPlaces
<1>7. \A h \in Handlers : id \in X[h] => stage[id] \in {"got", "reply"}
  BY <1>2, <1>3 DEF HandlersHold
<1>8. \A g, h \in Handlers : id \in X[g] /\ id \in X[h] => g = h
  BY <1>2 DEF HandlersHold
<1>9. stage[id] \in {"got", "reply"} => \E h \in Handlers : id \in X[h]
  BY <1>2 DEF HandlersHold
<1>10. InOneHand(X, Handlers, {"got", "reply"}, id, stage)
  BY <1>7, <1>8, <1>9 DEF InOneHand
<1>. QED  BY <1>5, <1>10, OnceInHands

\* The queued jobs have each identifier at most once.
LEMMA OnceInJobs ==
    ASSUME NEW stage, JobsHold(stage), TypeOK, NEW id \in Ids
    PROVE  OnceIn(JobPlaces, JobStages, id, stage)
<1>1. PICK X : X = [j \in DOMAIN jobs |-> Range(jobs[j].ids)]
  OBVIOUS
<1>2. ASSUME NEW j \in DOMAIN jobs
      PROVE  id \in X[j] <=> \E k \in DOMAIN jobs[j].ids : jobs[j].ids[k] = id
  BY <1>1 DEF Range
<1>3. JobPlaces = HandPlaces("job", X, DOMAIN jobs)
  BY <1>1 DEF JobPlaces, HandPlaces
<1>5. \A j \in DOMAIN jobs : id \in X[j] => stage[id] \in JobStages
  BY <1>2, JobStageType DEF JobsHold
<1>6. \A i, j \in DOMAIN jobs : id \in X[i] /\ id \in X[j] => i = j
  BY <1>2 DEF JobsHold
<1>7. stage[id] \in JobStages => \E j \in DOMAIN jobs : id \in X[j]
  BY <1>2 DEF JobsHold, JobStages
<1>8. InOneHand(X, DOMAIN jobs, JobStages, id, stage)
  BY <1>5, <1>6, <1>7 DEF InOneHand
<1>. QED  BY <1>3, <1>8, OnceInHands

\* The pool threads have each identifier at most once.
LEMMA OnceInPool ==
    ASSUME NEW stage, PoolHold(stage), TypeOK, NEW id \in Ids
    PROVE  OnceIn(PoolPlaces, PoolStages, id, stage)
<1>1. PICK X : X = [t \in PoolThreads |-> PoolIds(t)]
  OBVIOUS
<1>2. ASSUME NEW t \in PoolThreads
      PROVE  id \in X[t] <=> \E k \in Unanswered(pool[t]) : pool[t].ids[k] = id
  <2>1. CASE pool[t].at = "idle"
    <3>1. pool[t] = IdleThread
      BY <2>1, PoolTypes
    <3>2. Unanswered(pool[t]) = {} /\ pool[t].fn = "none" /\ pool[t].k = 1 /\ Len(pool[t].ids) = 0
      BY <3>1, IdleHolds DEF IdleThread
    <3>3. PoolIds(t) = {}
      BY <3>2 DEF PoolIds
    <3>. QED  BY <1>1, <3>2, <3>3
  <2>2. CASE pool[t].at # "idle"
    <3>1. /\ DOMAIN pool[t].ids = 1..Len(pool[t].ids) /\ pool[t].k \in Nat \ {0}
          /\ pool[t].fn \in JobFunctions /\ Len(pool[t].ids) \in Nat
      BY <2>2, PoolTypes DEF Work
    <3>2. pool[t].fn \notin {"dispatch_operation", "callback"} => pool[t].k = 1
      BY <2>2, <3>1 DEF PoolHold, PoolPoint
    <3>3. Unanswered(pool[t]) = IF pool[t].fn = "dispatch_operation" THEN 1..Len(pool[t].ids)
                                ELSE pool[t].k..Len(pool[t].ids)
      BY <3>1, <3>2 DEF Unanswered, JobFunctions
    <3>4. PoolIds(t) = {pool[t].ids[j] : j \in Unanswered(pool[t])}
      BY <3>3 DEF PoolIds
    <3>. QED  BY <1>1, <3>4
  <2>. QED  BY <2>1, <2>2
<1>3. PoolPlaces = HandPlaces("pool", X, PoolThreads)
  BY <1>1 DEF PoolPlaces, HandPlaces
<1>5. ASSUME NEW t \in PoolThreads, id \in X[t] PROVE stage[id] \in PoolStages
  <2>1. PICK k \in Unanswered(pool[t]) : pool[t].ids[k] = id
    BY <1>2, <1>5
  <2>2. pool[t].at # "idle"
    BY <2>1, PoolTypes, IdleHolds
  <2>3. stage[id] = PoolStage(pool[t], k) /\ PoolPoint(pool[t])
    BY <2>1, <2>2 DEF PoolHold
  <2>. QED  BY <2>3, PoolStageType
<1>6. \A t, u \in PoolThreads : id \in X[t] /\ id \in X[u] => t = u
  BY <1>2 DEF PoolHold
<1>7. stage[id] \in PoolStages => \E t \in PoolThreads : id \in X[t]
  BY <1>2 DEF PoolHold
<1>8. InOneHand(X, PoolThreads, PoolStages, id, stage)
  BY <1>5, <1>6, <1>7 DEF InOneHand
<1>. QED  BY <1>3, <1>8, OnceInHands

\* AGIOS has each identifier at most once.
LEMMA OnceInAgios ==
    ASSUME NEW stage, agios = {id \in Ids : stage[id] = "agios"}, NEW id \in Ids
    PROVE  OnceIn(AgiosPlaces, {"agios"}, id, stage)
<1>1. CASE stage[id] = "agios"
  <2>1. <<"agios", 0, id>> \in AgiosPlaces /\ <<"agios", 0, id>>[3] = id
    BY <1>1 DEF AgiosPlaces
  <2>2. \A p \in AgiosPlaces : p[3] = id => p = <<"agios", 0, id>>
    BY DEF AgiosPlaces
  <2>. QED  BY <1>1, <2>1, <2>2 DEF OnceIn
<1>2. CASE stage[id] # "agios"
  <2>1. \A p \in AgiosPlaces : p[3] # id
    BY <1>2 DEF AgiosPlaces
  <2>. QED  BY <1>2, <2>1 DEF OnceIn
<1>. QED  BY <1>1, <1>2

\* The stage of an identifier is its place.
LEMMA InvariantPlaces == TypeOK /\ IInv => EachRequestInOnePlace
<1>. SUFFICES ASSUME TypeOK, IInv, NEW id \in Ids
     PROVE  Cardinality({p \in Places : p[3] = id}) = IF fr[id] = NoRequest THEN 0 ELSE 1
  BY DEF EachRequestInOnePlace
<1>1. PICK stage \in [Ids -> Stages], own \in [Clients -> Ids \cup {NoId}] : SafetyInv(stage, own)
  BY DEF IInv
<1>2. StageInv(stage) /\ (stage[id] = "free" <=> fr[id] = NoRequest)
  BY <1>1 DEF SafetyInv, OwnInv
<1>3. PICK P1, P2, P3 :
         /\ P1 = {<<"incoming", j, incoming_queue[j]>> : j \in DOMAIN incoming_queue}
         /\ P2 = {<<"ready", j, ready_queue[j]>> : j \in DOMAIN ready_queue}
         /\ P3 = {<<"dispatcher", j, dispatcher.ids[j]>> : j \in DOMAIN dispatcher.ids}
  OBVIOUS
<1>4. Places = P1 \cup HandlerPlaces \cup JobPlaces \cup PoolPlaces \cup AgiosPlaces \cup P2 \cup P3
  BY <1>3, Zenon DEF Places, HandlerPlaces, JobPlaces, PoolPlaces, AgiosPlaces
<1>5. /\ OnceIn(P1, {"incoming"}, id, stage) /\ OnceIn(P2, {"ready"}, id, stage)
      /\ OnceIn(P3, {"batch"}, id, stage)
  <2>1. incoming_queue \in Seq(Ids) /\ ready_queue \in Seq(Ids) /\ dispatcher.ids \in Seq(Ids)
    BY DispatcherTypes DEF TypeOK, QueueTypes
  <2>2. /\ QueueHolds(incoming_queue, "incoming", stage) /\ QueueHolds(ready_queue, "ready", stage)
        /\ QueueHolds(dispatcher.ids, "batch", stage)
    BY <1>2 DEF StageInv, DispatcherHolds
  <2>3. OnceIn(P1, {"incoming"}, id, stage)
    BY <1>3, <2>1, <2>2, OnceInQueue
  <2>4. OnceIn(P2, {"ready"}, id, stage)
    BY <1>3, <2>1, <2>2, OnceInQueue
  <2>5. OnceIn(P3, {"batch"}, id, stage)
    BY <1>3, <2>1, <2>2, OnceInQueue
  <2>. QED  BY <2>3, <2>4, <2>5
<1>6. /\ OnceIn(HandlerPlaces, {"got", "reply"}, id, stage) /\ OnceIn(JobPlaces, JobStages, id, stage)
      /\ OnceIn(PoolPlaces, PoolStages, id, stage) /\ OnceIn(AgiosPlaces, {"agios"}, id, stage)
  BY <1>2, OnceInHandlers, OnceInJobs, OnceInPool, OnceInAgios DEF StageInv
<1>7. CASE stage[id] = "free"
  <2>1. \A p \in Places : p[3] # id
    BY <1>4, <1>5, <1>6, <1>7 DEF OnceIn, JobStages, PoolStages
  <2>2. {p \in Places : p[3] = id} = {}
    BY <2>1
  <2>. QED  BY <1>2, <1>7, <2>2, FS_EmptySet
<1>8. CASE stage[id] # "free"
  <2>0. stage[id] \in {"incoming", "ready", "batch", "got", "reply", "agios"} \cup JobStages \cup PoolStages
    BY <1>8 DEF Stages, JobStages, PoolStages
  <2>1. \E x \in Places : x[3] = id /\ \A p \in Places : p[3] = id => p = x
    <3>1. CASE stage[id] = "incoming"
      BY <3>1, <1>4, <1>5, <1>6 DEF OnceIn, JobStages, PoolStages
    <3>2. CASE stage[id] = "ready"
      BY <3>2, <1>4, <1>5, <1>6 DEF OnceIn, JobStages, PoolStages
    <3>3. CASE stage[id] = "batch"
      BY <3>3, <1>4, <1>5, <1>6 DEF OnceIn, JobStages, PoolStages
    <3>4. CASE stage[id] \in {"got", "reply"}
      BY <3>4, <1>4, <1>5, <1>6 DEF OnceIn, JobStages, PoolStages
    <3>5. CASE stage[id] = "agios"
      BY <3>5, <1>4, <1>5, <1>6 DEF OnceIn, JobStages, PoolStages
    <3>6. CASE stage[id] \in JobStages
      BY <3>6, <1>4, <1>5, <1>6 DEF OnceIn, JobStages, PoolStages
    <3>7. CASE stage[id] \in PoolStages
      BY <3>7, <1>4, <1>5, <1>6 DEF OnceIn, JobStages, PoolStages
    <3>. QED  BY <2>0, <3>1, <3>2, <3>3, <3>4, <3>5, <3>6, <3>7
  <2>2. PICK x \in Places : x[3] = id /\ \A p \in Places : p[3] = id => p = x
    BY <2>1
  <2>3. {p \in Places : p[3] = id} = {x}
    BY <2>2
  <2>. QED  BY <1>2, <1>8, <2>3, FS_Singleton
<1>. QED  BY <1>7, <1>8

-----------------------------------------------------------------------------
(* The answers, and the reasons to abort. *)

\* A client that checks what it reads has written it before, and in full.
ReadsOwnWrites == Validation /\ "read" \in Phases => FullTransfers /\ "write" \in Phases

\* A client that checks what it reads gets all of the bytes it wrote.
LEMMA ReadsAreComplete ==
    ASSUME ReadsOwnWrites, Validation, "read" \in Phases PROVE Complete
<1>1. FullTransfers /\ "write" \in Phases
  BY DEF ReadsOwnWrites
<1>2. Phases = {"write", "read"}
  BY <1>1, LayoutAssumption
<1>. QED  BY <1>1, <1>2 DEF Complete

\* No step makes the run abort.
LEMMA NoAbort ==
    ASSUME IdsSuffice, ReadsOwnWrites, TypeOK, IInv, aborted = "no", [Next]_vars
    PROVE  aborted' = "no"
<1>1. IInv'
  BY NextKeeps
<1>2. aborted' \in {"no", "ERROR_VALIDATION_FAILED"}
  BY <1>1 DEF IInv, SafetyInv
<1>3. PICK stage \in [Ids -> Stages], own \in [Clients -> Ids \cup {NoId}] : SafetyInv(stage, own)
  BY DEF IInv
<1>4. CASE UNCHANGED vars \/ Finished
  BY <1>4 DEF Finished, vars
<1>5. ASSUME NEW c \in Clients, ClientReadDone(c) PROVE aborted' = "no"
  <2>1. PICK m \in dataMsgs :
           /\ m.to = "client" /\ m.rank = c
           /\ (Validation /\ ~Valid(c, m)) \/ UNCHANGED aborted
    BY <1>5 DEF ClientReadDone
  <2>2. CASE Validation /\ ~Valid(c, m)
    <3>1. pc[c] = "data"
      BY <1>5 DEF ClientReadDone
    <3>2. phase[c] = "read"
      BY <1>3, <3>1
      DEF SafetyInv, ClientInv, ClientOK, Idle, Asking, Served, ServedAs, HasAnswer, GaveUp
    <3>3. "read" \in Phases
      BY <1>3, <3>1, <3>2 DEF SafetyInv, BarrierInv
    <3>4. m.data = c
      BY <1>3, <2>1, <2>2, <3>3, ReadsAreComplete DEF SafetyInv, DataInv, DataOK
    <3>5. Valid(c, m)
      BY <3>4 DEF Valid
    <3>. QED  BY <2>2, <3>5
  <2>. QED  BY <2>1, <2>2
<1>6. ASSUME NEW c \in Clients, Client(c), ~ClientReadDone(c) PROVE aborted' = "no"
  BY <1>6 DEF Client, ClientOpen, ClientHandle, ClientStart, ClientIssue, ClientSendData,
         ClientReadId, ClientWriteDone, ClientLoopEnd, ClientClose, ClientClosed,
         ClientNext, ClientShutdown
<1>7. ASSUME Listener \/ (\E h \in Handlers : Handler(h)) \/ (\E t \in PoolThreads : Pool(t)) \/ Agios \/ Dispatcher
      PROVE aborted' # "ERROR_VALIDATION_FAILED"
  <2>1. CASE Listener
    BY <2>1 DEF Listener, ListenerRequest, ListenerShutdown
  <2>2. ASSUME NEW h \in Handlers, Handler(h) PROVE aborted' # "ERROR_VALIDATION_FAILED"
    BY <2>2 DEF Handler, HandlerPop, HandlerOpen, HandlerSendHandle, HandlerDelegate, HandlerClose,
                HandlerAckClose
  <2>3. ASSUME NEW t \in PoolThreads, Pool(t) PROVE aborted' # "ERROR_VALIDATION_FAILED"
    BY <2>3 DEF Pool, PoolPull, HandleAck, HandleWriteWait, HandleHash, HandleAgios, DispatchSort,
                DispatchWrite, DispatchRead, DispatchDone, CallbackDel, CallbackReply
  <2>4. CASE Agios
    BY <2>4 DEF Agios, AgiosCallback, AgiosCallbackAggregated, agiosOnly
  <2>5. CASE Dispatcher
    BY <2>5 DEF Dispatcher, DispatcherPop, DispatcherFind, DispatcherBatch, DispatcherSubmit
  <2>. QED  BY <1>7, <2>1, <2>2, <2>3, <2>4, <2>5
<1>. QED  BY <1>2, <1>4, <1>5, <1>6, <1>7 DEF Next

\* How many requests and answers of a client there are, for each state that
\* the client can be in.
RequestCount(c) == Cardinality({id \in Ids : fr[id].rank = c})
UntakenCount(c) == Cardinality({j \in DOMAIN requestMsgs[c] : requestMsgs[c][j].operation # "empty"})
DataCount(c) == Cardinality({m \in dataMsgs : m.to = "client" /\ m.rank = c})
AckCount(c) == IF pc[c] \in {"ack", "closing"} THEN Len(ackMsgs[c]) ELSE 0
Expected(c) == IF pc[c] \in {"handle", "id", "ack", "data", "closing"} THEN 1 ELSE 0

\* The server has one request of a client, or none.
LEMMA CountRequests ==
    ASSUME TypeOK, NEW stage, NEW own \in [Clients -> Ids \cup {NoId}],
           OwnInv(stage, own), ClientInv(stage, own), NEW c \in Clients
    PROVE  RequestCount(c) = IF own[c] = NoId THEN 0 ELSE 1
<1>1. \A id \in Ids : fr[id].rank = c <=> own[c] = id
  BY RequestsOf
<1>2. CASE own[c] = NoId
  <2>1. {id \in Ids : fr[id].rank = c} = {}
    BY <1>1, <1>2, MarkersApart
  <2>. QED  BY <1>2, <2>1, FS_EmptySet DEF RequestCount
<1>3. CASE own[c] # NoId
  <2>1. {id \in Ids : fr[id].rank = c} = {own[c]}
    BY <1>1, <1>3
  <2>. QED  BY <1>3, <2>1, FS_Singleton DEF RequestCount
<1>. QED  BY <1>2, <1>3

\* An empty channel has no answers.
LEMMA NothingSent ==
    ASSUME NEW c
    PROVE  /\ requestMsgs[c] = <<>> => UntakenCount(c) = 0
           /\ handleMsgs[c] = <<>> => Len(handleMsgs[c]) = 0
           /\ ackMsgs[c] = <<>> => AckCount(c) = 0
           /\ (\A m \in Mail(c) : m.to # "client") => DataCount(c) = 0
<1>1. ASSUME requestMsgs[c] = <<>> PROVE UntakenCount(c) = 0
  <2>1. {j \in DOMAIN requestMsgs[c] : requestMsgs[c][j].operation # "empty"} = {}
    BY <1>1
  <2>. QED  BY <2>1, FS_EmptySet DEF UntakenCount
<1>2. ASSUME \A m \in Mail(c) : m.to # "client" PROVE DataCount(c) = 0
  <2>1. {m \in dataMsgs : m.to = "client" /\ m.rank = c} = {}
    BY <1>2 DEF Mail
  <2>. QED  BY <2>1, FS_EmptySet DEF DataCount
<1>. QED  BY <1>1, <1>2 DEF AckCount

\* A client that expects an answer has one request or one answer on the way,
\* in one place.
LEMMA CountsOfClient ==
    ASSUME TypeOK, Running, NEW stage \in [Ids -> Stages], NEW own \in [Clients -> Ids \cup {NoId}],
           OwnInv(stage, own), ClientInv(stage, own), NEW c \in Clients
    PROVE  RequestCount(c) + UntakenCount(c) + (Len(handleMsgs[c]) + DataCount(c) + AckCount(c))
           = Expected(c)
<1>1. RequestCount(c) = IF own[c] = NoId THEN 0 ELSE 1
  BY CountRequests
<1>2. CASE pc[c] \in Idle /\ Quiet(c, own)
  <2>1. /\ requestMsgs[c] = <<>> /\ handleMsgs[c] = <<>> /\ ackMsgs[c] = <<>> /\ Mail(c) = {}
        /\ own[c] = NoId
    BY <1>2 DEF Quiet
  <2>2. Expected(c) = 0
    BY <1>2 DEF Expected, Idle
  <2>. QED  BY <1>1, <2>1, <2>2, NothingSent
<1>3. CASE Asking(c, own)
  <2>1. /\ requestMsgs[c] = <<AsksFor(c)>> /\ handleMsgs[c] = <<>> /\ ackMsgs[c] = <<>>
        /\ Mail(c) = {} /\ own[c] = NoId /\ pc[c] \in {"handle", "id", "closing", "done"}
    BY <1>3 DEF Asking
  <2>2. DOMAIN requestMsgs[c] = {1} /\ requestMsgs[c][1] = AsksFor(c)
    BY <2>1
  <2>3. AsksFor(c).operation = "empty" <=> pc[c] = "done"
    BY <2>1 DEF AsksFor, TypeOK, ClientTypes
  <2>4. UntakenCount(c) = IF pc[c] = "done" THEN 0 ELSE 1
    <3>1. CASE pc[c] = "done"
      <4>1. {j \in DOMAIN requestMsgs[c] : requestMsgs[c][j].operation # "empty"} = {}
        BY <2>2, <2>3, <3>1
      <4>. QED  BY <3>1, <4>1, FS_EmptySet DEF UntakenCount
    <3>2. CASE pc[c] # "done"
      <4>1. {j \in DOMAIN requestMsgs[c] : requestMsgs[c][j].operation # "empty"} = {1}
        BY <2>2, <2>3, <3>2
      <4>. QED  BY <3>2, <4>1, FS_Singleton DEF UntakenCount
    <3>. QED  BY <3>1, <3>2
  <2>5. Expected(c) = IF pc[c] = "done" THEN 0 ELSE 1
    BY <2>1 DEF Expected
  <2>. QED  BY <1>1, <2>1, <2>4, <2>5, NothingSent
<1>4. CASE Served(c, stage, own)
  <2>1. /\ own[c] # NoId /\ requestMsgs[c] = <<>> /\ handleMsgs[c] = <<>>
        /\ pc[c] \in {"handle", "id", "ack", "data", "closing"}
        /\ pc[c] \in {"ack", "closing"} => ackMsgs[c] = <<>>
    BY <1>4, MarkersApart DEF Served, ServedAs
  <2>2. \A m \in Mail(c) : m.to # "client"
    BY <1>4 DEF Served, ServedAs
  <2>3. AckCount(c) = 0 /\ Expected(c) = 1
    BY <2>1, NothingSent DEF AckCount, Expected
  <2>. QED  BY <1>1, <2>1, <2>2, <2>3, NothingSent
<1>5. CASE HasAnswer(c, own)
  <2>1. own[c] = NoId /\ requestMsgs[c] = <<>>
    BY <1>5 DEF HasAnswer
  <2>2. CASE pc[c] = "handle" /\ Len(handleMsgs[c]) = 1 /\ ackMsgs[c] = <<>> /\ Mail(c) = {}
    <3>1. Expected(c) = 1
      BY <2>2 DEF Expected
    <3>. QED  BY <1>1, <2>1, <2>2, <3>1, NothingSent
  <2>3. CASE pc[c] \in {"closing", "ack"} /\ handleMsgs[c] = <<>> /\ Len(ackMsgs[c]) = 1 /\ Mail(c) = {}
    <3>1. Expected(c) = 1 /\ AckCount(c) = 1
      BY <2>3 DEF Expected, AckCount
    <3>. QED  BY <1>1, <2>1, <2>3, <3>1, NothingSent
  <2>4. CASE /\ pc[c] \in {"id", "data"} /\ handleMsgs[c] = <<>>
             /\ \E m \in [to : {"client"}, rank : {c}, tag : Ids, data : Bytes] : Mail(c) = {m}
    <3>1. PICK m \in [to : {"client"}, rank : {c}, tag : Ids, data : Bytes] : Mail(c) = {m}
      BY <2>4
    <3>2. {n \in dataMsgs : n.to = "client" /\ n.rank = c} = {m}
      BY <3>1 DEF Mail
    <3>3. DataCount(c) = 1
      BY <3>2, FS_Singleton DEF DataCount
    <3>4. Expected(c) = 1 /\ AckCount(c) = 0
      BY <2>4 DEF Expected, AckCount
    <3>. QED  BY <1>1, <2>1, <2>4, <3>3, <3>4, NothingSent
  <2>5. \/ pc[c] = "handle" /\ Len(handleMsgs[c]) = 1 /\ ackMsgs[c] = <<>> /\ Mail(c) = {}
        \/ pc[c] \in {"closing", "ack"} /\ handleMsgs[c] = <<>> /\ Len(ackMsgs[c]) = 1 /\ Mail(c) = {}
        \/ /\ pc[c] \in {"id", "data"} /\ handleMsgs[c] = <<>>
           /\ \E m \in [to : {"client"}, rank : {c}, tag : Ids, data : Bytes] : Mail(c) = {m}
    BY <1>5 DEF HasAnswer
  <2>. QED  BY <2>2, <2>3, <2>4, <2>5
<1>6. ~GaveUp(c, own)
  BY DEF GaveUp, Running
<1>. QED  BY <1>2, <1>3, <1>4, <1>5, <1>6 DEF ClientInv, ClientOK

\* What the invariant says of the answers.
LEMMA InvariantAnswers == TypeOK /\ IInv /\ Running => OneAnswerPerRequest
<1>. SUFFICES ASSUME TypeOK, IInv, Running PROVE OneAnswerPerRequest
  OBVIOUS
<1>1. PICK stage \in [Ids -> Stages], own \in [Clients -> Ids \cup {NoId}] : SafetyInv(stage, own)
  BY DEF IInv
<1>2. ASSUME NEW c \in Clients
      PROVE  RequestCount(c) + UntakenCount(c) + (Len(handleMsgs[c]) + DataCount(c) + AckCount(c))
             = Expected(c)
  BY <1>1, CountsOfClient DEF SafetyInv
<1>. QED  BY <1>2, Zenon
     DEF OneAnswerPerRequest, Answers, RequestCount, UntakenCount, DataCount, AckCount, Expected

-----------------------------------------------------------------------------
(* What a step does to the requests. *)

RequestLives(id) == /\ fr[id] # NoRequest /\ fr'[id].rank = fr[id].rank
                    /\ fr'[id].offset = fr[id].offset /\ fr'[id].operation = fr[id].operation
RequestGoesOnOrEnds(id) == fr'[id] = fr[id] \/ fr'[id] = NoRequest \/ RequestLives(id)

\* A step that writes the buffer of a request keeps it.
LEMMA BufferOfRequest ==
    ASSUME TypeOK, NEW stage, NEW own, OwnInv(stage, own), NEW id \in Ids, stage[id] # "free",
           NEW b, fr' = [fr EXCEPT ![id].buffer = b]
    PROVE  \A i \in Ids : RequestGoesOnOrEnds(i)
<1>1. fr[id] # NoRequest /\ DOMAIN fr = Ids
  BY DEF OwnInv, TypeOK, FileTypes
<1>2. "buffer" \in DOMAIN fr[id] /\ "rank" \in DOMAIN fr[id] /\ "offset" \in DOMAIN fr[id]
      /\ "operation" \in DOMAIN fr[id]
  BY RequestFields
<1>3. RequestLives(id)
  BY <1>1, <1>2 DEF RequestLives
<1>. QED  BY <1>1, <1>3 DEF RequestGoesOnOrEnds

\* A step that frees a request leaves the others.
LEMMA EndOfRequest ==
    ASSUME NEW id, fr' = [fr EXCEPT ![id] = NoRequest], DOMAIN fr = Ids
    PROVE  \A i \in Ids : RequestGoesOnOrEnds(i)
BY DEF RequestGoesOnOrEnds

\* Only the listener turns an identifier over to another client.
LEMMA StepsKeepRequests ==
    ASSUME TypeOK, NEW stage \in [Ids -> Stages], NEW own \in [Clients -> Ids \cup {NoId}],
           SafetyInv(stage, own), [Next]_vars, ~\E c \in Clients : ListenerRequest(c)
    PROVE  \A id \in Ids : RequestGoesOnOrEnds(id)
<1>0. StageInv(stage) /\ OwnInv(stage, own) /\ DOMAIN fr = Ids
  BY DEF SafetyInv, TypeOK, FileTypes
<1>1. ASSUME UNCHANGED fr PROVE \A id \in Ids : RequestGoesOnOrEnds(id)
  BY <1>1 DEF RequestGoesOnOrEnds
<1>2. ASSUME NEW t \in PoolThreads, HandleAck(t) PROVE \A id \in Ids : RequestGoesOnOrEnds(id)
  <2>1. PICK id, to, next : id = Current(t) /\ to = AfterAck(HandleOf(id)) /\ next = Move(stage, {id}, to)
    OBVIOUS
  <2>2. id \in Ids /\ stage[id] = "begin"
    BY <1>0, <1>2, <2>1, HandleAckStages
  <2>3. fr' = [fr EXCEPT ![id].buffer = FreshBuffer]
    BY <1>2, <2>1 DEF HandleAck
  <2>. QED  BY <1>0, <2>2, <2>3, BufferOfRequest
<1>3. ASSUME NEW t \in PoolThreads, HandleWriteWait(t) PROVE \A id \in Ids : RequestGoesOnOrEnds(id)
  <2>1. PICK id, next : id = Current(t) /\ next = Move(stage, {id}, "hash")
    OBVIOUS
  <2>2. id \in Ids /\ stage[id] = "wait"
    BY <1>0, <1>3, <2>1, HandleWriteWaitStages
  <2>3. \E m : fr' = [fr EXCEPT ![id].buffer = m.data]
    BY <1>3, <2>1 DEF HandleWriteWait
  <2>. QED  BY <1>0, <2>2, <2>3, BufferOfRequest
<1>4. ASSUME NEW t \in PoolThreads, DispatchRead(t) PROVE \A id \in Ids : RequestGoesOnOrEnds(id)
  <2>1. PICK id, next : id = Current(t) /\ next = Move(stage, {id}, "transferred")
    OBVIOUS
  <2>2. id \in Ids /\ stage[id] = "transfer"
    BY <1>0, <1>4, <2>1, DispatchStages
  <2>3. UNCHANGED fr \/ \E b : fr' = [fr EXCEPT ![id].buffer = b]
    BY <1>4, <2>1 DEF DispatchRead, Pread
  <2>. QED  BY <1>0, <1>1, <2>2, <2>3, BufferOfRequest
<1>5. ASSUME NEW t \in PoolThreads, CallbackReply(t) PROVE \A id \in Ids : RequestGoesOnOrEnds(id)
  BY <1>0, <1>5, EndOfRequest DEF CallbackReply
<1>6. ASSUME NEW t \in PoolThreads, Pool(t) PROVE \A id \in Ids : RequestGoesOnOrEnds(id)
  <2>1. CASE ~(HandleAck(t) \/ HandleWriteWait(t) \/ DispatchRead(t) \/ CallbackReply(t))
    BY <1>1, <1>6, <2>1
    DEF Pool, PoolPull, HandleHash, HandleAgios, DispatchSort, DispatchWrite, DispatchDone, CallbackDel
  <2>. QED  BY <1>2, <1>3, <1>4, <1>5, <2>1
<1>7. ASSUME NEW h \in Handlers, Handler(h) PROVE \A id \in Ids : RequestGoesOnOrEnds(id)
  <2>1. CASE HandlerSendHandle(h) \/ HandlerAckClose(h)
    BY <1>0, <2>1, EndOfRequest DEF HandlerSendHandle, HandlerAckClose
  <2>2. CASE ~(HandlerSendHandle(h) \/ HandlerAckClose(h))
    BY <1>1, <1>7, <2>2 DEF Handler, HandlerPop, HandlerOpen, HandlerDelegate, HandlerClose
  <2>. QED  BY <2>1, <2>2
<1>8. ASSUME Listener PROVE UNCHANGED fr
  BY <1>8 DEF Listener, ListenerShutdown
<1>9. ASSUME NEW c \in Clients, Client(c) PROVE UNCHANGED fr
  BY <1>9, ClientLeaves DEF serverVars
<1>10. ASSUME Agios \/ Dispatcher PROVE UNCHANGED fr
  BY <1>10 DEF Agios, AgiosCallback, AgiosCallbackAggregated, agiosOnly,
     Dispatcher, DispatcherPop, DispatcherFind, DispatcherBatch, DispatcherSubmit, dispatcherOnly
<1>11. ASSUME UNCHANGED vars \/ Finished PROVE UNCHANGED fr
  BY <1>11 DEF Finished, vars
<1>. QED  BY <1>1, <1>6, <1>7, <1>8, <1>9, <1>10, <1>11 DEF Next

IdsNotReused ==
    \A id \in Ids :
          (fr'[id] # NoRequest /\ fr[id] = NoRequest => \A m \in dataMsgs : m.tag # id)
       /\ (fr'[id] # NoRequest /\ fr[id] # NoRequest =>
              fr'[id].rank = fr[id].rank /\ fr'[id].offset = fr[id].offset
              /\ fr'[id].operation = fr[id].operation)

\* No step gives an identifier in use to another request.
LEMMA StepsReuseNoId ==
    ASSUME IdsSuffice, TypeOK, IInv, [Next]_vars PROVE IdsNotReused
<1>1. PICK stage \in [Ids -> Stages], own \in [Clients -> Ids \cup {NoId}] : SafetyInv(stage, own)
  BY DEF IInv
<1>2. CASE ~\E c \in Clients : ListenerRequest(c)
  BY <1>1, <1>2, StepsKeepRequests DEF IdsNotReused, RequestGoesOnOrEnds, RequestLives
<1>3. ASSUME NEW c \in Clients, ListenerRequest(c) PROVE IdsNotReused
  <2>1. /\ global_id' \in Ids /\ stage[global_id'] = "free"
        /\ \A d \in Clients : ~Tagged(d, global_id', own)
    BY <1>1, <1>3, NextIdStage DEF SafetyInv
  <2>2. fr[global_id'] = NoRequest
    BY <1>1, <2>1 DEF SafetyInv, OwnInv
  <2>3. \A m \in dataMsgs : m.tag # global_id'
    BY <2>1 DEF Tagged, TypeOK, NetTypes
  <2>4. \A id \in Ids : id # global_id' => fr'[id] = fr[id]
    BY <1>3 DEF ListenerRequest, TypeOK, FileTypes
  <2>. QED  BY <2>2, <2>3, <2>4 DEF IdsNotReused
<1>. QED  BY <1>2, <1>3

\* The listener never issues an identifier that is in use: IdsAreNotReused,
\* whatever the number of clients and requests, while there are identifiers
\* enough for the requests that can overtake one.
THEOREM IdentifiersAreUnique == ASSUME IdsSuffice PROVE Spec => IdsAreNotReused
<1>1. TypeOK /\ IInv /\ [Next]_vars => IdsNotReused
  BY StepsReuseNoId
<1>2. TypeOK /\ IInv /\ [Next]_vars => [IdsNotReused]_vars
  BY <1>1
<1>3. Spec => [][IdsNotReused]_vars
  BY <1>1, TypeCorrect, Inductive, PTL DEF Spec
<1>. QED  BY <1>3 DEF IdsAreNotReused, IdsNotReused

\* The queues, AGIOS and the threads have each request in exactly one place:
\* no handover between two threads loses or doubles one.
THEOREM OnePlace == ASSUME IdsSuffice PROVE Spec => []EachRequestInOnePlace
<1>. QED  BY InvariantPlaces, TypeCorrect, Inductive, PTL

\* A request that AGIOS may hand out, or that waits in the ready queue, is in
\* the hash: the dispatcher finds it.
THEOREM ScheduledHashed == ASSUME IdsSuffice PROVE Spec => []ScheduledAreHashed
<1>. QED  BY InvariantSchedule, TypeCorrect, Inductive, PTL

\* No reason to stop the program ever turns up, the check of the bytes a
\* client reads included, if it has written them.
THEOREM NoAborts == ASSUME IdsSuffice, ReadsOwnWrites PROVE Spec => []NeverAborts
<1>1. Init => NeverAborts
  BY DEF Init, NeverAborts
<1>2. TypeOK /\ IInv /\ NeverAborts /\ [Next]_vars => NeverAborts'
  BY NoAbort DEF NeverAborts
<1>. QED  BY <1>1, <1>2, TypeCorrect, Inductive, PTL DEF Spec

\* A client that waits gets one answer to what it asked, and no client gets
\* one it does not wait for.
THEOREM OneAnswer == ASSUME IdsSuffice, ReadsOwnWrites PROVE Spec => []OneAnswerPerRequest
<1>1. TypeOK /\ IInv /\ NeverAborts => OneAnswerPerRequest
  BY InvariantAnswers DEF NeverAborts, Running
<1>. QED  BY <1>1, NoAborts, TypeCorrect, Inductive, PTL

-----------------------------------------------------------------------------
(* The safety properties, for every size of a run. *)

\* The reference count of an open file is the number of clients between the
\* effects of their open and close.
THEOREM ReferencesCounted == ASSUME IdsSuffice PROVE Spec => []ReferencesCountUsers
<1>. QED  BY InvariantReferences, TypeCorrect, Inductive, PTL

\* The handle that a client uses names its file, and stays open as long as
\* the client may use it.
THEOREM HandlesOpen == ASSUME IdsSuffice PROVE Spec => []HandlesStayOpen
<1>. QED  BY InvariantHandles, TypeCorrect, Inductive, PTL

\* A write that the client knows to be done is in the file, if no transfer
\* falls short.
THEOREM WritesOnDisk == ASSUME IdsSuffice PROVE Spec => []DoneWritesAreOnDisk
<1>. QED  BY InvariantWrites, TypeCorrect, Inductive, PTL

\* Neither the buffers nor the messages of a request have the bytes of
\* another client.
THEOREM NoOthersBytes == ASSUME IdsSuffice PROVE Spec => []NoForeignBytes
<1>. QED  BY InvariantBytes, TypeCorrect, Inductive, PTL

\* What the dispatcher puts together in a batch is of one file and operation,
\* without repetition and within MAX_BATCH_SIZE.
THEOREM SoundBatches == ASSUME IdsSuffice PROVE Spec => []BatchesAreSound
<1>. QED  BY InvariantBatches, TypeCorrect, Inductive, PTL

\* When the server stops, no request is left in it.
THEOREM StopsDrained == ASSUME IdsSuffice PROVE Spec => []StopsOnlyWhenDrained
<1>. QED  BY InvariantStop, TypeCorrect, Inductive, PTL

-----------------------------------------------------------------------------
(* The refinement: what the file service sees of a step. *)

\* Client d is for the file service as it was; the files are.
AsBefore(d) == /\ Called(d)' = Called(d) /\ IsDone(d)' = IsDone(d)
               /\ Result(d)' = Result(d) /\ Uses(d)' = Uses(d)
OthersAsBefore(c) == \A d \in Clients : d # c => AsBefore(d)
CountsAsBefore == \A f \in Files : opened_files'[f].references = opened_files[f].references

\* The state functions of the refinement mapping.
Calls   == [c \in Clients |-> Called(c)]
Dones   == [c \in Clients |-> IsDone(c)]
Results == [c \in Clients |-> Result(c)]
Users   == {c \in Clients : Uses(c)}
Counts  == [f \in Files |-> opened_files[f].references]

\* What is done and who uses its file are truth values.
LEMMA MappedBooleans ==
    ASSUME NEW c PROVE /\ IsDone(c) \in BOOLEAN /\ Uses(c) \in BOOLEAN
                       /\ IsDone(c)' \in BOOLEAN /\ Uses(c)' \in BOOLEAN
BY DEF IsDone, Uses

\* A step of one client changes one entry of what the file service sees.
LEMMA MappedOthers ==
    ASSUME NEW c \in Clients, OthersAsBefore(c)
    PROVE  /\ Calls' = [Calls EXCEPT ![c] = Called(c)']
           /\ Dones' = [Dones EXCEPT ![c] = IsDone(c)']
           /\ Results' = [Results EXCEPT ![c] = Result(c)']
           /\ Calls[c] = Called(c) /\ Dones[c] = IsDone(c) /\ Results[c] = Result(c)
           /\ Users \subseteq Clients /\ Users' \subseteq Clients
           /\ c \in Users <=> Uses(c)
           /\ c \in Users' <=> Uses(c)'
           /\ \A d \in Clients : d # c => (d \in Users' <=> d \in Users)
<1>1. /\ Calls' = [Calls EXCEPT ![c] = Called(c)'] /\ Calls[c] = Called(c)
      /\ Dones' = [Dones EXCEPT ![c] = IsDone(c)'] /\ Dones[c] = IsDone(c)
      /\ Results' = [Results EXCEPT ![c] = Result(c)'] /\ Results[c] = Result(c)
  BY DEF OthersAsBefore, AsBefore, Calls, Dones, Results
<1>2. \A d \in Clients : (d \in Users <=> Uses(d)) /\ (d \in Users' <=> Uses(d)')
  BY DEF Users
<1>3. Users \subseteq Clients /\ Users' \subseteq Clients
  BY DEF Users
<1>4. ASSUME NEW d \in Clients, d # c PROVE d \in Users' <=> d \in Users
  <2>1. Uses(d)' = Uses(d)
    BY <1>4 DEF OthersAsBefore, AsBefore
  <2>. QED  BY <1>2, <2>1, MappedBooleans
<1>. QED  BY <1>1, <1>2, <1>3, <1>4

\* The user counts of the file service are the reference counts.
LEMMA MappedCounts == CountsAsBefore => Counts' = Counts
BY DEF CountsAsBefore, Counts

\* Where nothing of this changes, the file service takes no step.
LEMMA MappedStutter ==
    ASSUME \A d \in Clients : AsBefore(d), CountsAsBefore, UNCHANGED disk
    PROVE  UNCHANGED FS!vars
<1>1. Calls' = Calls /\ Dones' = Dones /\ Results' = Results /\ Users' = Users /\ Counts' = Counts
  BY DEF AsBefore, Calls, Dones, Results, Users, Counts, CountsAsBefore
<1>. QED  BY <1>1 DEF FS!vars, Calls, Dones, Results, Users, Counts

\* The program starts where the file service does.
LEMMA MappedInit == Init => FS!Init
<1>. SUFFICES ASSUME Init PROVE FS!Init
  OBVIOUS
<1>1. ASSUME NEW c \in Clients
      PROVE  Called(c) = FS!NoCall /\ IsDone(c) = FALSE /\ Result(c) = Nobody /\ ~Uses(c)
  <2>1. pc[c] = "open"
    BY DEF Init
  <2>2. Called(c) = [op |-> "none", block |-> 0]
    BY <2>1 DEF Called
  <2>. QED  BY <2>1, <2>2 DEF FS!NoCall, IsDone, Result, Uses
<1>2. \A f \in Files : opened_files[f].references = 0
  BY DEF Init, NotOpened
<1>3. FS!Files = Files
  BY DEF FS!Files, Files
<1>4. Calls = [c \in Clients |-> FS!NoCall] /\ Dones = [c \in Clients |-> FALSE]
      /\ Results = [c \in Clients |-> Nobody] /\ Users = {} /\ Counts = [f \in Files |-> 0]
  BY <1>1, <1>2 DEF Calls, Dones, Results, Users, Counts
<1>5. disk = [f \in Files |-> [b \in Blocks |-> Nobody]]
  BY DEF Init
<1>. QED  BY <1>3, <1>4, <1>5 DEF FS!Init, Calls, Dones, Results, Users, Counts

-----------------------------------------------------------------------------
(* What the file service sees of a client, by the histories. *)

EffectStages == {"reply"} \cup Transferred
PendingBy(c, stage, own) ==
    requestMsgs[c] # <<>> \/ (own[c] # NoId /\ stage[own[c]] \notin EffectStages)
FoundBy(c, own) == {fr[id].buffer : id \in {own[c]} \ {NoId}}
                   \cup {m.data : m \in {m \in Mail(c) : m.to = "client"}}
ViewOf(stage, own) ==
    \A c \in Clients : (Pending(c) <=> PendingBy(c, stage, own)) /\ Found(c) = FoundBy(c, own)
HistoryInv(stage, own) ==
    IsHistory(stage, own) /\ StageInv(stage) /\ OwnInv(stage, own) /\ ClientInv(stage, own)

\* Whether an operation has had its effect, and what a read has found, follow
\* from the histories.
LEMMA Views ==
    ASSUME TypeOK, NEW stage, NEW own, HistoryInv(stage, own) PROVE ViewOf(stage, own)
<1>. SUFFICES ASSUME NEW c \in Clients
     PROVE  (Pending(c) <=> PendingBy(c, stage, own)) /\ Found(c) = FoundBy(c, own)
  BY DEF ViewOf
<1>1. /\ stage \in [Ids -> Stages] /\ own \in [Clients -> Ids \cup {NoId}]
      /\ StageInv(stage) /\ OwnInv(stage, own) /\ ClientInv(stage, own)
  BY DEF HistoryInv, IsHistory
<1>2. Pending(c) <=> PendingBy(c, stage, own)
  BY <1>1, PendingRequests DEF PendingBy, EffectStages
<1>3. \A id \in Ids : fr[id].rank = c <=> own[c] = id
  BY <1>1, RequestsOf
<1>4. {id \in Ids : fr[id].rank = c} = {own[c]} \ {NoId}
  BY <1>1, <1>3, MarkersApart
<1>5. {m \in dataMsgs : m.to = "client" /\ m.rank = c} = {m \in Mail(c) : m.to = "client"}
  BY DEF Mail
<1>. QED  BY <1>2, <1>4, <1>5 DEF Found, FoundBy

ViewsFact == \A stage, own : TypeOK /\ HistoryInv(stage, own) => ViewOf(stage, own)

\* The same for all histories at once.
LEMMA ViewsHold == ViewsFact
  BY Views DEF ViewsFact

\* And after a step.
LEMMA ViewsNext ==
    ASSUME TypeOK', NEW next, NEW nown, HistoryInv(next, nown)' PROVE ViewOf(next, nown)'
<1>1. ViewsFact'
  BY ViewsHold, PTL
<1>. QED  BY <1>1 DEF ViewsFact

\* Client d sees nothing of a step from (stage, own) to (next, nown).
SameView(d, stage, own, next, nown) ==
    /\ pc'[d] = pc[d] /\ phase'[d] = phase[d] /\ iter'[d] = iter[d]
    /\ pc[d] \in Waiting => (PendingBy(d, next, nown)' <=> PendingBy(d, stage, own))
    /\ pc[d] \in {"id", "ack", "data"} /\ phase[d] = "read" /\ ~PendingBy(d, stage, own) =>
          FoundBy(d, nown)' = FoundBy(d, own)

\* A client that waits for no answer has called nothing; a read is called in
\* the read phase.
LEMMA CalledCases ==
    ASSUME NEW d
    PROVE  /\ pc[d] \notin Waiting => Called(d) = [op |-> "none", block |-> 0]
           /\ Called(d).op = "read" => pc[d] \in {"id", "ack", "data"} /\ phase[d] = "read"
  BY DEF Called, Waiting

\* A client whose own state, stage and buffer are as before is so for the
\* file service.
LEMMA SeenAsBefore ==
    ASSUME NEW stage, NEW own, NEW next, NEW nown, ViewOf(stage, own), ViewOf(next, nown)',
           NEW d \in Clients, SameView(d, stage, own, next, nown)
    PROVE  AsBefore(d)
<1>1. Called(d)' = Called(d)
  BY DEF SameView, Called
<1>2. pc[d] \in Waiting => (Pending(d)' <=> Pending(d))
  BY DEF SameView, ViewOf
<1>3. IsDone(d)' = IsDone(d)
  <2>1. CASE pc[d] \in Waiting
    BY <1>1, <1>2, <2>1 DEF IsDone
  <2>2. CASE pc[d] \notin Waiting
    BY <1>1, <2>2, CalledCases DEF IsDone
  <2>. QED  BY <2>1, <2>2
<1>4. Result(d)' = Result(d)
  <2>1. CASE Called(d).op = "read" /\ IsDone(d)
    <3>1. ~Pending(d) /\ pc[d] \in {"id", "ack", "data"} /\ phase[d] = "read"
      BY <2>1, CalledCases DEF IsDone
    <3>2. Found(d)' = Found(d)
      BY <3>1 DEF SameView, ViewOf
    <3>. QED  BY <1>1, <1>3, <3>2 DEF Result
  <2>2. CASE ~(Called(d).op = "read" /\ IsDone(d))
    BY <1>1, <1>3, <2>2 DEF Result
  <2>. QED  BY <2>1, <2>2
<1>5. Uses(d)' = Uses(d)
  BY <1>2 DEF Uses, SameView, Waiting
<1>. QED  BY <1>1, <1>3, <1>4, <1>5 DEF AsBefore

\* The other clients, when a step concerns a request of client c.
LEMMA OthersSeeNothing ==
    ASSUME NEW stage, NEW own, NEW next, NEW nown, ClientInv(stage, own),
           NEW c, NEW id, stage[id] = "free" \/ fr[id].rank = c,
           OtherStages(stage, next, id), OtherOwners(own, nown, c), OtherRequests(id),
           OtherMessages(c), UNCHANGED clientVars, IsHistory(stage, own),
           NEW d \in Clients, d # c
    PROVE  SameView(d, stage, own, next, nown)
<1>1. own[d] # NoId => own[d] # id /\ own[d] \in Ids
  BY ServedClient DEF ClientInv, Served, IsRequestOf, IsHistory
<1>2. nown[d] = own[d] /\ requestMsgs'[d] = requestMsgs[d] /\ Mail(d)' = Mail(d)
  BY DEF OtherOwners, OtherMessages
<1>3. own[d] # NoId => next[own[d]] = stage[own[d]] /\ fr'[own[d]] = fr[own[d]]
  BY <1>1 DEF OtherStages, OtherRequests
<1>4. PendingBy(d, next, nown)' <=> PendingBy(d, stage, own)
  BY <1>2, <1>3 DEF PendingBy
<1>5. FoundBy(d, nown)' = FoundBy(d, own)
  <2>1. CASE own[d] = NoId
    BY <1>2, <2>1 DEF FoundBy
  <2>2. CASE own[d] # NoId
    <3>1. {fr'[i].buffer : i \in {own[d]} \ {NoId}} = {fr[i].buffer : i \in {own[d]} \ {NoId}}
      BY <1>3, <2>2
    <3>. QED  BY <1>2, <3>1 DEF FoundBy
  <2>. QED  BY <2>1, <2>2
<1>. QED  BY <1>4, <1>5 DEF SameView, clientVars

-----------------------------------------------------------------------------
(* Steps of the server that the file service does not see. *)

\* If that holds of all clients, and the files are as before, the file
\* service takes no step.
LEMMA StutterOfViews ==
    ASSUME TypeOK, TypeOK', NEW stage, NEW own, NEW next, NEW nown,
           HistoryInv(stage, own), HistoryInv(next, nown)',
           \A d \in Clients : SameView(d, stage, own, next, nown), UNCHANGED disk,
           UNCHANGED opened_files
    PROVE  UNCHANGED FS!vars
<1>1. ViewOf(stage, own) /\ ViewOf(next, nown)'
  BY Views, ViewsNext
<1>2. \A d \in Clients : AsBefore(d)
  BY <1>1, SeenAsBefore
<1>3. CountsAsBefore
  BY DEF CountsAsBefore
<1>. QED  BY <1>2, <1>3, MappedStutter

\* It takes none in the hidden steps of the server.
LEMMA HiddenStutter ==
    ASSUME TypeOK, TypeOK', NEW stage, NEW own, HistoryInv(stage, own), HiddenStep(stage)
    PROVE  UNCHANGED FS!vars
<1>1. PICK next \in [Ids -> Stages] : HidesStep(stage, next)
  BY DEF HiddenStep
<1>2. Silent(stage, next) /\ StageInv(next)' /\ QuietStep /\ UNCHANGED disk
      /\ \A id \in Ids : stage[id] \in Transferred <=> next[id] \in Transferred
  BY <1>1 DEF HidesStep, HiddenStep
<1>3. OwnInv(stage, own) /\ ClientInv(stage, own) /\ IsHistory(stage, own)
  BY DEF HistoryInv
<1>4. HistoryInv(next, own)'
  BY <1>2, <1>3, HiddenClients DEF HistoryInv, IsHistory
<1>5. \A id \in Ids : stage[id] \in EffectStages <=> next[id] \in EffectStages
  BY <1>2 DEF Silent, Alike, EffectStages
<1>6. UNCHANGED <<clientVars, requestMsgs, dataMsgs, fr>> /\ UNCHANGED opened_files
  BY <1>2 DEF QuietStep, netVars
<1>7. ASSUME NEW d \in Clients PROVE SameView(d, stage, own, next, own)
  <2>1. own[d] # NoId => own[d] \in Ids
    BY <1>3 DEF IsHistory
  <2>2. PendingBy(d, next, own)' <=> PendingBy(d, stage, own)
    BY <1>5, <1>6, <2>1 DEF PendingBy
  <2>3. FoundBy(d, own)' = FoundBy(d, own)
    BY <1>6 DEF FoundBy, Mail
  <2>. QED  BY <1>6, <2>2, <2>3 DEF SameView, clientVars
<1>. QED  BY <1>2, <1>4, <1>6, <1>7, StutterOfViews

\* A step that concerns the request id of client c.
RequestOnly(stage, own, next, nown, id, c) ==
    /\ stage[id] = "free" \/ fr[id].rank = c
    /\ OtherStages(stage, next, id) /\ OtherOwners(own, nown, c) /\ OtherRequests(id)
    /\ OtherMessages(c) /\ UNCHANGED clientVars

\* Nor when the request of one client goes on, short of its effect.
LEMMA RequestStutter ==
    ASSUME TypeOK, TypeOK', NEW stage, NEW own, NEW next, NEW nown,
           HistoryInv(stage, own), HistoryInv(next, nown)',
           NEW c \in Clients, NEW id, RequestOnly(stage, own, next, nown, id, c),
           SameView(c, stage, own, next, nown), UNCHANGED <<disk, opened_files>>
    PROVE  UNCHANGED FS!vars
<1>1. ASSUME NEW d \in Clients, d # c PROVE SameView(d, stage, own, next, nown)
  BY <1>1, OthersSeeNothing DEF RequestOnly, HistoryInv
<1>. QED  BY <1>1, StutterOfViews

\* The buffer of a request is filled before the file sees it.
LEMMA BufferStutter ==
    ASSUME TypeOK, TypeOK', Running, NEW stage, NEW own, HistoryInv(stage, own),
           NEW t \in PoolThreads, HandleAck(t) \/ HandleWriteWait(t)
    PROVE  UNCHANGED FS!vars
<1>0. /\ StageInv(stage) /\ OwnInv(stage, own) /\ ClientInv(stage, own) /\ IsHistory(stage, own)
      /\ stage \in [Ids -> Stages] /\ own \in [Clients -> Ids \cup {NoId}]
  BY DEF HistoryInv, IsHistory
<1>1. PICK id, c : id = Current(t) /\ c = fr[id].rank
  OBVIOUS
<1>2. PICK to \in {"wait", "hash"} : /\ id \in Ids /\ stage[id] \in {"begin", "wait"}
         /\ \A next : next = Move(stage, {id}, to) =>
                       StageInv(next)' /\ OwnInv(next, own)' /\ ClientInv(next, own)'
  <2>1. CASE HandleAck(t)
    <3>1. PICK to : to = AfterAck(HandleOf(id))
      OBVIOUS
    <3>2. /\ id \in Ids /\ stage[id] = "begin" /\ to \in {"wait", "hash"}
          /\ to = IF fr[id].operation = "write" THEN "wait" ELSE "hash"
          /\ \A next : next = Move(stage, {id}, to) => StageInv(next)'
      BY <1>0, <1>1, <2>1, <3>1, HandleAckStages
    <3>3. \A next : next = Move(stage, {id}, to) => OwnInv(next, own)' /\ ClientInv(next, own)'
      BY <1>0, <1>1, <2>1, <3>2, HandleAckClients
    <3>. QED  BY <3>2, <3>3
  <2>2. CASE HandleWriteWait(t)
    <3>1. /\ id \in Ids /\ stage[id] = "wait"
          /\ \A next : next = Move(stage, {id}, "hash") => StageInv(next)'
      BY <1>0, <1>1, <2>2, HandleWriteWaitStages
    <3>2. \A next : next = Move(stage, {id}, "hash") => OwnInv(next, own)' /\ ClientInv(next, own)'
      BY <1>0, <1>1, <2>2, <3>1, HandleWriteWaitClients
    <3>. QED  BY <3>1, <3>2
  <2>. QED  BY <2>1, <2>2
<1>3. PICK next : next = Move(stage, {id}, to)
  OBVIOUS
<1>4. next \in [Ids -> Stages] /\ next[id] = to /\ OtherStages(stage, next, id)
  BY <1>0, <1>2, <1>3, MoveOne, MoveType, StageNames
<1>5. HistoryInv(next, own)'
  BY <1>0, <1>2, <1>3, <1>4 DEF HistoryInv, IsHistory
<1>6. c \in Clients /\ own[c] = id
  BY <1>0, <1>1, <1>2, RequestOf
<1>7. /\ UNCHANGED clientVars /\ UNCHANGED <<disk, opened_files>>
      /\ UNCHANGED <<requestMsgs, handleMsgs>>
  BY DEF HandleAck, HandleWriteWait, poolOnly
<1>8. OtherRequests(id)
  BY <1>1, <1>2 DEF HandleAck, HandleWriteWait, OtherRequests, TypeOK, FileTypes
<1>9. OtherMessages(c)
  <2>1. \A d \in Clients : d # c => ackMsgs'[d] = ackMsgs[d]
    BY <1>1 DEF HandleAck, HandleWriteWait, Send, TypeOK, NetTypes
  <2>2. ASSUME NEW d \in Clients, d # c PROVE Mail(d)' = Mail(d)
    <3>1. CASE HandleAck(t)
      BY <3>1 DEF HandleAck, Mail
    <3>2. CASE HandleWriteWait(t)
      <4>1. PICK m \in dataMsgs : m.rank = c /\ dataMsgs' = dataMsgs \ {m}
        BY <1>1, <3>2 DEF HandleWriteWait
      <4>. QED  BY <2>2, <4>1, OtherMail
    <3>. QED  BY <3>1, <3>2
  <2>. QED  BY <1>7, <2>1, <2>2 DEF OtherMessages
<1>10. RequestOnly(stage, own, next, own, id, c)
  BY <1>1, <1>4, <1>7, <1>8, <1>9 DEF RequestOnly, OtherOwners
<1>11. SameView(c, stage, own, next, own)
  <2>1. PendingBy(c, stage, own) /\ PendingBy(c, next, own)'
    BY <1>2, <1>4, <1>6, MarkersApart DEF PendingBy, EffectStages, Transferred
  <2>. QED  BY <1>7, <2>1 DEF SameView, clientVars
<1>. QED  BY <1>5, <1>6, <1>7, <1>10, <1>11, RequestStutter

-----------------------------------------------------------------------------
(* A request passes from the client to the server and its answer back. *)

\* Nor when the listener takes a request.
LEMMA ListenerRequestStutter ==
    ASSUME TypeOK, TypeOK', Running, IdsSuffice, NEW stage, NEW own, HistoryInv(stage, own),
           BarrierInv, AgeInv(own), NEW c \in Clients, ListenerRequest(c)
    PROVE  UNCHANGED FS!vars
<1>0. /\ StageInv(stage) /\ OwnInv(stage, own) /\ ClientInv(stage, own) /\ IsHistory(stage, own)
      /\ stage \in [Ids -> Stages] /\ own \in [Clients -> Ids \cup {NoId}]
  BY DEF HistoryInv, IsHistory
<1>1. PICK id : id = global_id'
  OBVIOUS
<1>2. pc[c] # "done" /\ Asking(c, own) /\ id \in Ids /\ stage[id] = "free"
  BY <1>0, <1>1, NextIdStage
<1>3. PICK next, nown : next = Move(stage, {id}, "incoming") /\ nown = [own EXCEPT ![c] = id]
  OBVIOUS
<1>4. HistoryInv(next, nown)'
  <2>1. IsHistory(next, nown)
    BY <1>0, <1>2, <1>3, StageNames, HistoryType
  <2>2. StageInv(next)'
    BY <1>0, <1>1, <1>2, <1>3, ListenerRequestStages
  <2>3. OwnInv(next, nown)' /\ ClientInv(next, nown)'
    BY <1>0, <1>1, <1>2, <1>3, ListenerRequestClients
  <2>. QED  BY <2>1, <2>2, <2>3 DEF HistoryInv, IsHistory
<1>5. next[id] = "incoming" /\ OtherStages(stage, next, id)
  BY <1>2, <1>3, MoveOne
<1>6. nown[c] = id /\ OtherOwners(own, nown, c)
  BY <1>0, <1>3 DEF OtherOwners
<1>7. UNCHANGED clientVars /\ UNCHANGED <<disk, opened_files>>
  BY DEF ListenerRequest
<1>8. OtherRequests(id) /\ OtherMessages(c)
  BY <1>1 DEF ListenerRequest, OtherRequests, OtherMessages, Mail, Recv, TypeOK, FileTypes, NetTypes
<1>9. RequestOnly(stage, own, next, nown, id, c)
  BY <1>2, <1>5, <1>6, <1>7, <1>8 DEF RequestOnly
<1>10. SameView(c, stage, own, next, nown)
  <2>1. PendingBy(c, stage, own)
    BY DEF ListenerRequest, PendingBy
  <2>2. PendingBy(c, next, nown)'
    BY <1>2, <1>5, <1>6, MarkersApart DEF PendingBy, EffectStages, Transferred
  <2>. QED  BY <1>7, <2>1, <2>2 DEF SameView, clientVars
<1>. QED  BY <1>4, <1>7, <1>9, <1>10, RequestStutter

\* Nor when it takes a shutdown message.
LEMMA ListenerShutdownStutter ==
    ASSUME TypeOK, TypeOK', Running, NEW stage, NEW own, HistoryInv(stage, own),
           NEW c \in Clients, ListenerShutdown(c)
    PROVE  UNCHANGED FS!vars
<1>0. /\ StageInv(stage) /\ OwnInv(stage, own) /\ ClientInv(stage, own) /\ IsHistory(stage, own)
      /\ stage \in [Ids -> Stages] /\ own \in [Clients -> Ids \cup {NoId}]
  BY DEF HistoryInv, IsHistory
<1>1. pc[c] = "done" /\ OwnInv(stage, own)' /\ ClientInv(stage, own)'
  BY <1>0, ListenerShutdownClients
<1>2. StageInv(stage)'
  BY <1>0, StagesStay DEF ListenerShutdown, ioVars
<1>3. HistoryInv(stage, own)'
  BY <1>0, <1>1, <1>2 DEF HistoryInv, IsHistory
<1>4. UNCHANGED <<clientVars, dataMsgs, fr>> /\ UNCHANGED <<disk, opened_files>>
      /\ \A d \in Clients : d # c => requestMsgs'[d] = requestMsgs[d]
  BY DEF ListenerShutdown, Recv, TypeOK, NetTypes
<1>5. ASSUME NEW d \in Clients PROVE SameView(d, stage, own, stage, own)
  <2>1. FoundBy(d, own)' = FoundBy(d, own)
    BY <1>4 DEF FoundBy, Mail
  <2>2. d # c => (PendingBy(d, stage, own)' <=> PendingBy(d, stage, own))
    BY <1>4 DEF PendingBy
  <2>. QED  BY <1>1, <1>4, <2>1, <2>2 DEF SameView, clientVars, Waiting
<1>. QED  BY <1>3, <1>4, <1>5, StutterOfViews

\* Nor when a handler answers: the file was opened or closed before.
LEMMA HandlerAnswerStutter ==
    ASSUME TypeOK, TypeOK', Running, NEW stage, NEW own, HistoryInv(stage, own),
           NEW h \in Handlers, HandlerSendHandle(h) \/ HandlerAckClose(h)
    PROVE  UNCHANGED FS!vars
<1>0. /\ StageInv(stage) /\ OwnInv(stage, own) /\ ClientInv(stage, own) /\ IsHistory(stage, own)
      /\ stage \in [Ids -> Stages] /\ own \in [Clients -> Ids \cup {NoId}]
  BY DEF HistoryInv, IsHistory
<1>1. PICK id, next, c, nown : /\ id = handler[h].id /\ next = Move(stage, {id}, "free")
                               /\ c = fr[id].rank /\ nown = [own EXCEPT ![fr[id].rank] = NoId]
  OBVIOUS
<1>2. id \in Ids /\ stage[id] = "reply" /\ StageInv(next)'
  BY <1>0, <1>1, HandlerAnswerStages
<1>3. c \in Clients /\ own[c] = id /\ Served(c, stage, own)
  BY <1>0, <1>1, <1>2, RequestOf
<1>4. HistoryInv(next, nown)'
  <2>1. IsHistory(next, nown)
    BY <1>0, <1>1, <1>2, StageNames, HistoryType
  <2>2. OwnInv(next, nown)' /\ ClientInv(next, nown)'
    BY <1>0, <1>1, <1>2, HandlerAnswerClients
  <2>. QED  BY <1>2, <2>1, <2>2 DEF HistoryInv, IsHistory
<1>5. OtherStages(stage, next, id) /\ nown[c] = NoId /\ OtherOwners(own, nown, c)
  <2>1. OtherStages(stage, next, id)
    BY <1>1, <1>2, MoveOne
  <2>2. nown = [own EXCEPT ![c] = NoId]
    BY <1>1
  <2>. QED  BY <1>0, <1>3, <2>1, <2>2 DEF OtherOwners
<1>6. UNCHANGED clientVars /\ UNCHANGED disk /\ UNCHANGED <<requestMsgs, dataMsgs>>
      /\ UNCHANGED opened_files
  BY DEF HandlerSendHandle, HandlerAckClose, handlerOnly
<1>7. OtherRequests(id) /\ OtherMessages(c)
  <2>1. OtherRequests(id)
    BY <1>1 DEF HandlerSendHandle, HandlerAckClose, OtherRequests, TypeOK, FileTypes
  <2>2. \A d \in Clients : d # c => handleMsgs'[d] = handleMsgs[d] /\ ackMsgs'[d] = ackMsgs[d]
    BY <1>1 DEF HandlerSendHandle, HandlerAckClose, frOf, Send, TypeOK, NetTypes
  <2>3. \A d \in Clients : Mail(d)' = Mail(d)
    BY <1>6 DEF Mail
  <2>. QED  BY <1>6, <2>1, <2>2, <2>3 DEF OtherMessages
<1>8. RequestOnly(stage, own, next, nown, id, c)
  BY <1>1, <1>5, <1>6, <1>7 DEF RequestOnly
<1>9. SameView(c, stage, own, next, nown)
  <2>1. pc[c] \in {"handle", "closing"} /\ requestMsgs[c] = <<>>
    BY <1>2, <1>3 DEF Served, ServedAs, Unacked, Arriving, Buffered, Hashed
  <2>2. ~PendingBy(c, stage, own) /\ ~PendingBy(c, next, nown)'
    BY <1>2, <1>3, <1>5, <1>6, <2>1 DEF PendingBy, EffectStages
  <2>. QED  BY <1>6, <2>1, <2>2 DEF SameView, clientVars
<1>. QED  BY <1>3, <1>4, <1>6, <1>8, <1>9, RequestStutter

\* Nor when a callback answers: the bytes were transferred before.
LEMMA CallbackReplyStutter ==
    ASSUME TypeOK, TypeOK', Running, NEW stage, NEW own, HistoryInv(stage, own),
           NEW t \in PoolThreads, CallbackReply(t)
    PROVE  UNCHANGED FS!vars
<1>0. /\ StageInv(stage) /\ OwnInv(stage, own) /\ ClientInv(stage, own) /\ IsHistory(stage, own)
      /\ stage \in [Ids -> Stages] /\ own \in [Clients -> Ids \cup {NoId}]
  BY DEF HistoryInv, IsHistory
<1>1. PICK id, next, c, nown : /\ id = Current(t) /\ next = Move(stage, {id}, "free")
                               /\ c = fr[id].rank /\ nown = [own EXCEPT ![fr[id].rank] = NoId]
  OBVIOUS
<1>2. id \in Ids /\ stage[id] = "last" /\ StageInv(next)'
  BY <1>0, <1>1, CallbackReplyStages
<1>3. c \in Clients /\ own[c] = id /\ Served(c, stage, own)
  BY <1>0, <1>1, <1>2, RequestOf
<1>4. HistoryInv(next, nown)'
  <2>1. IsHistory(next, nown)
    BY <1>0, <1>1, <1>2, StageNames, HistoryType
  <2>2. OwnInv(next, nown)' /\ ClientInv(next, nown)'
    BY <1>0, <1>1, <1>2, CallbackReplyClients
  <2>. QED  BY <1>2, <2>1, <2>2 DEF HistoryInv, IsHistory
<1>5. OtherStages(stage, next, id) /\ nown[c] = NoId /\ OtherOwners(own, nown, c)
  BY <1>0, <1>1, <1>2, <1>3, MoveOne DEF OtherOwners
<1>6. UNCHANGED clientVars /\ UNCHANGED <<disk, opened_files>> /\ UNCHANGED <<requestMsgs, handleMsgs>>
  BY DEF CallbackReply, poolOnly
<1>7. IF fr[id].operation = "read"
      THEN /\ dataMsgs' = dataMsgs \cup {[to |-> "client", rank |-> c, tag |-> id, data |-> fr[id].buffer]}
           /\ UNCHANGED ackMsgs
      ELSE UNCHANGED dataMsgs /\ ackMsgs' = Send(ackMsgs, c, 1)
  BY <1>1 DEF CallbackReply, Answered
<1>8. OtherRequests(id) /\ OtherMessages(c)
  <2>1. OtherRequests(id)
    BY <1>1 DEF CallbackReply, OtherRequests, TypeOK, FileTypes
  <2>2. \A d \in Clients : d # c => ackMsgs'[d] = ackMsgs[d]
    BY <1>7 DEF Send, TypeOK, NetTypes
  <2>3. \A d \in Clients : d # c => Mail(d)' = Mail(d)
    BY <1>7 DEF Mail
  <2>. QED  BY <1>6, <2>1, <2>2, <2>3 DEF OtherMessages
<1>9. RequestOnly(stage, own, next, nown, id, c)
  BY <1>1, <1>5, <1>6, <1>8 DEF RequestOnly
<1>10. SameView(c, stage, own, next, nown)
  <2>1. requestMsgs[c] = <<>> /\ fr[id].operation = AsksFor(c).operation /\ pc[c] \in {"id", "ack", "data"}
    BY <1>2, <1>3 DEF Served, IsRequestOf, ServedAs, Unacked, Arriving, Buffered, Hashed
  <2>2. ~PendingBy(c, stage, own) /\ ~PendingBy(c, next, nown)'
    BY <1>2, <1>3, <1>5, <1>6, <2>1 DEF PendingBy, EffectStages, Transferred
  <2>3. ASSUME phase[c] = "read" PROVE FoundBy(c, nown)' = FoundBy(c, own)
    <3>1. fr[id].operation = "read"
      BY <2>1, <2>3 DEF AsksFor
    <3>2. Mail(c) = {}
      BY <1>2, <1>3, <2>3 DEF Served, ServedAs, Unacked, Arriving, Buffered, Hashed
    <3>3. Mail(c)' = {[to |-> "client", rank |-> c, tag |-> id, data |-> fr[id].buffer]}
      BY <1>7, <3>1, <3>2 DEF Mail
    <3>4. FoundBy(c, nown)' = {fr[id].buffer}
      <4>1. PICK m : m = [to |-> "client", rank |-> c, tag |-> id, data |-> fr[id].buffer]
        OBVIOUS
      <4>2. m.to = "client" /\ m.data = fr[id].buffer /\ Mail(c)' = {m}
        BY <3>3, <4>1
      <4>3. {x.data : x \in {x \in Mail(c)' : x.to = "client"}} = {fr[id].buffer}
        BY <4>2
      <4>4. {nown[c]} \ {NoId} = {}
        BY <1>5
      <4>. QED  BY <4>3, <4>4 DEF FoundBy
    <3>5. FoundBy(c, own) = {fr[id].buffer}
      BY <1>2, <1>3, <3>2, MarkersApart DEF FoundBy
    <3>. QED  BY <3>4, <3>5
  <2>. QED  BY <1>6, <2>2, <2>3 DEF SameView, clientVars
<1>. QED  BY <1>3, <1>4, <1>6, <1>9, <1>10, RequestStutter

-----------------------------------------------------------------------------
(* A request has its effect. *)

\* The step in which the operation of client c has its effect: all other
\* clients see nothing, c that its operation is done.
LEMMA EffectOfRequest ==
    ASSUME TypeOK, TypeOK', NEW stage, NEW own, NEW next, HistoryInv(stage, own),
           HistoryInv(next, own)', NEW c \in Clients, NEW id \in Ids, own[c] = id,
           RequestOnly(stage, own, next, own, id, c), requestMsgs[c] = <<>>, requestMsgs'[c] = <<>>,
           stage[id] \notin EffectStages, next[id] \in EffectStages
    PROVE  /\ OthersAsBefore(c)
           /\ Pending(c) /\ ~Pending(c)' /\ Called(c)' = Called(c) /\ Found(c)' = FoundBy(c, own)'
<1>1. ViewOf(stage, own) /\ ViewOf(next, own)'
  BY Views, ViewsNext
<1>2. OthersAsBefore(c)
  <2>1. ASSUME NEW d \in Clients, d # c PROVE AsBefore(d)
    <3>1. SameView(d, stage, own, next, own)
      BY <2>1, OthersSeeNothing DEF RequestOnly, HistoryInv
    <3>. QED  BY <1>1, <3>1, SeenAsBefore
  <2>. QED  BY <2>1 DEF OthersAsBefore
<1>3. PendingBy(c, stage, own) /\ ~PendingBy(c, next, own)'
  BY MarkersApart DEF PendingBy
<1>4. Called(c)' = Called(c)
  BY DEF RequestOnly, clientVars, Called
<1>. QED  BY <1>1, <1>2, <1>3, <1>4 DEF ViewOf

\* A handler that opens or closes the file takes the step of the file
\* service.
LEMMA OpenImplemented ==
    ASSUME TypeOK, TypeOK', Running, NEW stage, NEW own, IsHistory(stage, own),
           SafetyInv(stage, own), NEW h \in Handlers, HandlerOpen(h) \/ HandlerClose(h)
    PROVE  FS!Next
<1>0. /\ StageInv(stage) /\ OwnInv(stage, own) /\ ClientInv(stage, own) /\ BarrierInv
      /\ FileInv(stage, own) /\ HistoryInv(stage, own)
      /\ stage \in [Ids -> Stages] /\ own \in [Clients -> Ids \cup {NoId}]
  BY DEF SafetyInv, HistoryInv, IsHistory
<1>1. PICK id, next, c, f : /\ id = handler[h].id /\ next = Move(stage, {id}, "reply")
                            /\ c = fr[id].rank /\ f = FileOf(Layout, c)
  OBVIOUS
<1>2. id \in Ids /\ stage[id] = "got" /\ StageInv(next)'
  BY <1>0, <1>1, HandlerOpenStages
<1>3. HistoryInv(next, own)'
  <2>1. IsHistory(next, own)
    BY <1>0, <1>1, <1>2, StageNames, HistoryType
  <2>2. OwnInv(next, own)' /\ ClientInv(next, own)'
    BY <1>0, <1>1, <1>2, HandlerOpenClients
  <2>. QED  BY <1>2, <2>1, <2>2 DEF HistoryInv, IsHistory
<1>4. UNCHANGED clientVars /\ UNCHANGED <<disk, fr>> /\ UNCHANGED <<requestMsgs, handleMsgs, ackMsgs, dataMsgs>>
  BY DEF HandlerOpen, HandlerClose, handlerOnly
<1>5. fr[id].operation \in {"open", "close"}
  <2>1. frOf(h).operation \in {"open", "close"}
    BY DEF HandlerOpen, HandlerClose
  <2>. QED  BY <1>1, <2>1 DEF frOf
<1>6. /\ c \in Clients /\ own[c] = id /\ requestMsgs[c] = <<>> /\ requestMsgs'[c] = <<>>
      /\ pc[c] = IF fr[id].operation = "open" THEN "handle" ELSE "closing"
      /\ fr[id].file = f
  <2>1. fr[id].rank = c
    BY <1>1
  <2>2. stage[id] = "got" /\ id \in Ids
    BY <1>2
  <2>3. /\ c \in Clients /\ own[c] = id /\ requestMsgs[c] = <<>>
        /\ pc[c] = IF fr[id].operation = "open" THEN "handle" ELSE "closing"
        /\ fr[id].file = FileOf(Layout, c)
    BY ONLY TypeOK, <1>0, <1>5, <2>1, <2>2, FileRequest
  <2>4. requestMsgs' = requestMsgs
    BY <1>4
  <2>. QED  BY <1>1, <2>3, <2>4
<1>7. RequestOnly(stage, own, next, own, id, c)
  <2>1. OtherStages(stage, next, id)
    BY <1>1, <1>2, MoveOne
  <2>2. OtherMessages(c) /\ OtherRequests(id) /\ OtherOwners(own, own, c)
    BY <1>4 DEF OtherMessages, OtherRequests, OtherOwners, Mail
  <2>. QED  BY <1>1, <1>4, <2>1, <2>2 DEF RequestOnly
<1>8. stage[id] \notin EffectStages /\ next[id] \in EffectStages
  <2>1. next[id] = "reply"
    BY <1>1, <1>2 DEF Move
  <2>. QED  BY <1>2, <2>1 DEF EffectStages, Transferred
<1>9. OthersAsBefore(c) /\ Pending(c) /\ ~Pending(c)' /\ Called(c)' = Called(c)
  BY <1>0, <1>2, <1>3, <1>6, <1>7, <1>8, EffectOfRequest
<1>10. pc'[c] = pc[c]
  BY <1>4 DEF clientVars
<1>11. /\ Called(c).op = fr[id].operation /\ ~IsDone(c) /\ IsDone(c)'
       /\ Result(c)' = Result(c)
  <2>1. Called(c).op = fr[id].operation
    BY <1>5, <1>6 DEF Called
  <2>2. ~IsDone(c) /\ IsDone(c)'
    BY <1>5, <1>9, <2>1 DEF IsDone
  <2>3. Result(c)' = Result(c)
    BY <1>5, <1>9, <2>1 DEF Result
  <2>. QED  BY <2>1, <2>2, <2>3
<1>12. /\ Calls' = Calls /\ Dones' = [Dones EXCEPT ![c] = TRUE] /\ Results' = Results
       /\ Calls[c] = Called(c) /\ ~Dones[c]
       /\ Users \subseteq Clients /\ Users' \subseteq Clients
       /\ (c \in Users <=> Uses(c))
       /\ (c \in Users' <=> Uses(c)')
       /\ \A d \in Clients : d # c => (d \in Users' <=> d \in Users)
  <2>1. [Calls EXCEPT ![c] = Called(c)'] = Calls /\ [Results EXCEPT ![c] = Result(c)'] = Results
    BY <1>6, <1>9, <1>11 DEF Calls, Results
  <2>2. IsDone(c)' = TRUE /\ IsDone(c) = FALSE
    BY <1>11, MappedBooleans
  <2>. QED  BY <1>6, <1>9, <2>1, <2>2, MappedOthers
<1>13. f \in Files /\ Files = DOMAIN opened_files /\ opened_files[f].references \in Nat
  BY <1>1, <1>6, FileType DEF TypeOK, FileTypes
<1>14. CASE HandlerOpen(h)
  <2>1. fr[id].operation = "open"
    BY <1>1, <1>14 DEF HandlerOpen, frOf
  <2>2. ~Uses(c) /\ Uses(c)'
    BY <1>6, <1>9, <1>10, <2>1 DEF Uses
  <2>3. Users' = Users \cup {c}
    BY <1>6, <1>12, <2>2
  <2>4. \/ opened_files[f].references = 0 /\ \E d : opened_files' = [opened_files EXCEPT ![f] = [fh |-> d, references |-> 1]]
        \/ opened_files' = [opened_files EXCEPT ![f].references = @ + 1]
    <3>1. fr[handler[h].id].file = f
      BY <1>1, <1>6, <1>14
    <3>2. CASE NotYetOpen(f)
      BY <1>14, <3>1, <3>2 DEF HandlerOpen, frOf, NotYetOpen
    <3>3. CASE ~NotYetOpen(f)
      BY <1>14, <3>1, <3>3 DEF HandlerOpen, frOf
    <3>. QED  BY <3>2, <3>3
  <2>5. opened_files'[f].references = opened_files[f].references + 1
        /\ \A g \in Files : g # f => opened_files'[g] = opened_files[g]
    BY <1>13, <2>4 DEF TypeOK, FileTypes
  <2>6. Counts' = [Counts EXCEPT ![f] = @ + 1]
    BY <1>13, <2>5 DEF Counts
  <2>7. FS!Open(c)
    BY <1>1, <1>4, <1>6, <1>11, <1>12, <2>1, <2>3, <2>6
    DEF FS!Open, FS!TakesEffect, Calls, Dones, Results, Users, Counts
  <2>. QED  BY <1>6, <2>7 DEF FS!Next
<1>15. CASE HandlerClose(h)
  <2>1. fr[id].operation = "close"
    BY <1>1, <1>15 DEF HandlerClose, frOf
  <2>2. Uses(c) /\ ~Uses(c)'
    BY <1>6, <1>9, <1>10, <2>1 DEF Uses
  <2>3. Users' = Users \ {c}
    BY <1>6, <1>12, <2>2
  <2>4. UNCHANGED aborted
    BY <1>0, <1>1, <1>2, <1>15, HandlerCloseFiles
  <2>5. opened_files' = [opened_files EXCEPT ![f] = Release(@)]
    BY <1>1, <1>6, <1>15, <2>4 DEF HandlerClose, frOf, Running
  <2>6. opened_files'[f].references = opened_files[f].references - 1
        /\ \A g \in Files : g # f => opened_files'[g] = opened_files[g]
    BY <1>13, <2>5 DEF Release, NotOpened, TypeOK, FileTypes
  <2>7. Counts' = [Counts EXCEPT ![f] = @ - 1]
    BY <1>13, <2>6 DEF Counts
  <2>8. FS!Close(c)
    BY <1>1, <1>4, <1>6, <1>11, <1>12, <2>1, <2>3, <2>7
    DEF FS!Close, FS!TakesEffect, Calls, Dones, Results, Users, Counts
  <2>. QED  BY <1>6, <2>8 DEF FS!Next
<1>. QED  BY <1>14, <1>15

-----------------------------------------------------------------------------
(* A transfer has its effect. *)

\* The client whose request is being transferred.
LEMMA TransferIsSeen ==
    ASSUME TypeOK, NEW stage, NEW own, HistoryInv(stage, own), FileInv(stage, own),
           NEW id \in Ids, stage[id] = "transfer", NEW c, c = fr[id].rank
    PROVE  /\ c \in Clients /\ own[c] = id /\ requestMsgs[c] = <<>> /\ pc[c] \in {"id", "ack", "data"}
           /\ Called(c) = [op |-> fr[id].operation, block |-> fr[id].offset]
           /\ phase[c] = fr[id].operation /\ fr[id].offset \in Blocks
           /\ phase[c] = "read" => Mail(c) = {}
<1>1. OwnInv(stage, own) /\ ClientInv(stage, own)
  BY DEF HistoryInv
<1>2. c \in Clients /\ own[c] = id /\ fr[id].operation \in {"read", "write"}
  BY <1>1, TransferClient
<1>3. Served(c, stage, own)
  BY <1>1, RequestOf
<1>4. Transfers(id, c)
  BY <1>1, <1>2, HandleIsOpen
<1>5. pc[c] \in {"id", "ack", "data"} /\ requestMsgs[c] = <<>> /\ (phase[c] = "read" => Mail(c) = {})
  BY <1>2, <1>3 DEF Served, ServedAs, Unacked, Arriving, Buffered, Hashed
<1>6. phase[c] = fr[id].operation /\ fr[id].offset = BlockOf(c, iter[c]) /\ fr[id].offset \in Blocks
  BY <1>4 DEF Transfers
<1>7. Called(c) = [op |-> phase[c], block |-> BlockOf(c, iter[c])]
  BY <1>5 DEF Called
<1>. QED  BY <1>2, <1>5, <1>6, <1>7

\* Each write of a batch takes the step of the file service for its client.
LEMMA WriteImplemented ==
    ASSUME TypeOK, TypeOK', NEW stage, NEW own, HistoryInv(stage, own), FileInv(stage, own),
           NEW t \in PoolThreads, DispatchWrite(t)
    PROVE  FS!Next
<1>0. /\ StageInv(stage) /\ OwnInv(stage, own) /\ ClientInv(stage, own) /\ IsHistory(stage, own)
      /\ stage \in [Ids -> Stages] /\ own \in [Clients -> Ids \cup {NoId}]
  BY DEF HistoryInv, IsHistory
<1>1. PICK id, next, c, f : /\ id = Current(t) /\ next = Move(stage, {id}, "transferred")
                            /\ c = fr[id].rank /\ f = FileOf(Layout, c)
  OBVIOUS
<1>2. id \in Ids /\ stage[id] = "transfer" /\ StageInv(next)'
  BY <1>0, <1>1, DispatchStages
<1>3. /\ UNCHANGED clientVars /\ QuietStep /\ UNCHANGED <<fr, opened_files>>
      /\ UNCHANGED <<requestMsgs, handleMsgs, ackMsgs, dataMsgs>> /\ fr[id].operation = "write"
  BY <1>1 DEF DispatchWrite, poolOnly, QuietStep, netVars
<1>4. \A i \in Ids : next[i] = IF i = id THEN "transferred" ELSE stage[i]
  BY <1>1 DEF Move
<1>5. HistoryInv(next, own)'
  <2>1. Silent(stage, next)
    BY <1>2, <1>4 DEF Silent, Alike, Arriving, Unacked, Buffered, Hashed
  <2>2. OwnInv(next, own)' /\ ClientInv(next, own)'
    BY <1>0, <1>3, <2>1, HiddenClients
  <2>3. IsHistory(next, own)
    BY <1>0, <1>1, <1>2, StageNames, HistoryType
  <2>. QED  BY <1>2, <2>2, <2>3 DEF HistoryInv, IsHistory
<1>6. /\ c \in Clients /\ own[c] = id /\ requestMsgs[c] = <<>> /\ requestMsgs'[c] = <<>>
      /\ Called(c) = [op |-> "write", block |-> fr[id].offset] /\ fr[id].offset \in Blocks
  BY <1>1, <1>2, <1>3, TransferIsSeen
<1>7. RequestOnly(stage, own, next, own, id, c)
  <2>1. OtherStages(stage, next, id)
    BY <1>4 DEF OtherStages
  <2>2. OtherMessages(c) /\ OtherRequests(id) /\ OtherOwners(own, own, c)
    BY <1>3 DEF OtherMessages, OtherRequests, OtherOwners, Mail
  <2>. QED  BY <1>1, <1>3, <2>1, <2>2 DEF RequestOnly
<1>8. stage[id] \notin EffectStages /\ next[id] \in EffectStages
  BY <1>2, <1>4 DEF EffectStages, Transferred
<1>9. OthersAsBefore(c) /\ Pending(c) /\ ~Pending(c)' /\ Called(c)' = Called(c)
  BY <1>2, <1>5, <1>6, <1>7, <1>8, EffectOfRequest
<1>10. pc'[c] = pc[c] /\ pc[c] \in {"id", "ack", "data"}
  BY <1>1, <1>2, <1>3, TransferIsSeen DEF clientVars
<1>11. /\ IsDone(c) = FALSE /\ IsDone(c)' = TRUE
       /\ Result(c)' = Result(c) /\ Uses(c) /\ Uses(c)'
  <2>1. ~IsDone(c) /\ IsDone(c)'
    BY <1>6, <1>9 DEF IsDone
  <2>2. Result(c)' = Result(c)
    BY <1>6, <1>9 DEF Result
  <2>3. Uses(c) /\ Uses(c)'
    BY <1>10 DEF Uses
  <2>. QED  BY <2>1, <2>2, <2>3, MappedBooleans
<1>12. /\ Calls' = Calls /\ Dones' = [Dones EXCEPT ![c] = TRUE] /\ Results' = Results
       /\ Calls[c] = Called(c) /\ ~Dones[c] /\ Users' = Users
  <2>1. [Calls EXCEPT ![c] = Called(c)'] = Calls /\ [Results EXCEPT ![c] = Result(c)'] = Results
    BY <1>9, <1>11 DEF Calls, Results
  <2>2. /\ Calls' = [Calls EXCEPT ![c] = Called(c)'] /\ Dones' = [Dones EXCEPT ![c] = IsDone(c)']
        /\ Results' = [Results EXCEPT ![c] = Result(c)']
        /\ Calls[c] = Called(c) /\ Dones[c] = IsDone(c)
        /\ Users \subseteq Clients /\ Users' \subseteq Clients
        /\ c \in Users /\ c \in Users'
        /\ \A d \in Clients : d # c => (d \in Users' <=> d \in Users)
    BY <1>6, <1>9, <1>11, MappedOthers
  <2>3. Users' = Users
    BY <2>2
  <2>. QED  BY <1>11, <2>1, <2>2, <2>3
<1>13. Counts' = Counts
  BY <1>3 DEF Counts
<1>14. f \in Files /\ disk \in [Files -> [Blocks -> Bytes]]
  BY <1>1, <1>6, FileType DEF TypeOK, FileTypes
<1>15. disk' = [disk EXCEPT ![f][fr[id].offset] = c] \/ (~FullTransfers /\ disk' = disk)
  <2>1. PICK moved \in {TRUE, FullTransfers} :
          disk' = [g \in Files |-> IF moved /\ g = f THEN [disk[g] EXCEPT ![fr[id].offset] = c]
                                   ELSE disk[g]]
    BY <1>0, <1>1, <1>2, WriteLeaves
  <2>2. CASE moved
    BY <1>14, <2>1, <2>2
  <2>3. CASE ~moved
    BY <1>14, <2>1, <2>3
  <2>. QED  BY <2>2, <2>3
<1>16. FS!Write(c)
  <2>1. FS!TakesEffect(c, "write")
    BY <1>6, <1>12 DEF FS!TakesEffect, Calls, Dones
  <2>2. [d \in Clients |-> FileOf(Layout, d)][c] = f /\ Calls[c].block = fr[id].offset
    BY <1>1, <1>6, <1>12
  <2>3. UNCHANGED <<Results, Users, Counts>>
    BY <1>12, <1>13
  <2>. QED  BY <1>15, <2>1, <2>2, <2>3 DEF FS!Write, Calls, Results, Users, Counts
<1>. QED  BY <1>6, <1>16 DEF FS!Next

\* So does each read, which finds the bytes of the file at that instant.
LEMMA ReadImplemented ==
    ASSUME TypeOK, TypeOK', Running, NEW stage, NEW own, HistoryInv(stage, own), FileInv(stage, own),
           DataInv(stage, own), NEW t \in PoolThreads, DispatchRead(t)
    PROVE  FS!Next
<1>0. /\ StageInv(stage) /\ OwnInv(stage, own) /\ ClientInv(stage, own) /\ IsHistory(stage, own)
      /\ stage \in [Ids -> Stages] /\ own \in [Clients -> Ids \cup {NoId}]
  BY DEF HistoryInv, IsHistory
<1>1. PICK id, next, c, f : /\ id = Current(t) /\ next = Move(stage, {id}, "transferred")
                            /\ c = fr[id].rank /\ f = FileOf(Layout, c)
  OBVIOUS
<1>2. id \in Ids /\ stage[id] = "transfer" /\ StageInv(next)'
  BY <1>0, <1>1, DispatchStages
<1>3. /\ UNCHANGED clientVars /\ UNCHANGED <<disk, opened_files>>
      /\ UNCHANGED <<clientVars, requestMsgs, handleMsgs, ackMsgs, dataMsgs>> /\ fr[id].operation = "read"
  BY <1>1 DEF DispatchRead, poolOnly
<1>4. \A i \in Ids : next[i] = IF i = id THEN "transferred" ELSE stage[i]
  BY <1>1 DEF Move
<1>5. PICK b : /\ fr' = [fr EXCEPT ![id].buffer = b]
               /\ b = disk[f][fr[id].offset] \/ (~FullTransfers /\ b = FreshBuffer)
  <2>1. id = Current(t) /\ c = fr[id].rank /\ f = FileOf(Layout, c)
    BY <1>1
  <2>2. \E b : /\ fr' = [fr EXCEPT ![id].buffer = b]
               /\ \/ b = disk[FileOf(Layout, c)][fr[id].offset]
                  \/ ~FullTransfers /\ b = FreshBuffer
               /\ b \in {c, Nobody, FreshBuffer} /\ (Complete => b = c)
    BY <1>0, <1>2, <2>1, ReadFinds
  <2>. QED  BY <2>1, <2>2
<1>6. HistoryInv(next, own)'
  <2>1. OwnInv(next, own)' /\ ClientInv(next, own)'
    BY <1>0, <1>1, <1>2, <1>3, <1>5, DispatchReadClients
  <2>2. IsHistory(next, own)
    BY <1>0, <1>1, <1>2, StageNames, HistoryType
  <2>. QED  BY <1>2, <2>1, <2>2 DEF HistoryInv, IsHistory
<1>7. /\ c \in Clients /\ own[c] = id /\ requestMsgs[c] = <<>> /\ requestMsgs'[c] = <<>>
      /\ Called(c) = [op |-> "read", block |-> fr[id].offset] /\ Mail(c) = {}
  BY <1>1, <1>2, <1>3, TransferIsSeen
<1>8. OtherRequests(id) /\ fr'[id].buffer = b
  BY <1>2, <1>5, RequestFields DEF OtherRequests, TypeOK, FileTypes
<1>9. RequestOnly(stage, own, next, own, id, c)
  <2>1. OtherStages(stage, next, id)
    BY <1>4 DEF OtherStages
  <2>2. OtherMessages(c) /\ OtherOwners(own, own, c)
    BY <1>3 DEF OtherMessages, OtherOwners, Mail
  <2>. QED  BY <1>1, <1>3, <1>8, <2>1, <2>2 DEF RequestOnly
<1>10. stage[id] \notin EffectStages /\ next[id] \in EffectStages
  BY <1>2, <1>4 DEF EffectStages, Transferred
<1>11. OthersAsBefore(c) /\ Pending(c) /\ ~Pending(c)' /\ Called(c)' = Called(c)
       /\ Found(c)' = FoundBy(c, own)'
  BY <1>2, <1>6, <1>7, <1>9, <1>10, EffectOfRequest
<1>12. pc'[c] = pc[c] /\ pc[c] \in {"id", "ack", "data"}
  BY <1>1, <1>2, <1>3, TransferIsSeen DEF clientVars
<1>13. Found(c)' = {b}
  <2>1. Mail(c)' = {}
    BY <1>3, <1>7 DEF Mail
  <2>2. {fr'[i].buffer : i \in {own[c]} \ {NoId}} = {b}
    BY <1>2, <1>7, <1>8, MarkersApart
  <2>. QED  BY <1>11, <2>1, <2>2 DEF FoundBy
<1>14. IsDone(c) = FALSE /\ IsDone(c)' = TRUE /\ Result(c)' = b /\ Uses(c) /\ Uses(c)'
  <2>1. ~IsDone(c) /\ IsDone(c)'
    BY <1>7, <1>11 DEF IsDone
  <2>2. Result(c)' = b
    BY <1>7, <1>11, <1>13, <2>1 DEF Result
  <2>3. Uses(c) /\ Uses(c)'
    BY <1>12 DEF Uses
  <2>. QED  BY <2>1, <2>2, <2>3, MappedBooleans
<1>15. /\ Calls' = Calls /\ Dones' = [Dones EXCEPT ![c] = TRUE] /\ Results' = [Results EXCEPT ![c] = b]
       /\ Calls[c] = Called(c) /\ ~Dones[c] /\ Users' = Users
  <2>1. [Calls EXCEPT ![c] = Called(c)'] = Calls
    BY <1>11 DEF Calls
  <2>2. /\ Calls' = [Calls EXCEPT ![c] = Called(c)'] /\ Dones' = [Dones EXCEPT ![c] = IsDone(c)']
        /\ Results' = [Results EXCEPT ![c] = Result(c)']
        /\ Calls[c] = Called(c) /\ Dones[c] = IsDone(c)
        /\ Users \subseteq Clients /\ Users' \subseteq Clients
        /\ c \in Users /\ c \in Users'
        /\ \A d \in Clients : d # c => (d \in Users' <=> d \in Users)
    BY <1>7, <1>11, <1>14, MappedOthers
  <2>3. Users' = Users
    BY <2>2
  <2>. QED  BY <1>14, <2>1, <2>2, <2>3
<1>16. Counts' = Counts
  BY <1>3 DEF Counts
<1>17. FS!Read(c)
  <2>1. FS!TakesEffect(c, "read")
    BY <1>7, <1>15 DEF FS!TakesEffect, Calls, Dones
  <2>2. b = disk[f][Calls[c].block] \/ (~FullTransfers /\ b = FreshBuffer)
    BY <1>5, <1>7, <1>15
  <2>3. Results' = [Results EXCEPT ![c] = disk[[d \in Clients |-> FileOf(Layout, d)][c]][Calls[c].block]]
        \/ (~FullTransfers /\ Results' = [Results EXCEPT ![c] = FreshBuffer])
    BY <1>1, <1>7, <1>15, <2>2
  <2>4. Users' = Users /\ Counts' = Counts /\ disk' = disk
    BY <1>3, <1>15, <1>16
  <2>. QED  BY <2>1, <2>3, <2>4 DEF FS!Read, Calls, Results, Users, Counts
<1>. QED  BY <1>7, <1>17 DEF FS!Next

-----------------------------------------------------------------------------
(* The steps of the clients. *)

\* The steps of one client leave the histories, the files and the other
\* clients alone.
LEMMA ClientHistory ==
    ASSUME TypeOK, TypeOK', Running, NEW stage, NEW own, HistoryInv(stage, own),
           NEW c \in Clients, Client(c)
    PROVE  HistoryInv(stage, own)' /\ OthersAsBefore(c) /\ UNCHANGED <<disk, opened_files>>
<1>0. /\ StageInv(stage) /\ OwnInv(stage, own) /\ ClientInv(stage, own) /\ IsHistory(stage, own)
      /\ stage \in [Ids -> Stages] /\ own \in [Clients -> Ids \cup {NoId}]
  BY DEF HistoryInv, IsHistory
<1>1. UNCHANGED <<incoming_queue, handler, jobs, pool, agios, ready_queue, dispatcher, requests, fr>>
      /\ UNCHANGED <<disk, opened_files>>
  BY ClientLeaves DEF serverVars, ioVars
<1>2. HistoryInv(stage, own)'
  <2>1. StageInv(stage)'
    BY <1>0, <1>1, StagesStay
  <2>2. OwnInv(stage, own)'
    BY <1>0, <1>1 DEF OwnInv
  <2>3. ClientInv(stage, own)'
    BY <1>0, ClientClients
  <2>. QED  BY <1>0, <2>1, <2>2, <2>3 DEF HistoryInv, IsHistory
<1>3. ASSUME NEW d \in Clients, d # c PROVE AsBefore(d)
  <2>1. /\ pc'[d] = pc[d] /\ phase'[d] = phase[d] /\ iter'[d] = iter[d]
        /\ requestMsgs'[d] = requestMsgs[d] /\ Mail(d)' = Mail(d)
    BY <1>3, ClientMovesOne
  <2>2. SameView(d, stage, own, stage, own)
    BY <1>1, <2>1 DEF SameView, PendingBy, FoundBy
  <2>3. ViewOf(stage, own) /\ ViewOf(stage, own)'
    BY <1>2, Views, ViewsNext
  <2>. QED  BY <2>2, <2>3, SeenAsBefore
<1>. QED  BY <1>1, <1>2, <1>3 DEF OthersAsBefore

\* A client calls, gets its answer, or does what the file service does not see.
LEMMA CallImplemented ==
    ASSUME NEW c \in Clients, OthersAsBefore(c), UNCHANGED <<disk, opened_files>>,
           Called(c) = [op |-> "none", block |-> 0],
           NEW op \in IF Uses(c) THEN {"read", "write", "close"} ELSE {"open"}, NEW b \in Blocks,
           Called(c)' = [op |-> op, block |-> b], Pending(c)', Uses(c)' <=> Uses(c)
    PROVE  FS!Call(c)
<1>1. IsDone(c)' = IsDone(c)
  <2>1. ~IsDone(c)' /\ ~IsDone(c)
    BY DEF IsDone
  <2>. QED  BY <2>1, MappedBooleans
<1>2. Result(c)' = Result(c)
  <2>1. ~IsDone(c)'
    BY DEF IsDone
  <2>2. Result(c)' = Nobody
    BY <2>1 DEF Result
  <2>3. Result(c) = Nobody
    BY DEF Result
  <2>. QED  BY <2>2, <2>3
<1>3. /\ Calls' = [Calls EXCEPT ![c] = [op |-> op, block |-> b]] /\ Calls[c] = FS!NoCall
      /\ Dones' = Dones /\ Results' = Results /\ Users' = Users /\ (c \in Users <=> Uses(c))
  <2>1. /\ Calls' = [Calls EXCEPT ![c] = Called(c)'] /\ Dones' = [Dones EXCEPT ![c] = IsDone(c)']
        /\ Results' = [Results EXCEPT ![c] = Result(c)'] /\ Calls[c] = Called(c)
        /\ Users \subseteq Clients /\ Users' \subseteq Clients
        /\ (c \in Users <=> Uses(c)) /\ (c \in Users' <=> Uses(c)')
        /\ \A d \in Clients : d # c => (d \in Users' <=> d \in Users)
    BY MappedOthers
  <2>2. Users' = Users
    BY <2>1
  <2>3. [Dones EXCEPT ![c] = IsDone(c)'] = Dones /\ [Results EXCEPT ![c] = Result(c)'] = Results
    BY <1>1, <1>2 DEF Dones, Results
  <2>. QED  BY <2>1, <2>2, <2>3 DEF FS!NoCall
<1>4. Counts' = Counts
  BY DEF Counts
<1>5. op \in IF c \in Users THEN {"read", "write", "close"} ELSE {"open"}
  BY <1>3
<1>. QED  BY <1>3, <1>4, <1>5 DEF FS!Call, FS!NoCall, Calls, Dones, Results, Users, Counts

\* A client that gets its answer returns from its call.
LEMMA ReturnImplemented ==
    ASSUME NEW c \in Clients, OthersAsBefore(c), UNCHANGED <<disk, opened_files>>,
           IsDone(c), Called(c)' = [op |-> "none", block |-> 0], Uses(c)' <=> Uses(c)
    PROVE  FS!Return(c)
<1>1. IsDone(c)' = FALSE /\ Result(c)' = Nobody
  <2>1. ~IsDone(c)'
    BY DEF IsDone
  <2>2. Result(c)' = Nobody
    BY <2>1 DEF Result
  <2>. QED  BY <2>1, <2>2, MappedBooleans
<1>2. /\ Calls' = [Calls EXCEPT ![c] = FS!NoCall] /\ Dones[c] /\ Dones' = [Dones EXCEPT ![c] = FALSE]
      /\ Results' = [Results EXCEPT ![c] = Nobody] /\ Users' = Users
  <2>1. /\ Calls' = [Calls EXCEPT ![c] = Called(c)'] /\ Dones' = [Dones EXCEPT ![c] = IsDone(c)']
        /\ Results' = [Results EXCEPT ![c] = Result(c)'] /\ Dones[c] = IsDone(c)
        /\ Users \subseteq Clients /\ Users' \subseteq Clients
        /\ (c \in Users <=> Uses(c)) /\ (c \in Users' <=> Uses(c)')
        /\ \A d \in Clients : d # c => (d \in Users' <=> d \in Users)
    BY MappedOthers
  <2>2. Users' = Users
    BY <2>1
  <2>. QED  BY <1>1, <2>1, <2>2 DEF FS!NoCall
<1>3. Counts' = Counts
  BY DEF Counts
<1>. QED  BY <1>2, <1>3 DEF FS!Return, Calls, Dones, Results, Users, Counts

\* A client that gets on with a call takes no step of the file service.
LEMMA UnseenImplemented ==
    ASSUME NEW c \in Clients, OthersAsBefore(c), UNCHANGED <<disk, opened_files>>, AsBefore(c)
    PROVE  UNCHANGED FS!vars
<1>1. \A d \in Clients : AsBefore(d)
  BY DEF OthersAsBefore
<1>2. CountsAsBefore
  BY DEF CountsAsBefore
<1>. QED  BY <1>1, <1>2, MappedStutter

\* Nothing is under way for a client that does not wait, and nothing waits
\* in the server for one that has its answer.
LEMMA AnswerIsDone ==
    ASSUME TypeOK, NEW stage, NEW own, HistoryInv(stage, own), NEW c \in Clients,
           handleMsgs[c] # <<>> \/ (pc[c] \in {"ack", "closing"} /\ ackMsgs[c] # <<>>)
           \/ \E m \in dataMsgs : m.to = "client" /\ m.rank = c
    PROVE  ~Pending(c)
<1>1. /\ OwnInv(stage, own) /\ ClientOK(c, stage, own) /\ IsHistory(stage, own)
  BY DEF HistoryInv, ClientInv
<1>2. own[c] = NoId /\ requestMsgs[c] = <<>>
  <2>1. CASE pc[c] \in Idle /\ Quiet(c, own)
    BY <2>1 DEF Quiet, Mail, Idle
  <2>2. CASE Asking(c, own)
    BY <2>2 DEF Asking, Mail
  <2>3. CASE Served(c, stage, own)
    BY <2>3 DEF Served, ServedAs, Mail
  <2>4. CASE HasAnswer(c, own)
    BY <2>4 DEF HasAnswer
  <2>5. CASE GaveUp(c, own)
    BY <2>5 DEF GaveUp, Quiet
  <2>. QED  BY <1>1, <2>1, <2>2, <2>3, <2>4, <2>5 DEF ClientOK
<1>3. ViewOf(stage, own)
  BY Views
<1>. QED  BY <1>2, <1>3 DEF ViewOf, PendingBy

\* A client that waits for no answer before and after a step is as before.
LEMMA NothingCalled ==
    ASSUME NEW c, Called(c) = [op |-> "none", block |-> 0], Called(c)' = [op |-> "none", block |-> 0],
           Uses(c)' <=> Uses(c)
    PROVE  AsBefore(c)
<1>1. IsDone(c) = FALSE /\ IsDone(c)' = FALSE
  <2>1. ~IsDone(c) /\ ~IsDone(c)'
    BY DEF IsDone
  <2>. QED  BY <2>1, MappedBooleans
<1>2. Result(c) = Nobody /\ Result(c)' = Nobody
  BY <1>1 DEF Result
<1>3. Uses(c)' = Uses(c)
  BY MappedBooleans
<1>. QED  BY <1>1, <1>2, <1>3 DEF AsBefore

\* Each operation a client calls.
LEMMA ClientCalls ==
    ASSUME TypeOK, TypeOK', Running, NEW stage, NEW own, HistoryInv(stage, own),
           NEW c \in Clients, ClientOpen(c) \/ ClientIssue(c) \/ ClientClose(c)
    PROVE  FS!Next
<1>1. OthersAsBefore(c) /\ UNCHANGED <<disk, opened_files>>
  BY ClientHistory DEF Client
<1>2. Pending(c)'
  <2>1. requestMsgs'[c] # <<>>
    BY DEF ClientOpen, ClientIssue, ClientClose, Request, Send, TypeOK, NetTypes
  <2>. QED  BY <2>1 DEF Pending
<1>3. DOMAIN pc = Clients /\ UNCHANGED <<phase, iter>>
  BY DEF ClientOpen, ClientIssue, ClientClose, TypeOK, ClientTypes
<1>4. Called(c) = [op |-> "none", block |-> 0]
  BY DEF ClientOpen, ClientIssue, ClientClose, Called
<1>5. CASE ClientOpen(c)
  <2>1. pc[c] = "open" /\ pc'[c] = "handle"
    BY <1>3, <1>5 DEF ClientOpen, Request
  <2>2. Called(c)' = [op |-> "open", block |-> 0] /\ ~Uses(c) /\ ~Uses(c)'
    BY <1>2, <2>1 DEF Called, Uses
  <2>3. FS!Call(c)
    BY <1>1, <1>2, <1>4, <2>2, ZeroBlock, CallImplemented
  <2>. QED  BY <2>3 DEF FS!Next
<1>6. CASE ClientIssue(c)
  <2>1. pc[c] = "issue" /\ pc'[c] = "id"
    BY <1>3, <1>6 DEF ClientIssue, Request
  <2>2. Called(c)' = [op |-> phase[c], block |-> BlockOf(c, iter[c])] /\ Uses(c) /\ Uses(c)'
    BY <1>3, <2>1 DEF Called, Uses
  <2>3. phase[c] \in {"read", "write", "close"} /\ BlockOf(c, iter[c]) \in Blocks
    <3>1. phase[c] \in {"write", "read"} /\ iter[c] \in 0..NRequests /\ iter[c] < NRequests
      BY <1>6 DEF ClientIssue, TypeOK, ClientTypes
    <3>. QED  BY <3>1, BlockType
  <2>4. FS!Call(c)
    BY <1>1, <1>2, <1>4, <2>2, <2>3, CallImplemented
  <2>. QED  BY <2>4 DEF FS!Next
<1>7. CASE ClientClose(c)
  <2>1. pc[c] = "drained" /\ pc'[c] = "closing"
    BY <1>3, <1>7 DEF ClientClose, Request
  <2>2. Called(c)' = [op |-> "close", block |-> 0] /\ Uses(c) /\ Uses(c)'
    BY <1>2, <2>1 DEF Called, Uses
  <2>3. FS!Call(c)
    BY <1>1, <1>2, <1>4, <2>2, ZeroBlock, CallImplemented
  <2>. QED  BY <2>3 DEF FS!Next
<1>. QED  BY <1>5, <1>6, <1>7

\* Each answer a client gets.
LEMMA ClientReturns ==
    ASSUME TypeOK, TypeOK', Running, aborted' = "no", NEW stage, NEW own, HistoryInv(stage, own),
           NEW c \in Clients,
           ClientHandle(c) \/ ClientWriteDone(c) \/ ClientReadDone(c) \/ ClientClosed(c)
    PROVE  FS!Next
<1>1. OthersAsBefore(c) /\ UNCHANGED <<disk, opened_files>>
  BY ClientHistory DEF Client
<1>2. ~Pending(c)
  <2>1. handleMsgs[c] # <<>> \/ (pc[c] \in {"ack", "closing"} /\ ackMsgs[c] # <<>>)
        \/ \E m \in dataMsgs : m.to = "client" /\ m.rank = c
    BY DEF ClientHandle, ClientWriteDone, ClientReadDone, ClientClosed
  <2>. QED  BY <2>1, AnswerIsDone
<1>3. pc[c] \in {"handle", "ack", "data", "closing"}
      /\ pc'[c] \in IF pc[c] = "handle" THEN {"opened"}
                    ELSE IF pc[c] = "closing" THEN {"closed"} ELSE {"issue", "drained"}
  <2>1. DOMAIN pc = Clients
    BY DEF TypeOK, ClientTypes
  <2>2. CASE ClientReadDone(c)
    BY <2>1, <2>2 DEF ClientReadDone, NextIteration
  <2>3. CASE ~ClientReadDone(c)
    BY <2>1, <2>3 DEF ClientHandle, ClientWriteDone, ClientClosed, NextIteration
  <2>. QED  BY <2>2, <2>3
<1>4. Called(c).op # "none"
  <2>1. phase[c] \in {"write", "read"}
    BY DEF TypeOK, ClientTypes
  <2>. QED  BY <1>3, <2>1 DEF Called
<1>5. IsDone(c)
  BY <1>2, <1>4 DEF IsDone
<1>6. Called(c)' = [op |-> "none", block |-> 0] /\ (Uses(c)' <=> Uses(c))
  BY <1>2, <1>3 DEF Called, Uses
<1>7. FS!Return(c)
  BY <1>1, <1>5, <1>6, ReturnImplemented
<1>. QED  BY <1>7 DEF FS!Next

\* What a client does on its own, or to go on with a call.
LEMMA ClientGoesOn ==
    ASSUME TypeOK, TypeOK', Running, NEW stage, NEW own, HistoryInv(stage, own), NEW c \in Clients,
           \/ ClientStart(c) \/ ClientSendData(c) \/ ClientReadId(c) \/ ClientLoopEnd(c)
           \/ ClientNext(c) \/ ClientShutdown(c)
    PROVE  UNCHANGED FS!vars
<1>1. OthersAsBefore(c) /\ UNCHANGED <<disk, opened_files>> /\ HistoryInv(stage, own)'
  BY ClientHistory DEF Client
<1>2. CASE ClientSendData(c) \/ ClientReadId(c)
  <2>1. /\ pc[c] = "id" /\ pc'[c] \in {"ack", "data"} /\ UNCHANGED <<phase, iter, requestMsgs, fr>>
        /\ phase[c] = "read" => UNCHANGED dataMsgs
    BY <1>2 DEF ClientSendData, ClientReadId, serverVars, TypeOK, ClientTypes
  <2>2. ViewOf(stage, own) /\ ViewOf(stage, own)'
    BY <1>1, Views, ViewsNext
  <2>3. Pending(c)' <=> Pending(c)
    <3>1. PendingBy(c, stage, own)' <=> PendingBy(c, stage, own)
      BY <2>1 DEF PendingBy
    <3>. QED  BY <2>2, <3>1 DEF ViewOf
  <2>4. Called(c)' = Called(c) /\ Called(c).op = phase[c]
    BY <2>1 DEF Called
  <2>5. IsDone(c)' = IsDone(c)
    BY <2>3, <2>4, MappedBooleans DEF IsDone
  <2>6. Result(c)' = Result(c)
    <3>1. CASE phase[c] = "read"
      <4>1. FoundBy(c, own)' = FoundBy(c, own)
        BY <2>1, <3>1 DEF FoundBy, Mail
      <4>2. Found(c)' = Found(c)
        BY <2>2, <4>1 DEF ViewOf
      <4>. QED  BY <2>4, <2>5, <4>2 DEF Result
    <3>2. CASE phase[c] # "read"
      BY <2>4, <3>2 DEF Result
    <3>. QED  BY <3>1, <3>2
  <2>7. Uses(c)' = Uses(c)
    <3>1. Uses(c)' /\ Uses(c)
      BY <2>1 DEF Uses
    <3>. QED  BY <3>1, MappedBooleans
  <2>8. AsBefore(c)
    BY <2>4, <2>5, <2>6, <2>7 DEF AsBefore
  <2>. QED  BY <1>1, <2>8, UnseenImplemented
<1>3. CASE ~(ClientSendData(c) \/ ClientReadId(c))
  <2>1. \/ pc[c] \in {"opened", "issue"} /\ pc'[c] \in {"issue", "drained"}
        \/ pc[c] \in {"closed", "shutdown"} /\ pc'[c] \in {"open", "shutdown", "done"}
    BY <1>3 DEF ClientStart, ClientLoopEnd, ClientNext, ClientShutdown, Request, Follows,
                TypeOK, ClientTypes
  <2>2. Called(c) = [op |-> "none", block |-> 0] /\ Called(c)' = [op |-> "none", block |-> 0]
        /\ (Uses(c)' <=> Uses(c))
    BY <2>1 DEF Called, Uses
  <2>. QED  BY <1>1, <2>2, NothingCalled, UnseenImplemented
<1>. QED  BY <1>2, <1>3

\* Each step of a client is a call, a return, or none of the file service.
LEMMA ClientImplements ==
    ASSUME TypeOK, TypeOK', Running, aborted' = "no", NEW stage, NEW own, HistoryInv(stage, own),
           NEW c \in Clients, Client(c)
    PROVE  [FS!Next]_(FS!vars)
BY ClientCalls, ClientReturns, ClientGoesOn DEF Client

\* So is each step of the pool threads.
LEMMA PoolImplements ==
    ASSUME TypeOK, TypeOK', Running, NEW stage, NEW own, IsHistory(stage, own),
           SafetyInv(stage, own), NEW t \in PoolThreads, Pool(t), ~HiddenOfPool(t)
    PROVE  [FS!Next]_(FS!vars)
<1>1. HistoryInv(stage, own) /\ FileInv(stage, own) /\ DataInv(stage, own)
  BY DEF SafetyInv, HistoryInv
<1>2. \/ HandleAck(t) \/ HandleWriteWait(t) \/ DispatchWrite(t) \/ DispatchRead(t)
      \/ CallbackReply(t)
  BY DEF Pool, HiddenOfPool
<1>. QED
  BY <1>1, <1>2, BufferStutter, WriteImplemented, ReadImplemented, CallbackReplyStutter

\* Each step of the program is a step of the file service, or none.
LEMMA StepImplemented ==
    ASSUME IdsSuffice, TypeOK, TypeOK', IInv, NeverAborts, NeverAborts', [Next]_vars
    PROVE  [FS!Next]_(FS!vars)
<1>1. PICK stage \in [Ids -> Stages], own \in [Clients -> Ids \cup {NoId}] : SafetyInv(stage, own)
  BY DEF IInv
<1>2. /\ IsHistory(stage, own) /\ HistoryInv(stage, own) /\ BarrierInv /\ AgeInv(own)
      /\ Running /\ aborted' = "no"
  BY <1>1 DEF SafetyInv, HistoryInv, IsHistory, NeverAborts, Running
<1>3. CASE HiddenAction
  BY <1>1, <1>2, <1>3, ServerHides, HiddenStutter
<1>4. CASE ~HiddenAction
  <2>1. ~UNCHANGED vars /\ ~Finished /\ ~Agios /\ ~Dispatcher
    BY <1>4 DEF HiddenAction, Finished
  <2>2. ASSUME NEW c \in Clients, Client(c) PROVE [FS!Next]_(FS!vars)
    BY <1>2, <2>2, ClientImplements
  <2>3. ASSUME Listener PROVE [FS!Next]_(FS!vars)
    BY <1>2, <2>3, ListenerRequestStutter, ListenerShutdownStutter DEF Listener
  <2>4. ASSUME NEW h \in Handlers, Handler(h) PROVE [FS!Next]_(FS!vars)
    <3>1. \/ HandlerOpen(h) \/ HandlerSendHandle(h) \/ HandlerClose(h) \/ HandlerAckClose(h)
      BY <1>4, <2>4 DEF Handler, HiddenAction
    <3>2. CASE HandlerOpen(h) \/ HandlerClose(h)
      BY <1>1, <1>2, <3>2, OpenImplemented
    <3>3. CASE HandlerSendHandle(h) \/ HandlerAckClose(h)
      BY <1>2, <3>3, HandlerAnswerStutter
    <3>. QED  BY <3>1, <3>2, <3>3
  <2>5. ASSUME NEW t \in PoolThreads, Pool(t) PROVE [FS!Next]_(FS!vars)
    <3>1. ~HiddenOfPool(t)
      BY <1>4 DEF HiddenAction
    <3>. QED  BY <1>1, <1>2, <2>5, <3>1, PoolImplements
  <2>. QED  BY <2>1, <2>2, <2>3, <2>4, <2>5 DEF Next
<1>. QED  BY <1>3, <1>4

\* The forwarder implements the file service: with any number of clients,
\* threads and requests, and whatever the order in which they take their
\* steps, each operation of a client has its effect once and at one instant
\* between its call and its return.
THEOREM Refines == ASSUME IdsSuffice, ReadsOwnWrites PROVE Spec => ImplementsFileService
<1>1. TypeOK /\ TypeOK' /\ IInv /\ NeverAborts /\ NeverAborts' /\ [Next]_vars => [FS!Next]_(FS!vars)
  BY StepImplemented
<1>. QED
  BY <1>1, MappedInit, NoAborts, TypeCorrect, Inductive, PTL DEF Spec, ImplementsFileService, FS!Spec

-----------------------------------------------------------------------------
(* The server and its clients never wait for each other.  Whether a process *)
(* or thread can go on is what its actions ask of the state, written out.   *)

ClientMayGoOn(c) ==
    \/ pc[c] \in {"open", "issue", "shutdown"}
    \/ pc[c] = "handle" /\ handleMsgs[c] # <<>>
    \/ pc[c] \in {"opened", "drained", "closed"} /\ AllReached(c)
    \/ pc[c] \in {"id", "ack", "closing"} /\ ackMsgs[c] # <<>>
    \/ /\ pc[c] = "data"
       /\ \E m \in dataMsgs : m.to = "client" /\ m.rank = c /\ m.tag = request_id[c]
ListenerMayGoOn == \E c \in Clients : requestMsgs[c] # <<>>
HandlerMayGoOn(h) ==
    \/ handler[h].at = "idle" /\ incoming_queue # <<>>
    \/ /\ handler[h].at = "got" /\ frOf(h).operation \in Operations
       /\ frOf(h).operation = "open" /\ NotYetOpen(frOf(h).file) => NewHandles # {}
    \/ handler[h].at = "reply" /\ frOf(h).operation \in {"open", "close"}
PoolMayGoOn(t) ==
    \/ pool[t].at = "idle" /\ jobs # <<>>
    \/ pool[t].fn \in Handles /\ pool[t].at \in {"begin", "hash", "agios"}
    \/ /\ Runs(t, {"handle_write"}, "wait")
       /\ \E m \in dataMsgs : /\ m.to = "server" /\ m.tag = Current(t)
                              /\ m.rank = fr[Current(t)].rank
    \/ FileSystem = "pvfs" /\ Runs(t, {"dispatch_operation"}, "begin")
    \/ TransfersNext(t) /\ fr[Current(t)].operation \in {"read", "write"}
    \/ pool[t].fn = "dispatch_operation" /\ pool[t].k > Len(pool[t].ids)
    \/ Runs(t, {"callback"}, "begin") \/ Runs(t, {"callback"}, "reply")
AgiosMayGoOn == agios # {}
DispatcherMayGoOn ==
    \/ dispatcher.at = "pop" /\ ready_queue # <<>>
    \/ dispatcher.at \in {"find", "batch", "submit"}
SomeMayGoOn ==
    \/ \E c \in Clients : ClientMayGoOn(c)
    \/ ListenerMayGoOn
    \/ \E h \in Handlers : HandlerMayGoOn(h)
    \/ \E t \in PoolThreads : PoolMayGoOn(t)
    \/ AgiosMayGoOn
    \/ DispatcherMayGoOn

\* The end that every run comes to: all clients are through, and the server
\* stops.
Completed == shutdown_control /\ \A c \in Clients : pc[c] = "done"
NoDeadlock == Running => SomeMayGoOn \/ Completed

\* Only the PVFS build sorts a batch, and the last shutdown message stops the
\* server.
PvfsSorts == \A t \in PoolThreads : pool[t].at = "io" => FileSystem = "pvfs"
LastStops == shutdown = NClients => shutdown_control

\* Every step keeps to both.
LEMMA StepsKeepStop ==
    ASSUME TypeOK, PvfsSorts, LastStops, [Next]_vars PROVE PvfsSorts' /\ LastStops'
<1>1. LastStops'
  <2>1. CASE UNCHANGED <<shutdown, shutdown_control>>
    BY <2>1 DEF LastStops
  <2>2. CASE \E c \in Clients : ListenerShutdown(c)
    BY <2>2 DEF ListenerShutdown, LastStops, AllFinished
  <2>3. ASSUME NEW c \in Clients, Client(c) PROVE UNCHANGED <<shutdown, shutdown_control>>
    BY <2>3, ClientLeaves DEF serverVars
  <2>4. ASSUME NEW h \in Handlers, Handler(h) PROVE UNCHANGED <<shutdown, shutdown_control>>
    BY <2>4 DEF Handler, HandlerPop, HandlerOpen, HandlerSendHandle, HandlerDelegate,
                HandlerClose, HandlerAckClose, handlerOnly
  <2>5. ASSUME NEW t \in PoolThreads, Pool(t) PROVE UNCHANGED <<shutdown, shutdown_control>>
    BY <2>5 DEF Pool, PoolPull, HandleAck, HandleWriteWait, HandleHash, HandleAgios,
                DispatchSort, DispatchWrite, DispatchRead, DispatchDone, CallbackDel,
                CallbackReply, poolOnly
  <2>6. Agios \/ Dispatcher => UNCHANGED <<shutdown, shutdown_control>>
    BY DEF Agios, AgiosCallback, AgiosCallbackAggregated, agiosOnly, Dispatcher, DispatcherPop,
           DispatcherFind, DispatcherBatch, DispatcherSubmit, dispatcherOnly
  <2>7. ASSUME NEW c \in Clients, ListenerRequest(c) PROVE UNCHANGED <<shutdown, shutdown_control>>
    BY <2>7 DEF ListenerRequest
  <2>8. Finished \/ UNCHANGED vars => UNCHANGED <<shutdown, shutdown_control>>
    BY DEF Finished, vars
  <2>. QED  BY <2>1, <2>2, <2>3, <2>4, <2>5, <2>6, <2>7, <2>8 DEF Next, Listener
<1>2. PvfsSorts'
  <2>1. CASE UNCHANGED pool
    BY <2>1 DEF PvfsSorts
  <2>2. ASSUME NEW t \in PoolThreads, Pool(t) PROVE PvfsSorts'
    <3>1. DOMAIN pool = PoolThreads
      BY DEF TypeOK, ThreadTypes
    <3>2. \A u \in PoolThreads : u # t => pool'[u] = pool[u]
      BY <2>2, <3>1 DEF Pool, PoolPull, HandleAck, HandleWriteWait, HandleHash, HandleAgios,
            DispatchSort, DispatchWrite, DispatchRead, DispatchDone, CallbackDel,
            CallbackReply, Goto
    <3>3. pool'[t].at = "io" => pool[t].at = "io" \/ FileSystem = "pvfs"
      <4>1. CASE PoolPull(t) \/ HandleAgios(t) \/ DispatchDone(t)
        BY <3>1, <4>1 DEF PoolPull, HandleAgios, DispatchDone, IdleThread
      <4>2. CASE HandleAck(t) \/ HandleWriteWait(t) \/ HandleHash(t) \/ CallbackDel(t)
        <5>1. PICK at : Goto(t, at) /\ at \in {"wait", "hash", "agios", "reply"}
          BY <4>2 DEF HandleAck, HandleWriteWait, HandleHash, CallbackDel, AfterAck
        <5>2. pool[t] \in Work \cup {IdleThread}
          BY PoolTypes
        <5>3. [pool[t] EXCEPT !.at = at].at = at
          BY <5>2 DEF Work, IdleThread
        <5>. QED  BY <3>1, <5>1, <5>3 DEF Goto
      <4>3. CASE DispatchSort(t)
        BY <4>3 DEF DispatchSort
      <4>4. CASE DispatchWrite(t) \/ DispatchRead(t)
        <5>1. pool[t] \in Work \cup {IdleThread}
          BY PoolTypes
        <5>2. [pool[t] EXCEPT !.k = @ + 1].at = pool[t].at
          BY <5>1 DEF Work, IdleThread
        <5>3. pool' = [pool EXCEPT ![t].k = @ + 1]
          BY <4>4 DEF DispatchWrite, DispatchRead
        <5>. QED  BY <3>1, <5>2, <5>3
      <4>5. CASE CallbackReply(t)
        <5>1. pool'[t] = AfterReply(pool[t]) /\ pool[t] \in Work \cup {IdleThread}
          BY <3>1, <4>5, PoolTypes DEF CallbackReply
        <5>. QED  BY <5>1 DEF AfterReply, Work, IdleThread
      <4>. QED  BY <2>2, <4>1, <4>2, <4>3, <4>4, <4>5 DEF Pool
    <3>. QED  BY <3>2, <3>3 DEF PvfsSorts
  <2>3. ASSUME NEW c \in Clients, Client(c) PROVE UNCHANGED pool
    BY <2>3, ClientLeaves DEF serverVars
  <2>4. ASSUME NEW h \in Handlers, Handler(h) PROVE UNCHANGED pool
    BY <2>4 DEF Handler, HandlerPop, HandlerOpen, HandlerSendHandle, HandlerDelegate,
                HandlerClose, HandlerAckClose, handlerOnly
  <2>6. Agios \/ Dispatcher => UNCHANGED pool
    BY DEF Agios, AgiosCallback, AgiosCallbackAggregated, agiosOnly, Dispatcher, DispatcherPop,
           DispatcherFind, DispatcherBatch, DispatcherSubmit, dispatcherOnly
  <2>7. Listener => UNCHANGED pool
    BY DEF Listener, ListenerRequest, ListenerShutdown
  <2>8. Finished \/ UNCHANGED vars => UNCHANGED pool
    BY DEF Finished, vars
  <2>. QED  BY <2>1, <2>2, <2>3, <2>4, <2>6, <2>7, <2>8 DEF Next
<1>. QED  BY <1>1, <1>2

LEMMA StopKept == Spec => [](PvfsSorts /\ LastStops)
<1>1. Init => PvfsSorts /\ LastStops
  BY SizesAssumption DEF Init, PvfsSorts, LastStops, IdleThread
<1>2. TypeOK /\ (PvfsSorts /\ LastStops) /\ [Next]_vars => (PvfsSorts /\ LastStops)'
  BY StepsKeepStop
<1>. QED  BY <1>1, <1>2, TypeCorrect, PTL DEF Spec

\* Nothing can go on, so far as the server is concerned.
ServerRests == /\ ~ListenerMayGoOn /\ ~AgiosMayGoOn /\ ~DispatcherMayGoOn
               /\ \A h \in Handlers : ~HandlerMayGoOn(h)
               /\ \A t \in PoolThreads : ~PoolMayGoOn(t)
ClientsRest == \A c \in Clients : ~ClientMayGoOn(c)

\* A path that is not open leaves a descriptor free to open it.
LEMMA HandleIsFree ==
    ASSUME TypeOK, Descriptors, NEW f \in Files, NotYetOpen(f) PROVE NewHandles # {}
<1>1. CASE FileSystem = "pvfs"
  BY <1>1 DEF NewHandles
<1>2. CASE FileSystem # "pvfs"
  <2>1. SUFFICES ASSUME Fds \subseteq OpenFds PROVE FALSE
    BY <1>2 DEF NewHandles
  <2>2. PICK g : g = [x \in Files \ {f} |-> opened_files[x].fh]
    OBVIOUS
  <2>3. PICK T : T = {opened_files[x].fh : x \in Files \ {f}}
    OBVIOUS
  <2>4. Fds \subseteq T
    <3>1. opened_files[f].fh = NoFd
      BY DEF NotYetOpen, OpenFiles, Descriptors, NotOpened
    <3>. QED  BY <2>1, <2>3, <3>1 DEF OpenFds
  <2>5. IsFiniteSet(Files) /\ Cardinality(Files) \in Nat
    BY OpenersFinite
  <2>6. IsFiniteSet(Files \ {f}) /\ Cardinality(Files \ {f}) = Cardinality(Files) - 1
    BY <2>5, FS_RemoveElement
  <2>7. IsFiniteSet(T) /\ Cardinality(T) <= Cardinality(Files \ {f})
    <3>1. g \in Surjection(Files \ {f}, T)
      BY <2>2, <2>3 DEF Surjection
    <3>. QED  BY <2>6, <3>1, FS_Surjection
  <2>8. IsFiniteSet(Fds) /\ Cardinality(Fds) \in Nat /\ Cardinality(Fds) >= Cardinality(Files)
    <3>1. FirstFd \in Int /\ LastFd \in Int
      BY FdAssumption
    <3>2. IsFiniteSet(Fds)
      BY <3>1, FS_Interval DEF Fds
    <3>. QED  BY <3>2, FS_CardinalityType, FdAssumption
  <2>9. Cardinality(Fds) <= Cardinality(T) /\ Cardinality(T) \in Nat
    BY <2>4, <2>7, FS_Subset, FS_CardinalityType
  <2>. QED  BY <2>5, <2>6, <2>7, <2>8, <2>9
<1>. QED  BY <1>1, <1>2

\* A handler that has a request can go on with it.
LEMMA HandlersAreFree ==
    ASSUME TypeOK, NEW stage, NEW own, StageInv(stage), OwnInv(stage, own),
           ClientInv(stage, own), FileInv(stage, own), NEW h \in Handlers, ~HandlerMayGoOn(h)
    PROVE  handler[h].at = "idle"
<1>. SUFFICES ASSUME handler[h].at # "idle" PROVE FALSE
  OBVIOUS
<1>1. handler[h].at \in {"got", "reply"} /\ handler[h].id \in Ids
  BY DEF TypeOK, ThreadTypes, IdleHandler
<1>2. PICK id : id = handler[h].id
  OBVIOUS
<1>3. id \in Ids /\ stage[id] = handler[h].at
  BY <1>1, <1>2 DEF StageInv, HandlersHold
<1>4. RequestAt(fr[id], stage[id])
  <2>1. stage[id] # "free"
    BY <1>1, <1>3
  <2>. QED  BY <1>3, <2>1 DEF OwnInv
<1>5. fr[id].operation \in Operations /\ frOf(h) = fr[id]
  BY <1>2, <1>4 DEF RequestAt, frOf
<1>6. handler[h].at = "got"
  <2>1. ASSUME handler[h].at = "reply" PROVE FALSE
    BY <1>3, <1>4, <1>5, <2>1 DEF RequestAt, HandlerMayGoOn
  <2>. QED  BY <1>1, <2>1
<1>7. /\ fr[id].operation = "open" /\ NotYetOpen(fr[id].file) /\ NewHandles = {}
  BY <1>5, <1>6 DEF HandlerMayGoOn
<1>8. fr[id].file \in Files
  <2>1. fr[id] \in ForwardingRequest
    BY <1>3 DEF TypeOK, FileTypes
  <2>. QED  BY <1>7, <2>1 DEF ForwardingRequest, NamesFile
<1>9. Descriptors
  BY DEF FileInv
<1>. QED  BY <1>7, <1>8, <1>9, HandleIsFree

\* A thread of the pool that has a job can go on with it, unless it waits for
\* the data of a write.
LEMMA ThreadsAreFree ==
    ASSUME TypeOK, PvfsSorts, NEW stage, NEW own, StageInv(stage), OwnInv(stage, own),
           NEW t \in PoolThreads, ~PoolMayGoOn(t), pool[t].at # "idle"
    PROVE  Runs(t, {"handle_write"}, "wait")
<1>1. pool[t] \in Work /\ PoolPoint(pool[t]) /\ pool[t].fn \in JobFunctions
  <2>1. PoolPoint(pool[t])
    BY DEF StageInv, PoolHold
  <2>2. pool[t] \in Work
    BY PoolTypes
  <2>. QED  BY <2>1, <2>2 DEF Work
<1>2. CASE pool[t].fn = "dispatch_operation"
  <2>1. /\ pool[t].at \in {"begin", "io"} /\ pool[t].k <= Len(pool[t].ids)
        /\ FileSystem = "pvfs" => pool[t].at = "io"
    <3>1. pool[t].at \in {"begin", "io"}
      BY <1>1, <1>2 DEF PoolPoint
    <3>2. ~(pool[t].k > Len(pool[t].ids))
      BY <1>2 DEF PoolMayGoOn
    <3>3. pool[t].k \in Nat /\ Len(pool[t].ids) \in Nat
      BY <1>1, PoolTypes DEF Work
    <3>4. FileSystem = "pvfs" => pool[t].at # "begin"
      BY <1>2 DEF PoolMayGoOn, Runs
    <3>. QED  BY <3>1, <3>2, <3>3, <3>4
  <2>2. TransfersNext(t)
    BY <1>2, <2>1 DEF PvfsSorts, TransfersNext, Runs
  <2>3. pool[t].k \in DOMAIN pool[t].ids /\ pool[t].k \in Unanswered(pool[t])
    <3>1. pool[t].k \in Nat \ {0}
      BY <1>1 DEF Work
    <3>. QED  BY <1>2, <2>1, <3>1, PoolTypes DEF Unanswered
  <2>4. stage[Current(t)] = "transfer" /\ Current(t) \in Ids
    <3>1. stage[Current(t)] = PoolStage(pool[t], pool[t].k)
      BY <2>3 DEF StageInv, PoolHold, Current
    <3>2. pool[t].k \in Nat
      BY <1>1 DEF Work
    <3>3. PoolStage(pool[t], pool[t].k) = "transfer"
      BY <1>2, <3>2 DEF PoolStage
    <3>. QED  BY <2>3, <3>1, <3>3, PoolTypes DEF Current
  <2>5. fr[Current(t)].operation \in {"read", "write"}
    <3>1. RequestAt(fr[Current(t)], "transfer")
      BY <2>4 DEF OwnInv
    <3>. QED  BY <3>1 DEF RequestAt, Delegated, Buffered, Hashed
  <2>. QED  BY <2>2, <2>5 DEF PoolMayGoOn
<1>3. CASE pool[t].fn = "callback"
  BY <1>1, <1>3 DEF PoolPoint, PoolMayGoOn, Runs
<1>4. CASE pool[t].fn \in Handles
  <2>1. /\ pool[t].at \in {"begin", "wait", "hash", "agios"}
        /\ pool[t].at = "wait" => pool[t].fn = "handle_write"
    BY <1>1, <1>4 DEF PoolPoint, Handles
  <2>2. pool[t].at \notin {"begin", "hash", "agios"}
    BY <1>4 DEF PoolMayGoOn
  <2>. QED  BY <2>1, <2>2 DEF Runs
<1>. QED  BY <1>1, <1>2, <1>3, <1>4 DEF JobFunctions, Handles

\* Nor does it wait for data that is not sent, or going to be.
LEMMA DataComes ==
    ASSUME TypeOK, NEW stage, NEW own, StageInv(stage), OwnInv(stage, own),
           ClientInv(stage, own), NEW t \in PoolThreads, Runs(t, {"handle_write"}, "wait"),
           ClientsRest
    PROVE  PoolMayGoOn(t)
<1>1. /\ pool[t].fn = "handle_write" /\ pool[t].at = "wait" /\ pool[t] \in Work
      /\ PoolPoint(pool[t])
  BY PoolTypes DEF Runs, StageInv, PoolHold
<1>2. pool[t].k = 1 /\ 1 \in Unanswered(pool[t]) /\ 1 \in DOMAIN pool[t].ids
  <2>1. pool[t].k = 1
    BY <1>1 DEF PoolPoint
  <2>2. 1 <= Len(pool[t].ids)
    BY <1>1, <2>1 DEF Work
  <2>. QED  BY <1>1, <2>1, <2>2, PoolTypes DEF Unanswered
<1>3. PICK id : id = Current(t)
  OBVIOUS
<1>4. id \in Ids /\ stage[id] = "wait"
  <2>1. stage[id] = PoolStage(pool[t], 1)
    BY <1>1, <1>2, <1>3 DEF StageInv, PoolHold, Current
  <2>2. PoolStage(pool[t], 1) = "wait"
    BY <1>1 DEF PoolStage
  <2>. QED  BY <1>2, <1>3, <2>1, <2>2, PoolTypes DEF Current
<1>5. PICK c : c = fr[id].rank
  OBVIOUS
<1>6. c \in Clients /\ own[c] = id /\ Served(c, stage, own)
  BY <1>4, <1>5, RequestOf
<1>7. ServedAs(c, "wait", id)
  BY <1>4, <1>6 DEF Served
<1>8. ~(pc[c] = "id" /\ ackMsgs[c] = <<id>>)
  <2>1. <<id>> # <<>>
    OBVIOUS
  <2>. QED  BY <1>6, <2>1 DEF ClientsRest, ClientMayGoOn
<1>9. Mail(c) = {[to |-> "server", rank |-> c, tag |-> id, data |-> c]}
  BY <1>7, <1>8 DEF ServedAs, Arriving, Unacked, Buffered, Hashed
<1>10. \E m \in dataMsgs : m.to = "server" /\ m.tag = id /\ m.rank = c
  <2>1. PICK m : m = [to |-> "server", rank |-> c, tag |-> id, data |-> c]
    OBVIOUS
  <2>2. m.to = "server" /\ m.tag = id /\ m.rank = c
    BY <2>1
  <2>3. m \in dataMsgs
    BY <1>9, <2>1 DEF Mail
  <2>. QED  BY <2>2, <2>3
<1>. QED  BY <1>3, <1>5, <1>10 DEF PoolMayGoOn

\* A server that rests has no request.
LEMMA RestingIsEmpty ==
    ASSUME TypeOK, PvfsSorts, NEW stage \in [Ids -> Stages], NEW own, StageInv(stage),
           OwnInv(stage, own), ClientInv(stage, own), FileInv(stage, own), ServerRests,
           ClientsRest, Handlers # {}, PoolThreads # {}
    PROVE  \A id \in Ids : stage[id] = "free"
<1>1. \A h \in Handlers : handler[h].at = "idle"
  BY HandlersAreFree DEF ServerRests
<1>2. \A t \in PoolThreads : pool[t].at = "idle"
  BY ThreadsAreFree, DataComes DEF ServerRests
<1>3. incoming_queue = <<>>
  BY <1>1 DEF ServerRests, HandlerMayGoOn
<1>4. jobs = <<>>
  BY <1>2 DEF ServerRests, PoolMayGoOn
<1>5. dispatcher = IdleDispatcher /\ ready_queue = <<>> /\ agios = {}
  <2>1. dispatcher = IdleDispatcher
    BY DEF ServerRests, DispatcherMayGoOn, TypeOK, ThreadTypes
  <2>. QED  BY <2>1 DEF ServerRests, DispatcherMayGoOn, AgiosMayGoOn, IdleDispatcher
<1>6. Range(<<>>) = {} /\ DOMAIN <<>> = {}
  BY DEF Range
<1>7. ASSUME NEW id \in Ids
      PROVE  /\ stage[id] \notin {"incoming", "ready", "batch", "agios"}
             /\ stage[id] \notin {"got", "reply"}
             /\ stage[id] \notin {"handle", "dispatch", "callback"}
             /\ stage[id] \notin PoolStages
  <2>1. /\ Range(incoming_queue) = {i \in Ids : stage[i] = "incoming"}
        /\ Range(ready_queue) = {i \in Ids : stage[i] = "ready"}
        /\ Range(dispatcher.ids) = {i \in Ids : stage[i] = "batch"}
        /\ agios = {i \in Ids : stage[i] = "agios"}
    BY DEF StageInv, QueueHolds, DispatcherHolds
  <2>2. stage[id] \notin {"incoming", "ready", "batch", "agios"}
    BY <1>3, <1>5, <1>6, <1>7, <2>1 DEF IdleDispatcher
  <2>3. stage[id] \notin {"got", "reply"}
    BY <1>1, <1>7 DEF StageInv, HandlersHold
  <2>4. stage[id] \notin {"handle", "dispatch", "callback"}
    BY <1>4, <1>6, <1>7 DEF StageInv, JobsHold
  <2>5. stage[id] \notin PoolStages
    <3>1. \A t \in PoolThreads : Unanswered(pool[t]) = {}
      <4>1. ASSUME NEW t \in PoolThreads PROVE pool[t] = IdleThread
        BY <1>2, PoolTypes
      <4>. QED  BY <4>1, IdleHolds
    <3>. QED  BY <1>7, <3>1 DEF StageInv, PoolHold
  <2>. QED  BY <2>2, <2>3, <2>4, <2>5
<1>8. ASSUME NEW id \in Ids PROVE stage[id] = "free"
  <2>1. stage[id] \in Stages
    BY <1>8
  <2>2. stage[id] \in {"free"} \cup {"incoming", "ready", "batch", "agios"} \cup {"got", "reply"}
                    \cup {"handle", "dispatch", "callback"} \cup PoolStages
    BY <2>1 DEF Stages, PoolStages
  <2>. QED  BY <1>7, <2>2
<1>. QED  BY <1>8

\* Then a client that rests is at a barrier, or has finished.
LEMMA RestingAtBarrier ==
    ASSUME TypeOK, Running, NEW stage, NEW own, ClientInv(stage, own), ServerRests, ClientsRest,
           \A id \in Ids : stage[id] = "free", NEW c \in Clients
    PROVE  pc[c] \in {"opened", "drained", "closed", "done"} /\ requestMsgs[c] = <<>>
<1>1. ~ClientMayGoOn(c) /\ requestMsgs[c] = <<>>
  BY DEF ClientsRest, ServerRests, ListenerMayGoOn
<1>2. ClientOK(c, stage, own)
  BY DEF ClientInv
<1>3. ~Asking(c, own)
  <2>1. <<AsksFor(c)>> # <<>>
    OBVIOUS
  <2>. QED  BY <1>1, <2>1 DEF Asking
<1>4. ~Served(c, stage, own)
  BY DEF Served
<1>5. ~HasAnswer(c, own)
  <2>. SUFFICES ASSUME HasAnswer(c, own) PROVE FALSE
    OBVIOUS
  <2>0. Len(<<>>) = 0
    OBVIOUS
  <2>1. ~(pc[c] = "handle" /\ Len(handleMsgs[c]) = 1)
    BY <1>1, <2>0 DEF ClientMayGoOn
  <2>2. ~(pc[c] \in {"closing", "ack"} /\ Len(ackMsgs[c]) = 1)
    BY <1>1, <2>0 DEF ClientMayGoOn
  <2>3. PICK m \in [to : {"client"}, rank : {c}, tag : Ids, data : Bytes] :
           /\ pc[c] \in {"id", "data"} /\ Mail(c) = {m}
           /\ IF pc[c] = "id" THEN ackMsgs[c] = <<m.tag>>
              ELSE ackMsgs[c] = <<>> /\ request_id[c] = m.tag
    BY <2>1, <2>2 DEF HasAnswer
  <2>4. pc[c] = "data" /\ request_id[c] = m.tag
    <3>1. <<m.tag>> # <<>>
      OBVIOUS
    <3>. QED  BY <1>1, <2>3, <3>1 DEF ClientMayGoOn
  <2>5. m \in dataMsgs /\ m.to = "client" /\ m.rank = c
    <3>1. m \in Mail(c)
      BY <2>3
    <3>. QED  BY <3>1 DEF Mail
  <2>. QED  BY <1>1, <2>4, <2>5 DEF ClientMayGoOn
<1>6. ~GaveUp(c, own)
  BY DEF GaveUp, Running
<1>7. pc[c] \in Idle
  BY <1>2, <1>3, <1>4, <1>5, <1>6 DEF ClientOK
<1>. QED  BY <1>1, <1>7 DEF Idle, ClientMayGoOn

\* The clients that wait at the earliest barrier have all reached it.
LEMMA BarriersOpen ==
    ASSUME TypeOK, BarrierInv, ClientsRest,
           \A c \in Clients : pc[c] \in {"opened", "drained", "closed", "done"}
    PROVE  \A c \in Clients : pc[c] = "done"
<1>. DEFINE S == {c \in Clients : pc[c] # "done"}
<1>. SUFFICES ASSUME S # {} PROVE FALSE
  OBVIOUS
<1>1. \A c \in Clients : barrier[c] \in Nat
  BY DEF TypeOK, ClientTypes
<1>2. \A c \in S : barrier[c] \in Nat
  BY <1>1
<1>3. PICK c \in S : \A d \in S : barrier[d] >= barrier[c]
  <2>. HIDE DEF S
  <2>. QED  BY <1>2, Rearmost
<1>4. c \in Clients /\ pc[c] \in {"opened", "drained", "closed"} /\ phase[c] \in Phases
  BY DEF BarrierInv
<1>5. barrier[c] <= IF Phases = {"write", "read"} THEN 6 ELSE 3
  <2>1. barrier[c] = BarriersIn(c)
    BY <1>4 DEF BarrierInv
  <2>2. phase[c] = "read" /\ "write" \in Phases => Phases = {"write", "read"}
    BY <1>4, LayoutAssumption
  <2>. QED  BY <1>4, <2>1, <2>2 DEF BarriersIn, Inside
<1>6. ASSUME NEW d \in Clients PROVE barrier[d] >= barrier[c]
  <2>1. CASE d \in S
    BY <1>3, <2>1
  <2>2. CASE d \notin S
    <3>1. pc[d] = "done" /\ barrier[d] = BarriersIn(d)
      BY <2>2 DEF BarrierInv
    <3>2. barrier[d] = IF Phases = {"write", "read"} THEN 6 ELSE 3
      BY <3>1 DEF BarriersIn, Inside
    <3>. QED  BY <1>1, <1>4, <1>5, <3>2
  <2>. QED  BY <2>1, <2>2
<1>. QED  BY <1>4, <1>6 DEF ClientsRest, ClientMayGoOn, AllReached

\* All clients then are through, and the server stops.
LEMMA InvariantGoesOn ==
    ASSUME TypeOK, IInv, PvfsSorts, LastStops, Handlers # {}, PoolThreads # {}
    PROVE  NoDeadlock
<1>. SUFFICES ASSUME Running, ~SomeMayGoOn PROVE Completed
  BY DEF NoDeadlock
<1>1. ServerRests /\ ClientsRest
  BY DEF SomeMayGoOn, ServerRests, ClientsRest
<1>2. PICK stage \in [Ids -> Stages], own \in [Clients -> Ids \cup {NoId}] : SafetyInv(stage, own)
  BY DEF IInv
<1>3. /\ StageInv(stage) /\ OwnInv(stage, own) /\ ClientInv(stage, own) /\ BarrierInv
      /\ FileInv(stage, own) /\ ShutdownInv
  BY <1>2 DEF SafetyInv
<1>4. \A id \in Ids : stage[id] = "free"
  BY <1>1, <1>3, RestingIsEmpty
<1>5. \A c \in Clients : pc[c] \in {"opened", "drained", "closed", "done"} /\ requestMsgs[c] = <<>>
  BY <1>1, <1>3, <1>4, RestingAtBarrier
<1>6. \A c \in Clients : pc[c] = "done"
  BY <1>1, <1>3, <1>5, BarriersOpen
<1>7. Gone = Clients
  BY <1>5, <1>6 DEF Gone
<1>8. shutdown_control
  BY <1>3, <1>7, ClientsFinite DEF ShutdownInv, LastStops
<1>. QED  BY <1>6, <1>8 DEF Completed

\* If there are handlers and pool threads at all, as many as there may be,
\* clients, listener, handlers, pool, AGIOS and dispatcher never all wait for
\* each other: some of them can go on until every client is through and the
\* server stops (main.c, the condition variables and the barriers).
THEOREM ServerIsNeverStuck ==
    ASSUME IdsSuffice, Handlers # {}, PoolThreads # {} PROVE Spec => []NoDeadlock
<1>1. TypeOK /\ IInv /\ (PvfsSorts /\ LastStops) => NoDeadlock
  BY InvariantGoesOn
<1>. QED  BY <1>1, StopKept, TypeCorrect, Inductive, PTL

-----------------------------------------------------------------------------
(* The server and its clients cannot go on for ever: how far each is.       *)

\* The stages at which the identifiers are.
TheStage == CHOOSE stage \in [Ids -> Stages] : StageInv(stage)

\* The most steps that are left to an identifier at a stage.  Those of a batch
\* have three while the dispatcher collects it, and one more for PVFS while it
\* is to be sorted.
Unsorted(id) ==
    \E t \in PoolThreads : /\ FileSystem = "pvfs" /\ Runs(t, {"dispatch_operation"}, "begin")
                           /\ id \in Range(pool[t].ids)
StepsLeft(id, s) ==
    CASE s = "incoming" -> 19 [] s = "got" -> 18 [] s = "handle" -> 17 [] s = "begin" -> 16
      [] s = "wait" -> 15 [] s = "hash" -> 14 [] s = "add" -> 13 [] s = "agios" -> 12
      [] s = "ready" -> 11
      [] s = "batch" -> IF dispatcher.at = "find" THEN 10
                        ELSE IF dispatcher.at = "batch" THEN 9 ELSE 8
      [] s = "dispatch" -> 7 [] s = "transfer" -> IF Unsorted(id) THEN 6 ELSE 5
      [] s = "transferred" -> 4 [] s = "callback" -> 3 [] s = "answer" -> 2
      [] s \in {"reply", "last"} -> 1 [] OTHER -> 0

\* And to the request of a client, from its message to its answer.
RequestsBy(c) == {id \in Ids : fr[id].rank = c}
AnswerLeft(c) ==
    IF requestMsgs[c] # <<>> THEN 20
    ELSE IF RequestsBy(c) = {} THEN 0
    ELSE LET id == CHOOSE id \in RequestsBy(c) : TRUE IN StepsLeft(id, TheStage[id])

\* How far a client is in its program: the barriers it has passed, and the
\* steps it has taken since.
StepIn(c) ==
    CASE pc[c] \in {"opened", "drained", "closed"} -> 0
      [] pc[c] \in {"open", "closing", "shutdown"} -> 1
      [] pc[c] \in {"handle", "done"} -> 2
      [] pc[c] = "issue" -> 3 * iter[c] + 1
      [] pc[c] = "id" -> 3 * iter[c] + 2
      [] OTHER -> 3 * iter[c] + 3
StepsBetween == 3 * NRequests + 3
Place(c) == StepsBetween * barrier[c] + StepIn(c)

\* How far a client is in all: with its program and with its request.
Course(c) == 21 * Place(c) + 20 - AnswerLeft(c)
LastCourse == 147 * StepsBetween - 1

\* Nobody falls back, and somebody gets on.
Further == /\ \A c \in Clients : Course(c)' >= Course(c)
           /\ \E c \in Clients : Course(c)' > Course(c)

\* An identifier is at one stage only: the thread or queue that has it.
LEMMA OneStage ==
    ASSUME TypeOK, NEW a \in [Ids -> Stages], NEW b \in [Ids -> Stages], StageInv(a), StageInv(b),
           NEW id \in Ids, a[id] # "free"
    PROVE  b[id] = a[id]
<1>1. a[id] \in {"incoming", "agios", "ready", "batch"} => b[id] = a[id]
  BY DEF StageInv, QueueHolds, DispatcherHolds
<1>2. CASE a[id] \in {"got", "reply"}
  <2>1. PICK h \in Handlers : handler[h].at # "idle" /\ handler[h].id = id
    BY <1>2 DEF StageInv, HandlersHold
  <2>. QED  BY <2>1 DEF StageInv, HandlersHold
<1>3. CASE a[id] \in {"handle", "dispatch", "callback"}
  <2>1. PICK j \in DOMAIN jobs : \E k \in DOMAIN jobs[j].ids : jobs[j].ids[k] = id
    BY <1>3 DEF StageInv, JobsHold
  <2>2. PICK k \in DOMAIN jobs[j].ids : jobs[j].ids[k] = id
    BY <2>1
  <2>3. a[id] = JobStage(jobs[j].fn) /\ b[id] = JobStage(jobs[j].fn)
    BY <2>2 DEF StageInv, JobsHold
  <2>. QED  BY <2>3
<1>4. CASE a[id] \in PoolStages
  <2>1. PICK t \in PoolThreads : \E k \in Unanswered(pool[t]) : pool[t].ids[k] = id
    BY <1>4 DEF StageInv, PoolHold
  <2>2. PICK k \in Unanswered(pool[t]) : pool[t].ids[k] = id
    BY <2>1
  <2>3. pool[t].at # "idle"
    BY <2>2, PoolTypes, IdleHolds
  <2>4. a[id] = PoolStage(pool[t], k) /\ b[id] = PoolStage(pool[t], k)
    BY <2>2, <2>3 DEF StageInv, PoolHold
  <2>. QED  BY <2>4
<1>5. a[id] \in Stages
  OBVIOUS
<1>. QED  BY <1>1, <1>2, <1>3, <1>4, <1>5 DEF Stages, PoolStages

\* So that the state determines the stages.
LEMMA StageIs ==
    ASSUME TypeOK, NEW stage \in [Ids -> Stages], StageInv(stage) PROVE TheStage = stage
<1>1. PICK a : a = TheStage
  OBVIOUS
<1>2. a \in [Ids -> Stages] /\ StageInv(a)
  BY <1>1 DEF TheStage
<1>3. ASSUME NEW id \in Ids PROVE a[id] = stage[id]
  BY <1>2, OneStage
<1>4. a = stage
  BY <1>2, <1>3
<1>. QED  BY <1>1, <1>4

StageFact == \A stage \in [Ids -> Stages] : TypeOK /\ StageInv(stage) => TheStage = stage

\* The same for all stages at once.
LEMMA StageHolds == StageFact
  BY StageIs DEF StageFact

\* And after a step.
LEMMA StageNext ==
    ASSUME TypeOK', NEW next \in [Ids -> Stages], StageInv(next)' PROVE TheStage' = next
<1>1. StageFact'
  BY StageHolds, PTL
<1>. QED  BY <1>1 DEF StageFact

\* What is left is a number from 0 to 20.
LEMMA LeftType ==
    ASSUME NEW id, NEW s
    PROVE  /\ StepsLeft(id, s) \in 0..19 /\ StepsLeft(id, s)' \in 0..19
           /\ s \in Stages \ {"free"} => StepsLeft(id, s) >= 1
<1>1. StepsLeft(id, s) \in 0..19
  BY DEF StepsLeft
<1>2. StepsLeft(id, s)' \in 0..19
  BY DEF StepsLeft
<1>3. s \in Stages \ {"free"} => StepsLeft(id, s) >= 1
  BY DEF StepsLeft, Stages
<1>. QED  BY <1>1, <1>2, <1>3

\* A client has one request at most: its own identifier.
LEMMA RequestsAreOwn ==
    ASSUME TypeOK, NEW stage, NEW own, HistoryInv(stage, own), NEW c \in Clients
    PROVE  /\ own[c] = NoId => RequestsBy(c) = {}
           /\ own[c] # NoId => /\ RequestsBy(c) = {own[c]} /\ own[c] \in Ids
                               /\ stage[own[c]] # "free" /\ requestMsgs[c] = <<>>
<1>1. OwnInv(stage, own) /\ ClientInv(stage, own) /\ own[c] \in Ids \cup {NoId} /\ NoId \notin Ids
  BY MarkersApart DEF HistoryInv, IsHistory
<1>2. \A id \in Ids : fr[id].rank = c <=> own[c] = id
  BY <1>1, RequestsOf
<1>3. own[c] = NoId => RequestsBy(c) = {}
  BY <1>1, <1>2 DEF RequestsBy
<1>4. own[c] # NoId => RequestsBy(c) = {own[c]}
  BY <1>1, <1>2 DEF RequestsBy
<1>5. own[c] # NoId => Served(c, stage, own)
  BY <1>1, ServedClient DEF ClientInv
<1>. QED  BY <1>1, <1>3, <1>4, <1>5 DEF Served

\* What is left to a client that has no request, and to one that has.
LEMMA LeftOfNone ==
    ASSUME NEW c, RequestsBy(c) = {}, requestMsgs[c] = <<>> PROVE AnswerLeft(c) = 0
  BY DEF AnswerLeft
LEMMA LeftOfOne ==
    ASSUME TypeOK, NEW stage \in [Ids -> Stages], StageInv(stage), NEW c, NEW id,
           RequestsBy(c) = {id}, requestMsgs[c] = <<>>
    PROVE  AnswerLeft(c) = StepsLeft(id, stage[id])
<1>1. TheStage = stage
  BY StageIs
<1>2. PICK i : i = CHOOSE r \in RequestsBy(c) : TRUE
  OBVIOUS
<1>3. i = id
  BY <1>2
<1>4. AnswerLeft(c) = StepsLeft(i, TheStage[i])
  BY <1>2 DEF AnswerLeft
<1>. QED  BY <1>1, <1>3, <1>4

\* The same after a step.
LEMMA LeftOfNoneNext ==
    ASSUME NEW c, RequestsBy(c)' = {}, requestMsgs'[c] = <<>> PROVE AnswerLeft(c)' = 0
  BY DEF AnswerLeft
LEMMA LeftOfOneNext ==
    ASSUME TypeOK', NEW next \in [Ids -> Stages], StageInv(next)', NEW c, NEW id,
           RequestsBy(c)' = {id}, requestMsgs'[c] = <<>>
    PROVE  AnswerLeft(c)' = StepsLeft(id, next[id])'
<1>1. TheStage' = next
  BY StageNext
<1>2. PICK i : i = CHOOSE r \in RequestsBy(c)' : TRUE
  OBVIOUS
<1>3. i = id
  BY <1>2
<1>4. AnswerLeft(c)' = StepsLeft(i, TheStage[i])'
  BY <1>2 DEF AnswerLeft
<1>5. StepsLeft(i, TheStage[i])' = StepsLeft(id, next[id])'
  BY <1>1, <1>3 DEF StepsLeft
<1>. QED  BY <1>4, <1>5

\* The answer that is left, as a number.
LEMMA AnswerType == ASSUME NEW c PROVE AnswerLeft(c) \in 0..20 /\ AnswerLeft(c)' \in 0..20
<1>1. AnswerLeft(c) \in 0..20
  <2>1. PICK id : id = CHOOSE r \in RequestsBy(c) : TRUE
    OBVIOUS
  <2>2. StepsLeft(id, TheStage[id]) \in 0..19
    BY LeftType
  <2>. QED  BY <2>1, <2>2 DEF AnswerLeft
<1>2. AnswerLeft(c)' \in 0..20
  <2>1. PICK id : id = CHOOSE r \in RequestsBy(c)' : TRUE
    OBVIOUS
  <2>2. StepsLeft(id, TheStage[id])' \in 0..19
    BY DEF StepsLeft
  <2>. QED  BY <2>1, <2>2 DEF AnswerLeft
<1>. QED  BY <1>1, <1>2

\* The steps between two barriers are so many at most.
LEMMA StepsType ==
    ASSUME TypeOK, NEW c \in Clients
    PROVE  StepIn(c) \in 0..(StepsBetween - 1) /\ StepsBetween \in Nat \ {0} /\ barrier[c] \in Nat
<1>1. /\ NRequests \in Nat /\ iter[c] \in 0..NRequests /\ barrier[c] \in Nat
      /\ pc[c] \in {"id", "ack", "data"} => iter[c] < NRequests
      /\ pc[c] \in {"open", "handle", "opened", "issue", "id", "ack", "data", "drained",
                     "closing", "closed", "shutdown", "done"}
  BY SizesAssumption DEF TypeOK, ClientTypes
<1>2. StepsBetween \in Nat \ {0}
  BY <1>1 DEF StepsBetween
<1>3. StepIn(c) \in 0..(StepsBetween - 1)
  <2>1. CASE pc[c] \in {"id", "ack", "data"}
    BY <1>1, <2>1 DEF StepIn, StepsBetween
  <2>2. CASE pc[c] = "issue"
    BY <1>1, <2>2 DEF StepIn, StepsBetween
  <2>3. CASE pc[c] \notin {"id", "ack", "data", "issue"}
    BY <1>1, <2>3 DEF StepIn, StepsBetween
  <2>. QED  BY <2>1, <2>2, <2>3
<1>. QED  BY <1>1, <1>2, <1>3

\* The same after a step, and the place of a client is a number.
StepsFact == \A c \in Clients : TypeOK => StepIn(c) \in 0..(StepsBetween - 1)
LEMMA StepsHold == StepsFact
  BY StepsType DEF StepsFact
LEMMA StepsNext ==
    ASSUME TypeOK', NEW c \in Clients PROVE StepIn(c)' \in 0..(StepsBetween - 1) /\ barrier'[c] \in Nat
<1>1. StepsFact'
  BY StepsHold, PTL
<1>2. StepsBetween' = StepsBetween
  BY DEF StepsBetween
<1>. QED  BY <1>1, <1>2 DEF StepsFact, TypeOK, ClientTypes

\* Of two places the one behind more barriers is further, and behind as many
\* the one with more steps since.
LEMMA Ordering ==
    ASSUME NEW k \in Nat \ {0}, NEW b \in Nat, NEW s \in 0..(k - 1), NEW u \in 0..(k - 1)
    PROVE  /\ k * b + s \in Nat /\ k * (b + 1) + u > k * b + s
           /\ u > s => k * b + u > k * b + s
<1>1. k * b \in Nat /\ k * (b + 1) = k * b + k
  OBVIOUS
<1>. QED  BY <1>1

LEMMA PlaceType ==
    ASSUME TypeOK, TypeOK', NEW c \in Clients PROVE Place(c) \in Nat /\ Place(c)' \in Nat
<1>1. /\ StepIn(c) \in 0..(StepsBetween - 1) /\ StepsBetween \in Nat \ {0} /\ barrier[c] \in Nat
      /\ StepIn(c)' \in 0..(StepsBetween - 1) /\ barrier'[c] \in Nat
  BY StepsType, StepsNext
<1>2. Place(c) = StepsBetween * barrier[c] + StepIn(c)
  BY DEF Place
<1>3. Place(c)' = StepsBetween * barrier'[c] + StepIn(c)'
  BY DEF Place, StepsBetween
<1>4. StepsBetween * barrier[c] + StepIn(c) \in Nat
  BY <1>1, Ordering
<1>5. StepsBetween * barrier'[c] + StepIn(c)' \in Nat
  BY <1>1, Ordering
<1>. QED  BY <1>2, <1>3, <1>4, <1>5

\* A client that gets on with its program is further, whatever its request.
LEMMA PlaceDecides ==
    ASSUME TypeOK, TypeOK', NEW c \in Clients
    PROVE  /\ Course(c) \in Nat /\ Course(c)' \in Nat
           /\ Place(c)' > Place(c) => Course(c)' > Course(c)
           /\ Place(c)' = Place(c) =>
                 /\ AnswerLeft(c)' <= AnswerLeft(c) => Course(c)' >= Course(c)
                 /\ AnswerLeft(c)' < AnswerLeft(c) => Course(c)' > Course(c)
<1>1. PICK p, q, a, b : p = Place(c) /\ q = Place(c)' /\ a = AnswerLeft(c) /\ b = AnswerLeft(c)'
  OBVIOUS
<1>2. p \in Nat /\ q \in Nat /\ a \in 0..20 /\ b \in 0..20
  BY <1>1, PlaceType, AnswerType
<1>3. Course(c) = 21 * p + 20 - a /\ Course(c)' = 21 * q + 20 - b
  BY <1>1 DEF Course
<1>. QED  BY <1>1, <1>2, <1>3

\* Each step of a client gets it on.
LEMMA ClientPlaces ==
    ASSUME TypeOK, TypeOK', Running, aborted' = "no", NEW c \in Clients, Client(c)
    PROVE  Place(c)' > Place(c)
<1>1. /\ DOMAIN pc = Clients /\ DOMAIN iter = Clients /\ DOMAIN barrier = Clients
      /\ iter[c] \in 0..NRequests /\ NRequests \in Nat
  BY SizesAssumption DEF TypeOK, ClientTypes
<1>2. \/ barrier'[c] = barrier[c] + 1
      \/ barrier'[c] = barrier[c] /\ StepIn(c)' > StepIn(c)
  <2>1. CASE ClientOpen(c) \/ ClientClose(c) \/ ClientShutdown(c)
    <3>1. /\ barrier' = barrier
          /\ \/ pc[c] = "open" /\ pc'[c] = "handle"
             \/ pc[c] = "drained" /\ pc'[c] = "closing"
             \/ pc[c] = "shutdown" /\ pc'[c] = "done"
      BY <1>1, <2>1 DEF ClientOpen, ClientClose, ClientShutdown, Request
    <3>. QED  BY <3>1 DEF StepIn
  <2>2. CASE ClientStart(c) \/ ClientNext(c)
    <3>1. /\ barrier' = barrier
          /\ \/ pc[c] = "opened" /\ pc'[c] = "issue" /\ iter'[c] = 0
             \/ pc[c] = "closed" /\ pc'[c] \in {"open", "shutdown"}
      BY <1>1, <2>2 DEF ClientStart, ClientNext, Follows
    <3>. QED  BY <3>1 DEF StepIn
  <2>3. CASE ClientIssue(c) \/ ClientSendData(c) \/ ClientReadId(c)
    <3>1. /\ barrier' = barrier /\ iter'[c] = iter[c]
          /\ \/ pc[c] = "issue" /\ pc'[c] = "id"
             \/ pc[c] = "id" /\ pc'[c] \in {"ack", "data"}
      BY <1>1, <2>3 DEF ClientIssue, ClientSendData, ClientReadId, Request
    <3>. QED  BY <1>1, <3>1 DEF StepIn
  <2>4. CASE ClientHandle(c) \/ ClientLoopEnd(c) \/ ClientClosed(c)
    BY <1>1, <2>4 DEF ClientHandle, ClientLoopEnd, ClientClosed, EnterBarrier
  <2>5. CASE ClientWriteDone(c) \/ ClientReadDone(c)
    <3>1. pc[c] \in {"ack", "data"} /\ NextIteration(c)
      <4>1. CASE ClientWriteDone(c)
        BY <4>1 DEF ClientWriteDone
      <4>2. CASE ClientReadDone(c)
        BY <4>2 DEF ClientReadDone
      <4>. QED  BY <2>5, <4>1, <4>2
    <3>2. CASE barrier' = [barrier EXCEPT ![c] = @ + 1]
      BY <1>1, <3>2
    <3>3. CASE barrier' # [barrier EXCEPT ![c] = @ + 1]
      <4>1. barrier' = barrier /\ iter'[c] = iter[c] + 1 /\ pc'[c] = "issue"
        BY <1>1, <3>1, <3>3 DEF NextIteration, EnterBarrier
      <4>. QED  BY <1>1, <3>1, <4>1 DEF StepIn
    <3>. QED  BY <3>2, <3>3
  <2>. QED  BY <2>1, <2>2, <2>3, <2>4, <2>5 DEF Client
<1>3. /\ StepIn(c) \in 0..(StepsBetween - 1) /\ StepsBetween \in Nat \ {0} /\ barrier[c] \in Nat
      /\ StepIn(c)' \in 0..(StepsBetween - 1)
  BY StepsType, StepsNext
<1>4. Place(c) = StepsBetween * barrier[c] + StepIn(c)
  BY DEF Place
<1>5. Place(c)' = StepsBetween * barrier'[c] + StepIn(c)'
  BY DEF Place, StepsBetween
<1>. QED  BY <1>2, <1>3, <1>4, <1>5, Ordering

\* A client whose message, request and stage are as before has as much left.
LEMMA SameAnswer ==
    ASSUME TypeOK, TypeOK', NEW stage \in [Ids -> Stages], StageInv(stage), StageInv(stage)',
           UNCHANGED <<fr, pool, dispatcher>>, NEW c, requestMsgs'[c] = requestMsgs[c]
    PROVE  AnswerLeft(c)' = AnswerLeft(c)
<1>1. TheStage = stage /\ TheStage' = stage
  BY StageIs, StageNext
<1>2. RequestsBy(c)' = RequestsBy(c)
  BY DEF RequestsBy
<1>3. ASSUME NEW id PROVE StepsLeft(id, TheStage[id])' = StepsLeft(id, TheStage[id])
  <2>1. Unsorted(id)' <=> Unsorted(id)
    BY DEF Unsorted, Runs
  <2>. QED  BY <1>1, <2>1 DEF StepsLeft
<1>4. PICK id : id = CHOOSE r \in RequestsBy(c) : TRUE
  OBVIOUS
<1>5. id = CHOOSE i \in RequestsBy(c)' : TRUE
  BY <1>2, <1>4
<1>6. StepsLeft(id, TheStage[id])' = StepsLeft(id, TheStage[id])
  BY <1>3
<1>. QED  BY <1>2, <1>4, <1>5, <1>6 DEF AnswerLeft

\* Each step of a client gets that client on and leaves the others where they
\* are.
LEMMA ClientFurther ==
    ASSUME TypeOK, TypeOK', Running, aborted' = "no", NEW stage, NEW own, HistoryInv(stage, own),
           NEW c \in Clients, Client(c)
    PROVE  Further
<1>1. Course(c)' > Course(c) /\ Course(c) \in Nat /\ Course(c)' \in Nat
  BY ClientPlaces, PlaceDecides
<1>2. UNCHANGED <<incoming_queue, handler, jobs, pool, agios, ready_queue, dispatcher, requests, fr>>
      /\ UNCHANGED <<fr, pool, dispatcher>>
  BY ClientLeaves DEF serverVars, ioVars
<1>3. stage \in [Ids -> Stages] /\ StageInv(stage) /\ StageInv(stage)'
  BY <1>2, StagesStay DEF HistoryInv, IsHistory
<1>4. ASSUME NEW d \in Clients, d # c PROVE Course(d)' >= Course(d)
  <2>1. pc'[d] = pc[d] /\ iter'[d] = iter[d] /\ requestMsgs'[d] = requestMsgs[d]
    BY <1>4, ClientMovesOne
  <2>2. barrier'[d] = barrier[d]
    <3>1. barrier' = barrier \/ barrier' = [barrier EXCEPT ![c] = @ + 1]
      BY DEF Client, ClientOpen, ClientHandle, ClientStart, ClientIssue, ClientSendData,
             ClientReadId, ClientWriteDone, ClientReadDone, ClientLoopEnd, ClientClose,
             ClientClosed, ClientNext, ClientShutdown, NextIteration, EnterBarrier
    <3>. QED  BY <1>4, <3>1 DEF TypeOK, ClientTypes
  <2>3. Place(d)' = Place(d)
    BY <2>1, <2>2 DEF Place, StepIn, StepsBetween
  <2>4. AnswerLeft(d)' = AnswerLeft(d) /\ AnswerLeft(d) \in 0..20
    BY <1>2, <1>3, <2>1, SameAnswer, AnswerType
  <2>5. AnswerLeft(d)' <= AnswerLeft(d)
    BY <2>4
  <2>. QED  BY <2>3, <2>5, PlaceDecides
<1>5. \A d \in Clients : Course(d)' >= Course(d)
  BY <1>1, <1>4
<1>. QED  BY <1>1, <1>5 DEF Further

-----------------------------------------------------------------------------
(* The server gets each request on. *)

\* No request that the server has falls back.
StepsFall(stage, next) ==
    \A i \in Ids : stage[i] # "free" => StepsLeft(i, next[i])' <= StepsLeft(i, stage[i])

\* What is left to a client when the requests go on.
LEMMA AnswerFalls ==
    ASSUME TypeOK, TypeOK', NEW stage, NEW own, HistoryInv(stage, own),
           NEW next \in [Ids -> Stages], StageInv(next)', UNCHANGED requestMsgs,
           \A i \in Ids : RequestGoesOnOrEnds(i), StepsFall(stage, next), NEW c \in Clients
    PROVE  /\ AnswerLeft(c)' <= AnswerLeft(c)
           /\ own[c] # NoId /\ StepsLeft(own[c], next[own[c]])' < StepsLeft(own[c], stage[own[c]])
                => AnswerLeft(c)' < AnswerLeft(c)
<1>1. stage \in [Ids -> Stages] /\ StageInv(stage) /\ Nobody # c
  BY MarkersApart DEF HistoryInv, IsHistory
<1>2. RequestsBy(c)' \subseteq RequestsBy(c)
  <2>1. ASSUME NEW i \in Ids, fr'[i].rank = c PROVE fr[i].rank = c
    BY <1>1, <2>1 DEF RequestGoesOnOrEnds, RequestLives, NoRequest
  <2>. QED  BY <2>1 DEF RequestsBy
<1>3. AnswerLeft(c) \in 0..20 /\ AnswerLeft(c)' \in 0..20
  BY AnswerType
<1>4. CASE own[c] = NoId
  <2>1. RequestsBy(c) = {}
    BY <1>4, RequestsAreOwn
  <2>2. RequestsBy(c)' = {}
    BY <1>2, <2>1
  <2>3. AnswerLeft(c)' = AnswerLeft(c)
    BY <2>1, <2>2 DEF AnswerLeft
  <2>. QED  BY <1>3, <1>4, <2>3
<1>5. CASE own[c] # NoId
  <2>1. PICK id : id = own[c]
    OBVIOUS
  <2>2. RequestsBy(c) = {id} /\ id \in Ids /\ stage[id] # "free" /\ requestMsgs[c] = <<>>
    BY <1>5, <2>1, RequestsAreOwn
  <2>3. AnswerLeft(c) = StepsLeft(id, stage[id])
    BY <1>1, <2>2, LeftOfOne
  <2>4. StepsLeft(id, stage[id]) \in 1..19 /\ StepsLeft(id, next[id])' \in 0..19
    BY <1>1, <2>2, LeftType
  <2>5. StepsLeft(id, next[id])' <= StepsLeft(id, stage[id])
    BY <2>2 DEF StepsFall
  <2>6. CASE RequestsBy(c)' = {}
    <3>1. AnswerLeft(c)' = 0
      BY <2>2, <2>6, LeftOfNoneNext
    <3>. QED  BY <2>3, <2>4, <3>1
  <2>7. CASE RequestsBy(c)' = {id}
    <3>1. AnswerLeft(c)' = StepsLeft(id, next[id])'
      BY <2>2, <2>7, LeftOfOneNext
    <3>. QED  BY <2>1, <2>3, <2>5, <3>1
  <2>. QED  BY <1>2, <2>2, <2>6, <2>7
<1>. QED  BY <1>4, <1>5

\* A step of the server gets a request on, and lets none fall back.
LEMMA RequestsFurther ==
    ASSUME TypeOK, TypeOK', NEW stage, NEW own, HistoryInv(stage, own),
           NEW next \in [Ids -> Stages], StageInv(next)', UNCHANGED clientVars,
           UNCHANGED requestMsgs, \A i \in Ids : RequestGoesOnOrEnds(i), StepsFall(stage, next),
           NEW id \in Ids, stage[id] # "free",
           StepsLeft(id, next[id])' < StepsLeft(id, stage[id])
    PROVE  Further
<1>1. \A c \in Clients : Place(c)' = Place(c)
  BY DEF Place, StepIn, StepsBetween, clientVars
<1>2. ASSUME NEW c \in Clients PROVE Course(c)' >= Course(c)
  BY <1>1, AnswerFalls, PlaceDecides
<1>3. PICK c : c = fr[id].rank
  OBVIOUS
<1>4. c \in Clients /\ own[c] = id /\ id # NoId
  BY <1>3, RequestOf, MarkersApart DEF HistoryInv
<1>5. AnswerLeft(c)' < AnswerLeft(c)
  BY <1>4, AnswerFalls
<1>6. Course(c)' > Course(c)
  BY <1>1, <1>4, <1>5, PlaceDecides
<1>. QED  BY <1>2, <1>4, <1>6 DEF Further

\* What a step leaves of the steps of a batch.
BatchLeft(X) == \A i \in Ids \ X : Unsorted(i)' => Unsorted(i)

\* A step that moves some requests on, and no other.
LEMMA MovesFurther ==
    ASSUME TypeOK, TypeOK', NEW stage, NEW own, HistoryInv(stage, own), UNCHANGED clientVars,
           UNCHANGED requestMsgs, \A i \in Ids : RequestGoesOnOrEnds(i),
           NEW X \in SUBSET Ids, X # {}, NEW to \in Stages, StageInv(Move(stage, X, to))',
           \A i \in X : stage[i] # "free" /\ StepsLeft(i, to)' < StepsLeft(i, stage[i]),
           \A i \in Ids \ X : stage[i] = "batch" => dispatcher'.at = dispatcher.at,
           BatchLeft(X)
    PROVE  Further
<1>0. stage \in [Ids -> Stages]
  BY DEF HistoryInv, IsHistory
<1>1. PICK next : next = Move(stage, X, to)
  OBVIOUS
<1>2. next \in [Ids -> Stages] /\ \A i \in Ids : next[i] = IF i \in X THEN to ELSE stage[i]
  BY <1>0, <1>1, MoveType
<1>3. StageInv(next)'
  BY <1>1
<1>4. ASSUME NEW i \in Ids, stage[i] # "free" PROVE StepsLeft(i, next[i])' <= StepsLeft(i, stage[i])
  <2>1. CASE i \in X
    <3>1. StepsLeft(i, next[i])' < StepsLeft(i, stage[i])
      BY <1>2, <2>1
    <3>2. StepsLeft(i, next[i])' \in 0..19 /\ StepsLeft(i, stage[i]) \in 0..19
      BY LeftType
    <3>. QED  BY <3>1, <3>2
  <2>2. CASE i \notin X
    <3>1. next[i] = stage[i] /\ (Unsorted(i)' => Unsorted(i))
          /\ (stage[i] = "batch" => dispatcher'.at = dispatcher.at)
      BY <1>2, <2>2 DEF BatchLeft
    <3>2. StepsLeft(i, stage[i])' <= StepsLeft(i, stage[i])
      BY <3>1 DEF StepsLeft
    <3>. QED  BY <3>1, <3>2
  <2>. QED  BY <2>1, <2>2
<1>5. StepsFall(stage, next)
  BY <1>4 DEF StepsFall
<1>6. PICK id \in X : TRUE
  OBVIOUS
<1>7. id \in Ids /\ stage[id] # "free" /\ StepsLeft(id, next[id])' < StepsLeft(id, stage[id])
  BY <1>2, <1>6
<1>. QED  BY <1>2, <1>3, <1>5, <1>7, RequestsFurther

-----------------------------------------------------------------------------
(* One action after the other. *)

\* The stages from which and to which the server moves a request.
Onward(from, to) == \A i : StepsLeft(i, to)' < StepsLeft(i, from)
LEMMA OnwardStages ==
    /\ Onward("incoming", "got") /\ Onward("got", "reply") /\ Onward("got", "handle")
    /\ Onward("reply", "free") /\ Onward("last", "free")
    /\ Onward("handle", "begin") /\ Onward("begin", "wait") /\ Onward("begin", "hash")
    /\ Onward("wait", "hash") /\ Onward("hash", "add") /\ Onward("add", "agios")
    /\ Onward("agios", "ready") /\ Onward("ready", "batch") /\ Onward("batch", "dispatch")
    /\ Onward("dispatch", "transfer") /\ Onward("transfer", "transferred")
    /\ Onward("transferred", "callback") /\ Onward("callback", "answer")
    /\ Onward("answer", "last")
<1>1. /\ Onward("incoming", "got") /\ Onward("got", "reply") /\ Onward("got", "handle")
      /\ Onward("reply", "free") /\ Onward("last", "free") /\ Onward("handle", "begin")
  BY DEF Onward, StepsLeft
<1>2. /\ Onward("begin", "wait") /\ Onward("begin", "hash") /\ Onward("wait", "hash")
      /\ Onward("hash", "add") /\ Onward("add", "agios") /\ Onward("agios", "ready")
  BY DEF Onward, StepsLeft
<1>3. Onward("ready", "batch") /\ Onward("batch", "dispatch")
  BY DEF Onward, StepsLeft
<1>4. Onward("dispatch", "transfer") /\ Onward("transfer", "transferred")
  BY DEF Onward, StepsLeft
<1>5. /\ Onward("transferred", "callback") /\ Onward("callback", "answer")
      /\ Onward("answer", "last")
  BY DEF Onward, StepsLeft
<1>. QED  BY <1>1, <1>2, <1>3, <1>4, <1>5

\* A step of the server that takes no message.
ServerMoves(stage, own) ==
    /\ HistoryInv(stage, own) /\ UNCHANGED clientVars /\ UNCHANGED requestMsgs
    /\ \A i \in Ids : RequestGoesOnOrEnds(i)

\* A step that moves requests from one stage to a later one.
LEMMA OnwardFurther ==
    ASSUME TypeOK, TypeOK', NEW stage, NEW own, ServerMoves(stage, own),
           NEW X \in SUBSET Ids, X # {}, NEW from \in Stages \ {"free"}, NEW to \in Stages,
           \A i \in X : stage[i] = from, Onward(from, to), StageInv(Move(stage, X, to))',
           \A i \in Ids \ X : stage[i] = "batch" => dispatcher'.at = dispatcher.at,
           BatchLeft(X)
    PROVE  Further
<1>1. /\ HistoryInv(stage, own) /\ UNCHANGED clientVars /\ UNCHANGED requestMsgs
      /\ \A i \in Ids : RequestGoesOnOrEnds(i)
  BY DEF ServerMoves
<1>2. \A i \in X : stage[i] # "free" /\ StepsLeft(i, to)' < StepsLeft(i, stage[i])
  BY DEF Onward
<1>. QED  BY <1>1, <1>2, MovesFurther

\* The same of one request.
LEMMA OneFurther ==
    ASSUME TypeOK, TypeOK', NEW stage, NEW own, ServerMoves(stage, own),
           NEW id \in Ids, NEW from \in Stages \ {"free"}, NEW to \in Stages,
           stage[id] = from, Onward(from, to), StageInv(Move(stage, {id}, to))',
           dispatcher'.at = dispatcher.at, BatchLeft({id})
    PROVE  Further
<1>1. {id} \in SUBSET Ids /\ {id} # {}
  OBVIOUS
<1>2. PICK X : X = {id}
  OBVIOUS
<1>3. X \in SUBSET Ids /\ X # {} /\ (\A i \in X : stage[i] = from) /\ BatchLeft(X)
  BY <1>1, <1>2
<1>4. StageInv(Move(stage, X, to))'
  BY <1>2
<1>. QED  BY <1>3, <1>4, OnwardFurther

\* What becomes of the batches that PVFS has to sort.
LEMMA BatchesStay == ASSUME UNCHANGED pool, NEW X PROVE BatchLeft(X)
  BY DEF BatchLeft, Unsorted, Runs
LEMMA BatchesOfOthers ==
    ASSUME NEW t \in PoolThreads, \A u \in PoolThreads : u # t => pool'[u] = pool[u], NEW X,
           \/ ~(FileSystem = "pvfs" /\ pool'[t].fn = "dispatch_operation" /\ pool'[t].at = "begin")
           \/ Range(pool'[t].ids) \subseteq X
    PROVE  BatchLeft(X)
<1>. SUFFICES ASSUME NEW i \in Ids \ X, Unsorted(i)' PROVE Unsorted(i)
  BY DEF BatchLeft
<1>1. PICK u \in PoolThreads : /\ FileSystem = "pvfs" /\ Runs(u, {"dispatch_operation"}, "begin")'
                               /\ i \in Range(pool'[u].ids)
  BY DEF Unsorted
<1>2. u # t
  BY <1>1 DEF Runs
<1>. QED  BY <1>1, <1>2 DEF Unsorted, Runs

\* A handler takes, serves, answers or delegates a request.
LEMMA HandlerFurther ==
    ASSUME TypeOK, TypeOK', NEW stage, NEW own, ServerMoves(stage, own),
           NEW h \in Handlers, Handler(h)
    PROVE  Further
<1>1. stage \in [Ids -> Stages] /\ StageInv(stage)
  BY DEF ServerMoves, HistoryInv, IsHistory
<1>2. UNCHANGED pool /\ dispatcher'.at = dispatcher.at
  BY DEF Handler, HandlerPop, HandlerOpen, HandlerSendHandle, HandlerDelegate, HandlerClose,
     HandlerAckClose, handlerOnly, ioVars
<1>3. \A X : BatchLeft(X)
  BY <1>2, BatchesStay
<1>4. CASE HandlerPop(h)
  <2>1. PICK id : id = Head(incoming_queue)
    OBVIOUS
  <2>2. id \in Ids /\ stage[id] = "incoming" /\ StageInv(Move(stage, {id}, "got"))'
    BY <1>1, <1>4, <2>1, HandlerPopStages
  <2>. QED  BY <1>2, <1>3, <2>2, OneFurther, OnwardStages DEF Stages
<1>5. CASE HandlerOpen(h) \/ HandlerClose(h)
  <2>1. PICK id : id = handler[h].id
    OBVIOUS
  <2>2. id \in Ids /\ stage[id] = "got" /\ StageInv(Move(stage, {id}, "reply"))'
    BY <1>1, <1>5, <2>1, HandlerOpenStages
  <2>. QED  BY <1>2, <1>3, <2>2, OneFurther, OnwardStages DEF Stages
<1>6. CASE HandlerSendHandle(h) \/ HandlerAckClose(h)
  <2>1. PICK id : id = handler[h].id
    OBVIOUS
  <2>2. id \in Ids /\ stage[id] = "reply" /\ StageInv(Move(stage, {id}, "free"))'
    BY <1>1, <1>6, <2>1, HandlerAnswerStages
  <2>. QED  BY <1>2, <1>3, <2>2, OneFurther, OnwardStages DEF Stages
<1>7. CASE HandlerDelegate(h)
  <2>1. PICK id : id = handler[h].id
    OBVIOUS
  <2>2. id \in Ids /\ stage[id] = "got" /\ StageInv(Move(stage, {id}, "handle"))'
    BY <1>1, <1>7, <2>1, HandlerDelegateStages
  <2>. QED  BY <1>2, <1>3, <2>2, OneFurther, OnwardStages DEF Stages
<1>. QED  BY <1>4, <1>5, <1>6, <1>7 DEF Handler

\* AGIOS hands requests back.
LEMMA AgiosFurther ==
    ASSUME TypeOK, TypeOK', NEW stage, NEW own, ServerMoves(stage, own), Agios
    PROVE  Further
<1>1. stage \in [Ids -> Stages] /\ StageInv(stage)
  BY DEF ServerMoves, HistoryInv, IsHistory
<1>2. UNCHANGED pool /\ dispatcher'.at = dispatcher.at
  BY DEF Agios, AgiosCallback, AgiosCallbackAggregated, agiosOnly
<1>3. \A X : BatchLeft(X)
  BY <1>2, BatchesStay
<1>4. ASSUME NEW id \in agios, AgiosCallback(id) PROVE Further
  <2>1. id \in Ids /\ stage[id] = "agios" /\ StageInv(Move(stage, {id}, "ready"))'
    BY <1>1, <1>4, AgiosCallbackStages
  <2>. QED  BY <1>2, <1>3, <2>1, OneFurther, OnwardStages DEF Stages
<1>5. ASSUME NEW ids \in SUBSET agios, AgiosCallbackAggregated(ids) PROVE Further
  <2>1. /\ ids \in SUBSET Ids /\ \A id \in ids : stage[id] = "agios"
        /\ StageInv(Move(stage, ids, "ready"))'
    BY <1>1, <1>5, AgiosAggregatedStages
  <2>2. ids # {}
    <3>1. Cardinality(ids) > 1
      BY <1>5 DEF AgiosCallbackAggregated
    <3>. QED  BY <3>1, FS_EmptySet
  <2>. QED  BY <1>2, <1>3, <2>1, <2>2, OnwardFurther, OnwardStages DEF Stages
<1>. QED  BY <1>4, <1>5 DEF Agios

\* The identifiers of a sequence that is not empty.
LEMMA IdsOfSequence ==
    ASSUME NEW ids \in Seq(Ids) PROVE Range(ids) \subseteq Ids /\ (ids # <<>> => Range(ids) # {})
<1>1. DOMAIN ids = 1..Len(ids) /\ Len(ids) \in Nat /\ \A k \in DOMAIN ids : ids[k] \in Ids
  OBVIOUS
<1>2. Range(ids) \subseteq Ids
  BY <1>1 DEF Range
<1>3. ASSUME ids # <<>> PROVE ids[1] \in Range(ids)
  <2>1. 1 \in DOMAIN ids
    BY <1>1, <1>3
  <2>. QED  BY <2>1 DEF Range
<1>. QED  BY <1>2, <1>3

\* The dispatcher collects a batch and hands it to the pool.
LEMMA DispatcherFurther ==
    ASSUME TypeOK, TypeOK', NEW stage, NEW own, ServerMoves(stage, own), Dispatcher
    PROVE  Further
<1>1. /\ stage \in [Ids -> Stages] /\ StageInv(stage) /\ QueueHolds(dispatcher.ids, "batch", stage)
      /\ \A id \in Ids : stage[id] = "batch" <=> id \in Range(dispatcher.ids)
  BY DEF ServerMoves, HistoryInv, IsHistory, StageInv, DispatcherHolds, QueueHolds
<1>2. UNCHANGED pool
  BY DEF Dispatcher, DispatcherPop, DispatcherFind, DispatcherBatch, DispatcherSubmit, dispatcherOnly
<1>3. \A X : BatchLeft(X)
  BY <1>2, BatchesStay
<1>4. dispatcher.at # "pop" => Range(dispatcher.ids) # {} /\ Range(dispatcher.ids) \subseteq Ids
  BY DispatcherTypes, IdsOfSequence
<1>5. CASE DispatcherPop
  <2>1. PICK id : id = Head(ready_queue)
    OBVIOUS
  <2>2. id \in Ids /\ stage[id] = "ready" /\ StageInv(Move(stage, {id}, "batch"))'
    BY <1>1, <1>5, <2>1, DispatcherPopStages
  <2>3. dispatcher.ids = <<>>
    BY <1>5, DispatcherTypes DEF DispatcherPop
  <2>4. \A i \in Ids : stage[i] # "batch"
    BY <1>1, <2>3 DEF Range
  <2>5. {id} \in SUBSET Ids /\ {id} # {} /\ \A i \in {id} : stage[i] = "ready"
    BY <2>2
  <2>6. "ready" \in Stages \ {"free"} /\ "batch" \in Stages
    BY DEF Stages
  <2>. QED  BY <1>3, <2>2, <2>4, <2>5, <2>6, OnwardFurther, OnwardStages
<1>6. CASE DispatcherFind
  <2>1. PICK X : X = Range(dispatcher.ids)
    OBVIOUS
  <2>2. X \in SUBSET Ids /\ X # {} /\ (\A i \in Ids : stage[i] = "batch" <=> i \in X)
    BY <1>1, <1>4, <1>6, <2>1 DEF DispatcherFind
  <2>3. Move(stage, X, "batch") = stage
    BY <1>1, <2>2 DEF Move
  <2>4. StageInv(stage)'
    BY <1>1, <1>6, DispatcherFindStages
  <2>5. StageInv(Move(stage, X, "batch"))'
    BY <2>3, <2>4
  <2>6. dispatcher.at = "find" /\ dispatcher'.at = "batch"
    BY <1>6 DEF DispatcherFind, TypeOK, ThreadTypes
  <2>7. \A i : StepsLeft(i, "batch")' < StepsLeft(i, "batch")
    BY <2>6 DEF StepsLeft
  <2>8. "batch" \in Stages \ {"free"}
    BY DEF Stages
  <2>. QED  BY <1>3, <2>2, <2>5, <2>7, <2>8, OnwardFurther DEF Onward
<1>7. CASE DispatcherBatch
  <2>1. PICK Y \in SUBSET {id \in Ids : stage[id] = "ready"} : StageInv(Move(stage, Y, "batch"))'
    BY <1>1, <1>7, DispatcherBatchStages
  <2>2. PICK X : X = Y \cup Range(dispatcher.ids)
    OBVIOUS
  <2>3. X \in SUBSET Ids /\ X # {} /\ (\A i \in X : stage[i] \in {"ready", "batch"})
        /\ (\A i \in Ids \ X : stage[i] # "batch")
    BY <1>1, <1>4, <1>7, <2>1, <2>2 DEF DispatcherBatch
  <2>4. Move(stage, X, "batch") = Move(stage, Y, "batch")
    BY <1>1, <2>1, <2>2 DEF Move
  <2>5. StageInv(Move(stage, X, "batch"))'
    BY <2>1, <2>4
  <2>6. dispatcher.at = "batch" /\ dispatcher'.at = "submit"
    BY <1>7 DEF DispatcherBatch
  <2>7. \A i : StepsLeft(i, "batch")' < StepsLeft(i, "batch") /\ StepsLeft(i, "batch")' < StepsLeft(i, "ready")
    BY <2>6 DEF StepsLeft
  <2>8. \A i \in X : stage[i] # "free" /\ StepsLeft(i, "batch")' < StepsLeft(i, stage[i])
    BY <2>3, <2>7
  <2>9. "batch" \in Stages
    BY DEF Stages
  <2>. QED  BY <1>3, <2>3, <2>5, <2>8, <2>9, MovesFurther DEF ServerMoves
<1>8. CASE DispatcherSubmit
  <2>1. PICK X : X = Range(dispatcher.ids)
    OBVIOUS
  <2>2. X \in SUBSET Ids /\ X # {} /\ (\A i \in Ids : stage[i] = "batch" <=> i \in X)
    BY <1>1, <1>4, <1>8, <2>1 DEF DispatcherSubmit
  <2>3. StageInv(Move(stage, X, "dispatch"))'
    BY <1>1, <1>8, <2>1, DispatcherSubmitStages
  <2>4. "batch" \in Stages \ {"free"} /\ "dispatch" \in Stages
    BY DEF Stages
  <2>. QED  BY <1>3, <2>2, <2>3, <2>4, OnwardFurther, OnwardStages
<1>. QED  BY <1>5, <1>6, <1>7, <1>8 DEF Dispatcher

\* What the steps of a pool thread leave of the batches to sort.
LEMMA PoolBatches ==
    ASSUME TypeOK, NEW t \in PoolThreads, Pool(t), ~PoolPull(t), NEW X
    PROVE  BatchLeft(X) /\ dispatcher'.at = dispatcher.at
<1>1. pool[t] \in Work \cup {IdleThread} /\ DOMAIN pool = PoolThreads
  BY PoolTypes DEF TypeOK, ThreadTypes
<1>2. \A u \in PoolThreads : u # t => pool'[u] = pool[u]
  <2>1. CASE HandleAck(t) \/ HandleWriteWait(t) \/ HandleHash(t) \/ HandleAgios(t)
    BY <1>1, <2>1 DEF HandleAck, HandleWriteWait, HandleHash, HandleAgios, Goto
  <2>2. CASE DispatchSort(t) \/ DispatchWrite(t) \/ DispatchRead(t) \/ DispatchDone(t)
    BY <1>1, <2>2 DEF DispatchSort, DispatchWrite, DispatchRead, DispatchDone
  <2>3. CASE CallbackDel(t) \/ CallbackReply(t)
    BY <1>1, <2>3 DEF CallbackDel, CallbackReply, Goto
  <2>. QED  BY <2>1, <2>2, <2>3 DEF Pool
<1>3. ~(FileSystem = "pvfs" /\ pool'[t].fn = "dispatch_operation" /\ pool'[t].at = "begin")
  <2>1. CASE HandleAck(t) \/ HandleWriteWait(t) \/ HandleHash(t) \/ CallbackDel(t)
    <3>1. \E at : pool' = [pool EXCEPT ![t].at = at]
      BY <2>1 DEF HandleAck, HandleWriteWait, HandleHash, CallbackDel, Goto
    <3>2. pool[t].fn # "dispatch_operation"
      BY <2>1 DEF HandleAck, HandleWriteWait, HandleHash, CallbackDel, Runs
    <3>3. pool'[t].fn = pool[t].fn
      BY <1>1, <3>1
    <3>. QED  BY <3>2, <3>3
  <2>2. CASE HandleAgios(t) \/ DispatchDone(t)
    <3>1. pool'[t] = IdleThread
      BY <1>1, <2>2 DEF HandleAgios, DispatchDone
    <3>. QED  BY <3>1 DEF IdleThread
  <2>3. CASE DispatchSort(t)
    <3>1. pool'[t].at = "io"
      BY <1>1, <2>3 DEF DispatchSort, Work
    <3>. QED  BY <3>1
  <2>4. CASE DispatchWrite(t) \/ DispatchRead(t)
    <3>1. pool' = [pool EXCEPT ![t].k = @ + 1] /\ pool[t].at = (IF FileSystem = "pvfs" THEN "io" ELSE "begin")
      BY <2>4 DEF DispatchWrite, DispatchRead, TransfersNext, Runs
    <3>2. pool'[t].at = pool[t].at
      BY <1>1, <3>1
    <3>. QED  BY <3>1, <3>2
  <2>5. CASE CallbackReply(t)
    <3>1. pool'[t] = AfterReply(pool[t]) /\ pool[t].fn = "callback"
      BY <1>1, <2>5 DEF CallbackReply, Runs
    <3>2. AfterReply(pool[t]).fn \in {"callback", "none"}
      BY <1>1, <3>1 DEF AfterReply, IdleThread, Work
    <3>. QED  BY <3>1, <3>2
  <2>. QED  BY <2>1, <2>2, <2>3, <2>4, <2>5 DEF Pool
<1>4. BatchLeft(X)
  BY <1>2, <1>3, BatchesOfOthers
<1>5. UNCHANGED dispatcher
  <2>1. CASE HandleAck(t) \/ HandleWriteWait(t) \/ HandleHash(t) \/ HandleAgios(t)
    BY <2>1 DEF HandleAck, HandleWriteWait, HandleHash, HandleAgios, poolOnly
  <2>2. CASE DispatchSort(t) \/ DispatchWrite(t) \/ DispatchRead(t) \/ DispatchDone(t)
    BY <2>2 DEF DispatchSort, DispatchWrite, DispatchRead, DispatchDone, poolOnly
  <2>3. CASE CallbackDel(t) \/ CallbackReply(t)
    BY <2>3 DEF CallbackDel, CallbackReply, poolOnly
  <2>. QED  BY <2>1, <2>2, <2>3 DEF Pool
<1>. QED  BY <1>4, <1>5

\* A pool thread takes a job.
LEMMA PoolPullFurther ==
    ASSUME TypeOK, TypeOK', NEW stage, NEW own, ServerMoves(stage, own),
           NEW t \in PoolThreads, PoolPull(t)
    PROVE  Further
<1>1. stage \in [Ids -> Stages] /\ StageInv(stage)
  BY DEF ServerMoves, HistoryInv, IsHistory
<1>2. PICK fn, X, ids : fn = Head(jobs).fn /\ ids = Head(jobs).ids /\ X = Range(ids)
  OBVIOUS
<1>3. /\ X \subseteq Ids /\ \A id \in X : stage[id] = JobStage(fn)
      /\ StageInv(Move(stage, X, Pulled(fn)))'
  BY <1>1, <1>2, PoolPullStages
<1>4. Head(jobs) \in Job
  BY DEF PoolPull, TypeOK, QueueTypes
<1>5. ids \in Seq(Ids) /\ ids # <<>> /\ fn \in JobFunctions
  BY <1>2, <1>4 DEF Job
<1>6. X # {}
  BY <1>2, <1>5, IdsOfSequence
<1>7. Onward(JobStage(fn), Pulled(fn)) /\ JobStage(fn) \in Stages \ {"free"} /\ Pulled(fn) \in Stages
  BY <1>5, OnwardStages DEF JobStage, Pulled, JobFunctions, Stages
<1>8. BatchLeft(X)
  <2>1. /\ DOMAIN pool = PoolThreads
        /\ pool' = [pool EXCEPT ![t] = [fn |-> fn, ids |-> ids, at |-> "begin", k |-> 1]]
    BY <1>2 DEF PoolPull, TypeOK, ThreadTypes
  <2>2. (\A u \in PoolThreads : u # t => pool'[u] = pool[u]) /\ pool'[t].ids = ids
    BY <2>1
  <2>. QED  BY <1>2, <2>2, BatchesOfOthers
<1>9. dispatcher'.at = dispatcher.at
  BY DEF PoolPull, ioVars
<1>. QED  BY <1>3, <1>6, <1>7, <1>8, <1>9, OnwardFurther

\* A pool thread sorts a batch: its requests stay where they are, and no other
\* thread has them.
LEMMA SortFurther ==
    ASSUME TypeOK, TypeOK', NEW stage, NEW own, ServerMoves(stage, own),
           NEW t \in PoolThreads, DispatchSort(t)
    PROVE  Further
<1>1. stage \in [Ids -> Stages] /\ StageInv(stage) /\ PoolHold(stage)
  BY DEF ServerMoves, HistoryInv, IsHistory, StageInv
<1>2. PICK X : X = Range(pool[t].ids)
  OBVIOUS
<1>3. /\ FileSystem = "pvfs" /\ pool[t].fn = "dispatch_operation" /\ pool[t].at = "begin"
      /\ PoolPoint(pool[t])
      /\ pool[t].ids \in Seq(Ids) /\ pool[t].ids # <<>> /\ Unanswered(pool[t]) = DOMAIN pool[t].ids
      /\ \A k \in DOMAIN pool[t].ids :
            stage[pool[t].ids[k]] = IF k < pool[t].k THEN "transferred" ELSE "transfer"
      /\ DOMAIN pool[t].ids = 1..Len(pool[t].ids)
  <2>1. FileSystem = "pvfs" /\ pool[t].fn = "dispatch_operation" /\ pool[t].at = "begin"
    BY DEF DispatchSort, Runs
  <2>. QED  BY <1>1, <2>1, DispatchPoint
<1>4. pool[t].k = 1
  BY <1>3 DEF PoolPoint
<1>5. X \in SUBSET Ids /\ X # {}
  BY <1>2, <1>3, IdsOfSequence
<1>6. \A i \in X : stage[i] = "transfer"
  <2>1. ASSUME NEW k \in DOMAIN pool[t].ids PROVE stage[pool[t].ids[k]] = "transfer"
    <3>1. ~(k < pool[t].k)
      BY <1>3, <1>4
    <3>. QED  BY <1>3, <3>1
  <2>. QED  BY <1>2, <2>1 DEF Range
<1>7. Move(stage, X, "transfer") = stage
  BY <1>1, <1>6 DEF Move
<1>8. StageInv(stage)'
  BY <1>1, DispatchSortStages
<1>9. StageInv(Move(stage, X, "transfer"))'
  BY <1>7, <1>8
<1>10. (\A u \in PoolThreads : u # t => pool'[u] = pool[u]) /\ pool'[t].at = "io"
  <2>1. pool[t] \in Work /\ DOMAIN pool = PoolThreads
    BY <1>3, PoolTypes DEF TypeOK, ThreadTypes
  <2>. QED  BY <2>1 DEF DispatchSort, Work
<1>11. \A i \in X : StepsLeft(i, "transfer")' < StepsLeft(i, stage[i])
  <2>1. ASSUME NEW i \in X PROVE Unsorted(i) /\ ~Unsorted(i)'
    <3>1. PICK k \in DOMAIN pool[t].ids : pool[t].ids[k] = i
      BY <1>2, <2>1 DEF Range
    <3>2. Unsorted(i)
      BY <1>2, <1>3 DEF Unsorted, Runs
    <3>3. ASSUME NEW u \in PoolThreads, Runs(u, {"dispatch_operation"}, "begin")', i \in Range(pool'[u].ids)
          PROVE  FALSE
      <4>1. u # t /\ pool'[u] = pool[u]
        BY <1>10, <3>3 DEF Runs
      <4>2. pool[u].fn = "dispatch_operation"
        BY <3>3, <4>1 DEF Runs
      <4>3. Unanswered(pool[u]) = DOMAIN pool[u].ids
        BY <1>1, <4>2, DispatchPoint
      <4>4. PICK l \in DOMAIN pool[u].ids : pool[u].ids[l] = i
        BY <3>3, <4>1 DEF Range
      <4>5. \A k2 \in Unanswered(pool[t]), l2 \in Unanswered(pool[u]) :
               pool[t].ids[k2] = pool[u].ids[l2] => t = u
        BY <1>1 DEF PoolHold
      <4>6. k \in Unanswered(pool[t]) /\ l \in Unanswered(pool[u]) /\ pool[t].ids[k] = pool[u].ids[l]
        BY <1>3, <3>1, <4>3, <4>4
      <4>. QED  BY <4>1, <4>5, <4>6
    <3>. QED  BY <3>2, <3>3 DEF Unsorted
  <2>2. ASSUME NEW i \in X PROVE StepsLeft(i, "transfer")' < StepsLeft(i, "transfer")
    BY <2>1, <2>2 DEF StepsLeft
  <2>. QED  BY <1>6, <2>2
<1>12. BatchLeft(X) /\ dispatcher'.at = dispatcher.at
  <2>1. Pool(t)
    BY DEF Pool
  <2>2. ~PoolPull(t)
    BY <1>3 DEF PoolPull
  <2>. QED  BY <2>1, <2>2, PoolBatches
<1>13. "transfer" \in Stages
  BY DEF Stages
<1>14. \A i \in X : stage[i] # "free" /\ StepsLeft(i, "transfer")' < StepsLeft(i, stage[i])
  BY <1>6, <1>11
<1>. QED  BY <1>5, <1>9, <1>12, <1>13, <1>14, MovesFurther DEF ServerMoves

\* A pool thread gets on with its job.
LEMMA PoolFurther ==
    ASSUME TypeOK, TypeOK', NEW stage, NEW own, ServerMoves(stage, own),
           NEW t \in PoolThreads, Pool(t)
    PROVE  Further
<1>1. stage \in [Ids -> Stages] /\ StageInv(stage)
  BY DEF ServerMoves, HistoryInv, IsHistory
<1>2. ASSUME ~PoolPull(t) PROVE (\A X : BatchLeft(X)) /\ dispatcher'.at = dispatcher.at
  BY <1>2, PoolBatches
<1>3. PICK id, ids : id = Current(t) /\ ids = pool[t].ids
  OBVIOUS
<1>4. {"begin", "wait", "hash", "add", "agios", "transfer", "transferred", "callback", "answer", "last"}
        \subseteq Stages \ {"free"} /\ "free" \in Stages
  BY DEF Stages
<1>5. CASE HandleAck(t)
  <2>1. PICK to : to = AfterAck(HandleOf(id))
    OBVIOUS
  <2>2. id \in Ids /\ stage[id] = "begin" /\ to \in {"wait", "hash"} /\ StageInv(Move(stage, {id}, to))'
    BY <1>1, <1>3, <1>5, <2>1, HandleAckStages
  <2>3. Onward("begin", to)
    BY <2>2, OnwardStages
  <2>4. ~PoolPull(t)
    BY <1>5 DEF HandleAck, PoolPull, Runs
  <2>. QED  BY <1>2, <1>4, <2>2, <2>3, <2>4, OneFurther
<1>6. CASE HandleWriteWait(t)
  <2>1. id \in Ids /\ stage[id] = "wait" /\ StageInv(Move(stage, {id}, "hash"))'
    BY <1>1, <1>3, <1>6, HandleWriteWaitStages
  <2>2. ~PoolPull(t)
    BY <1>6 DEF HandleWriteWait, PoolPull, Runs
  <2>. QED  BY <1>2, <1>4, <2>1, <2>2, OnwardStages, OneFurther
<1>7. CASE HandleHash(t)
  <2>1. id \in Ids /\ stage[id] = "hash" /\ StageInv(Move(stage, {id}, "add"))'
    BY <1>1, <1>3, <1>7, HandleHashStages
  <2>2. ~PoolPull(t)
    BY <1>7 DEF HandleHash, PoolPull, Runs
  <2>. QED  BY <1>2, <1>4, <2>1, <2>2, OnwardStages, OneFurther
<1>8. CASE HandleAgios(t)
  <2>1. id \in Ids /\ stage[id] = "add" /\ StageInv(Move(stage, {id}, "agios"))'
    BY <1>1, <1>3, <1>8, HandleAgiosStages
  <2>2. ~PoolPull(t)
    BY <1>8 DEF HandleAgios, PoolPull, Runs
  <2>. QED  BY <1>2, <1>4, <2>1, <2>2, OnwardStages, OneFurther
<1>9. CASE DispatchWrite(t) \/ DispatchRead(t)
  <2>1. id \in Ids /\ stage[id] = "transfer" /\ StageInv(Move(stage, {id}, "transferred"))'
    BY <1>1, <1>3, <1>9, DispatchStages
  <2>2. ~PoolPull(t)
    BY <1>9 DEF DispatchWrite, DispatchRead, TransfersNext, PoolPull, Runs
  <2>. QED  BY <1>2, <1>4, <2>1, <2>2, OnwardStages, OneFurther
<1>10. CASE DispatchDone(t)
  <2>1. PICK X : X = Range(ids)
    OBVIOUS
  <2>2. X \in SUBSET Ids /\ (\A i \in X : stage[i] = "transferred") /\ StageInv(Move(stage, X, "callback"))'
    BY <1>1, <1>3, <1>10, <2>1, DispatchDoneStages
  <2>3. pool[t].fn = "dispatch_operation" /\ PoolHold(stage)
    BY <1>1, <1>10 DEF DispatchDone, StageInv
  <2>4. ids \in Seq(Ids) /\ ids # <<>> /\ pool[t].at # "idle"
    BY <1>1, <1>3, <2>3, DispatchPoint
  <2>5. X # {} /\ ~PoolPull(t)
    BY <2>1, <2>4, IdsOfSequence DEF PoolPull
  <2>. QED  BY <1>2, <1>4, <2>2, <2>5, OnwardStages, OnwardFurther
<1>11. CASE CallbackDel(t)
  <2>1. id \in Ids /\ stage[id] = "answer" /\ StageInv(Move(stage, {id}, "last"))'
    BY <1>1, <1>3, <1>11, CallbackDelStages
  <2>2. ~PoolPull(t)
    BY <1>11 DEF CallbackDel, PoolPull, Runs
  <2>. QED  BY <1>2, <1>4, <2>1, <2>2, OnwardStages, OneFurther
<1>12. CASE CallbackReply(t)
  <2>1. id \in Ids /\ stage[id] = "last" /\ StageInv(Move(stage, {id}, "free"))'
    BY <1>1, <1>3, <1>12, CallbackReplyStages
  <2>2. ~PoolPull(t)
    BY <1>12 DEF CallbackReply, PoolPull, Runs
  <2>. QED  BY <1>2, <1>4, <2>1, <2>2, OnwardStages, OneFurther
<1>. QED  BY <1>5, <1>6, <1>7, <1>8, <1>9, <1>10, <1>11, <1>12, PoolPullFurther, SortFurther DEF Pool

-----------------------------------------------------------------------------
(* The listener takes the requests, and the clients all of it. *)

\* A client whose request and its stage the step leaves has as much left.
LEMMA OtherAnswer ==
    ASSUME TypeOK, TypeOK', NEW stage, NEW own, HistoryInv(stage, own),
           NEW next \in [Ids -> Stages], StageInv(next)', UNCHANGED <<pool, dispatcher>>,
           NEW d \in Clients, requestMsgs'[d] = requestMsgs[d],
           \A i \in Ids : (fr'[i].rank = d) = (fr[i].rank = d),
           \A i \in Ids : stage[i] # "free" => next[i] = stage[i]
    PROVE  AnswerLeft(d)' <= AnswerLeft(d)
<1>1. stage \in [Ids -> Stages] /\ StageInv(stage)
  BY DEF HistoryInv, IsHistory
<1>2. RequestsBy(d)' = RequestsBy(d)
  BY DEF RequestsBy
<1>3. AnswerLeft(d) \in 0..20 /\ AnswerLeft(d)' \in 0..20
  BY AnswerType
<1>4. CASE requestMsgs[d] # <<>>
  BY <1>4 DEF AnswerLeft
<1>5. CASE requestMsgs[d] = <<>> /\ own[d] = NoId
  <2>1. RequestsBy(d)' = {}
    BY <1>2, <1>5, RequestsAreOwn
  <2>2. AnswerLeft(d)' = 0
    BY <1>5, <2>1, LeftOfNoneNext
  <2>. QED  BY <1>3, <2>2
<1>6. CASE requestMsgs[d] = <<>> /\ own[d] # NoId
  <2>1. PICK id : id = own[d]
    OBVIOUS
  <2>2. RequestsBy(d) = {id} /\ id \in Ids /\ stage[id] # "free"
    BY <1>6, <2>1, RequestsAreOwn
  <2>3. AnswerLeft(d) = StepsLeft(id, stage[id])
    BY <1>1, <1>6, <2>2, LeftOfOne
  <2>4. RequestsBy(d)' = {id}
    BY <1>2, <2>2
  <2>5. AnswerLeft(d)' = StepsLeft(id, next[id])'
    <3>1. requestMsgs'[d] = <<>>
      BY <1>6
    <3>. QED  BY <2>4, <3>1, LeftOfOneNext
  <2>6. next[id] = stage[id] /\ (Unsorted(id)' <=> Unsorted(id))
    BY <2>2 DEF Unsorted, Runs
  <2>7. StepsLeft(id, next[id])' = StepsLeft(id, stage[id])
    BY <2>6 DEF StepsLeft
  <2>8. AnswerLeft(d)' = AnswerLeft(d)
    BY <2>3, <2>5, <2>7
  <2>. QED  BY <1>3, <2>8
<1>. QED  BY <1>4, <1>5, <1>6

\* When no client goes on with its program, one of them has less left and the
\* others have no more.
LEMMA ListenerFalls ==
    ASSUME TypeOK, TypeOK', UNCHANGED clientVars, NEW c \in Clients,
           AnswerLeft(c)' < AnswerLeft(c),
           \A d \in Clients : d # c => AnswerLeft(d)' <= AnswerLeft(d)
    PROVE  Further
<1>1. \A d \in Clients : Place(d)' = Place(d)
  BY DEF Place, StepIn, StepsBetween, clientVars
<1>2. Course(c)' > Course(c) /\ Course(c) \in Nat /\ Course(c)' \in Nat
  BY <1>1, PlaceDecides
<1>3. ASSUME NEW d \in Clients, d # c PROVE Course(d)' >= Course(d)
  BY <1>1, <1>3, PlaceDecides
<1>4. \A d \in Clients : Course(d)' >= Course(d)
  BY <1>2, <1>3
<1>. QED  BY <1>2, <1>4 DEF Further

\* A request is taken.
LEMMA ListenerRequestFurther ==
    ASSUME TypeOK, TypeOK', IdsSuffice, NEW stage \in [Ids -> Stages],
           NEW own \in [Clients -> Ids \cup {NoId}], SafetyInv(stage, own),
           NEW c \in Clients, ListenerRequest(c)
    PROVE  Further
<1>1. /\ StageInv(stage) /\ OwnInv(stage, own) /\ ClientInv(stage, own) /\ BarrierInv /\ AgeInv(own)
      /\ HistoryInv(stage, own)
  BY DEF SafetyInv, HistoryInv, IsHistory
<1>2. PICK id : id = global_id'
  OBVIOUS
<1>3. Asking(c, own) /\ id \in Ids /\ stage[id] = "free"
  BY <1>1, <1>2, NextIdStage
<1>4. PICK next : next = Move(stage, {id}, "incoming")
  OBVIOUS
<1>5. next \in [Ids -> Stages] /\ next[id] = "incoming" /\ \A i \in Ids : i # id => next[i] = stage[i]
  BY <1>3, <1>4 DEF Move, Stages
<1>6. StageInv(next)'
  BY <1>1, <1>2, <1>3, <1>4, ListenerRequestStages
<1>7. requestMsgs[c] # <<>> /\ requestMsgs' = Recv(requestMsgs, c) /\ DOMAIN requestMsgs = Clients
      /\ UNCHANGED clientVars /\ UNCHANGED <<pool, dispatcher>>
  BY DEF ListenerRequest, ioVars, TypeOK, NetTypes
<1>8. requestMsgs'[c] = <<>>
  <2>1. requestMsgs[c] = <<AsksFor(c)>>
    BY <1>3 DEF Asking
  <2>. QED  BY <1>7, <2>1 DEF Recv
<1>9. fr[id] = NoRequest /\ fr'[id].rank = c /\ (\A i \in Ids : i # id => fr'[i] = fr[i])
  <2>1. DOMAIN fr = Ids
    BY DEF TypeOK, FileTypes
  <2>2. PICK m, r :
              /\ r = [operation |-> m.operation, file |-> m.file, file_handle |-> m.file_handle,
                      offset |-> m.offset, rank |-> c, buffer |-> Nobody]
              /\ fr' = [fr EXCEPT ![id] = r]
    BY <1>2 DEF ListenerRequest
  <2>3. r.rank = c
    BY <2>2
  <2>. QED  BY <1>1, <1>3, <2>1, <2>2, <2>3 DEF OwnInv
<1>10. RequestsBy(c)' = {id}
  <2>1. RequestsBy(c) = {}
    BY <1>1, <1>3, RequestsAreOwn DEF Asking
  <2>2. \A i \in Ids : fr'[i].rank = c <=> i = id
    BY <1>9, <2>1 DEF RequestsBy
  <2>. QED  BY <1>3, <2>2 DEF RequestsBy
<1>11. AnswerLeft(c)' < AnswerLeft(c)
  <2>1. AnswerLeft(c) = 20
    BY <1>7 DEF AnswerLeft
  <2>2. AnswerLeft(c)' = StepsLeft(id, next[id])'
    BY <1>5, <1>6, <1>8, <1>10, LeftOfOneNext
  <2>3. StepsLeft(id, next[id])' = 19
    BY <1>5 DEF StepsLeft
  <2>. QED  BY <2>1, <2>2, <2>3
<1>12. ASSUME NEW d \in Clients, d # c PROVE AnswerLeft(d)' <= AnswerLeft(d)
  <2>1. requestMsgs'[d] = requestMsgs[d]
    BY <1>7, <1>12 DEF Recv
  <2>2. \A i \in Ids : (fr'[i].rank = d) = (fr[i].rank = d)
    <3>1. fr[id].rank # d /\ fr'[id].rank # d
      BY <1>9, <1>12, MarkersApart DEF NoRequest
    <3>. QED  BY <1>9, <3>1
  <2>3. \A i \in Ids : stage[i] # "free" => next[i] = stage[i]
    BY <1>3, <1>5
  <2>. QED  BY <1>1, <1>5, <1>6, <1>7, <2>1, <2>2, <2>3, OtherAnswer
<1>. QED  BY <1>7, <1>11, <1>12, ListenerFalls

\* A shutdown message is taken.
LEMMA ListenerShutdownFurther ==
    ASSUME TypeOK, TypeOK', NEW stage, NEW own, HistoryInv(stage, own),
           NEW c \in Clients, ListenerShutdown(c)
    PROVE  Further
<1>1. stage \in [Ids -> Stages] /\ StageInv(stage) /\ ClientInv(stage, own)
  BY DEF HistoryInv, IsHistory
<1>2. requestMsgs[c] # <<>> /\ requestMsgs' = Recv(requestMsgs, c) /\ DOMAIN requestMsgs = Clients
      /\ UNCHANGED clientVars /\ UNCHANGED <<fr, pool, dispatcher>>
      /\ UNCHANGED <<incoming_queue, handler, jobs, pool, agios, ready_queue, dispatcher, requests, fr>>
  BY DEF ListenerShutdown, ioVars, TypeOK, NetTypes
<1>3. Asking(c, own)
  BY <1>1, <1>2, AskingClient DEF ClientInv
<1>4. requestMsgs'[c] = <<>>
  <2>1. requestMsgs[c] = <<AsksFor(c)>>
    BY <1>3 DEF Asking
  <2>. QED  BY <1>2, <2>1 DEF Recv
<1>5. StageInv(stage)'
  BY <1>1, <1>2, StagesStay
<1>6. AnswerLeft(c)' < AnswerLeft(c)
  <2>1. AnswerLeft(c) = 20
    BY <1>2 DEF AnswerLeft
  <2>2. RequestsBy(c) = {}
    BY <1>3, RequestsAreOwn DEF Asking
  <2>3. RequestsBy(c)' = {}
    BY <1>2, <2>2 DEF RequestsBy
  <2>4. AnswerLeft(c)' = 0
    BY <1>4, <2>3, LeftOfNoneNext
  <2>. QED  BY <2>1, <2>4
<1>7. ASSUME NEW d \in Clients, d # c PROVE AnswerLeft(d)' <= AnswerLeft(d)
  <2>1. requestMsgs'[d] = requestMsgs[d]
    BY <1>2, <1>7 DEF Recv
  <2>2. AnswerLeft(d)' = AnswerLeft(d) /\ AnswerLeft(d) \in 0..20
    BY <1>1, <1>2, <1>5, <2>1, SameAnswer, AnswerType
  <2>. QED  BY <2>2
<1>. QED  BY <1>2, <1>6, <1>7, ListenerFalls

\* Every step that is not the last one before an abort gets somebody on.
LEMMA StepsFurther ==
    ASSUME IdsSuffice, TypeOK, TypeOK', IInv, Next, ~UNCHANGED vars, aborted' = "no"
    PROVE  Further
<1>1. PICK stage \in [Ids -> Stages], own \in [Clients -> Ids \cup {NoId}] : SafetyInv(stage, own)
  BY DEF IInv
<1>2. HistoryInv(stage, own)
  BY <1>1 DEF SafetyInv, HistoryInv, IsHistory
<1>3. Running
  BY DEF Next, Finished
<1>4. CASE \E c \in Clients : Client(c)
  BY <1>2, <1>3, <1>4, ClientFurther
<1>5. CASE Listener
  BY <1>1, <1>2, <1>5, ListenerRequestFurther, ListenerShutdownFurther DEF Listener
<1>6. CASE ~(\E c \in Clients : Client(c)) /\ ~Listener
  <2>1. \A i \in Ids : RequestGoesOnOrEnds(i)
    BY <1>1, <1>6, StepsKeepRequests DEF Listener
  <2>2. CASE \E h \in Handlers : Handler(h)
    <3>1. UNCHANGED clientVars /\ UNCHANGED requestMsgs
      BY <2>2 DEF Handler, HandlerPop, HandlerOpen, HandlerSendHandle, HandlerDelegate, HandlerClose,
         HandlerAckClose, handlerOnly, netVars
    <3>2. ServerMoves(stage, own)
      BY <1>2, <2>1, <3>1 DEF ServerMoves
    <3>. QED  BY <2>2, <3>2, HandlerFurther
  <2>3. CASE \E t \in PoolThreads : Pool(t)
    <3>0. PICK t \in PoolThreads : Pool(t)
      BY <2>3
    <3>1. UNCHANGED clientVars /\ UNCHANGED requestMsgs
      <4>1. CASE PoolPull(t) \/ HandleAck(t) \/ HandleWriteWait(t) \/ HandleHash(t) \/ HandleAgios(t)
        BY <4>1 DEF PoolPull, HandleAck, HandleWriteWait, HandleHash, HandleAgios, poolOnly, netVars
      <4>2. CASE DispatchSort(t) \/ DispatchWrite(t) \/ DispatchRead(t) \/ DispatchDone(t)
        BY <4>2 DEF DispatchSort, DispatchWrite, DispatchRead, DispatchDone, poolOnly
      <4>3. CASE CallbackDel(t) \/ CallbackReply(t)
        BY <4>3 DEF CallbackDel, CallbackReply, poolOnly
      <4>. QED  BY <3>0, <4>1, <4>2, <4>3 DEF Pool
    <3>2. ServerMoves(stage, own)
      BY <1>2, <2>1, <3>1 DEF ServerMoves
    <3>. QED  BY <3>0, <3>2, PoolFurther
  <2>4. CASE Agios \/ Dispatcher
    <3>1. UNCHANGED clientVars /\ UNCHANGED requestMsgs
      BY <2>4 DEF Agios, AgiosCallback, AgiosCallbackAggregated, agiosOnly, Dispatcher, DispatcherPop,
         DispatcherFind, DispatcherBatch, DispatcherSubmit, dispatcherOnly, netVars
    <3>2. ServerMoves(stage, own)
      BY <1>2, <2>1, <3>1 DEF ServerMoves
    <3>. QED  BY <2>4, <3>2, AgiosFurther, DispatcherFurther
  <2>. QED  BY <1>6, <2>2, <2>3, <2>4 DEF Next, Finished
<1>. QED  BY <1>4, <1>5, <1>6

\* How far a client is, is a number from 0 to LastCourse.
LEMMA CourseType ==
    ASSUME TypeOK, BarrierInv, NEW c \in Clients
    PROVE  Course(c) \in 0..LastCourse /\ LastCourse \in Nat
<1>1. PICK k, b, s, a : k = StepsBetween /\ b = barrier[c] /\ s = StepIn(c) /\ a = AnswerLeft(c)
  OBVIOUS
<1>2. k \in Nat \ {0} /\ s \in 0..(k - 1) /\ a \in 0..20
  BY <1>1, StepsType, AnswerType
<1>3. b \in 0..6
  BY <1>1 DEF BarrierInv, BarriersIn
<1>4. Course(c) = 21 * (k * b + s) + 20 - a /\ LastCourse = 147 * k - 1
  BY <1>1 DEF Course, Place, LastCourse
<1>5. PICK m : m = k * b
  OBVIOUS
<1>6. m \in Nat /\ m <= 6 * k
  <2>1. b \in {0, 1, 2, 3, 4, 5, 6}
    BY <1>3
  <2>. QED  BY <1>2, <1>5, <2>1
<1>. QED  BY <1>2, <1>4, <1>5, <1>6

\* The steps that are left to all of them together.
StepsToGo == Cardinality({p \in Clients \X (0..LastCourse) : p[2] > Course(p[1])})
MostSteps == NClients * (LastCourse + 1)

CoursesIn == \A c \in Clients : Course(c) \in 0..LastCourse
LEMMA CoursesHold == TypeOK /\ IInv => CoursesIn
  BY CourseType DEF IInv, SafetyInv, CoursesIn

\* They are a number up to MostSteps.
LEMMA PairsFinite ==
    /\ IsFiniteSet(Clients \X (0..LastCourse)) /\ Cardinality(Clients \X (0..LastCourse)) = MostSteps
    /\ LastCourse \in Nat /\ MostSteps \in Nat
<1>1. StepsBetween \in Nat \ {0}
  BY SizesAssumption DEF StepsBetween
<1>2. LastCourse \in Nat
  BY <1>1 DEF LastCourse
<1>3. IsFiniteSet(0..LastCourse) /\ Cardinality(0..LastCourse) = LastCourse + 1
  BY <1>2, FS_Interval
<1>4. /\ IsFiniteSet(Clients \X (0..LastCourse))
      /\ Cardinality(Clients \X (0..LastCourse)) = NClients * (LastCourse + 1)
  BY <1>3, ClientsFinite, FS_Product
<1>5. NClients * (LastCourse + 1) \in Nat
  BY <1>4, FS_CardinalityType
<1>. QED  BY <1>2, <1>4, <1>5 DEF MostSteps

LEMMA StepsNumber == StepsToGo \in 0..MostSteps
<1>1. PICK S : S = {p \in Clients \X (0..LastCourse) : p[2] > Course(p[1])}
  OBVIOUS
<1>2. S \in SUBSET (Clients \X (0..LastCourse))
  BY <1>1
<1>3. IsFiniteSet(S) /\ Cardinality(S) <= MostSteps
  BY <1>2, PairsFinite, FS_Subset
<1>4. Cardinality(S) \in Nat
  BY <1>3, FS_CardinalityType
<1>5. StepsToGo = Cardinality(S)
  BY <1>1 DEF StepsToGo
<1>. QED  BY <1>3, <1>4, <1>5, PairsFinite

\* Whoever gets on has one less to go at least.
LEMMA FurtherCounts ==
    ASSUME CoursesIn, CoursesIn', Further PROVE StepsToGo' < StepsToGo
<1>1. PICK S, T : /\ S = {p \in Clients \X (0..LastCourse) : p[2] > Course(p[1])}
                  /\ T = {p \in Clients \X (0..LastCourse) : p[2] > Course(p[1])'}
  OBVIOUS
<1>2. \A c \in Clients : /\ Course(c) \in 0..LastCourse /\ Course(c)' \in 0..LastCourse
                        /\ Course(c)' >= Course(c)
  BY DEF CoursesIn, Further, LastCourse, StepsBetween
<1>3. T \subseteq S
  <2>1. ASSUME NEW p \in Clients \X (0..LastCourse), p[2] > Course(p[1])' PROVE p[2] > Course(p[1])
    BY <1>2, <2>1
  <2>. QED  BY <1>1, <2>1
<1>4. T # S
  <2>1. PICK c \in Clients : Course(c)' > Course(c)
    BY DEF Further
  <2>2. PICK n : n = Course(c)'
    OBVIOUS
  <2>3. n \in 0..LastCourse /\ n > Course(c) /\ ~(n > Course(c)')
    BY <1>2, <2>1, <2>2
  <2>4. <<c, n>> \in S /\ <<c, n>> \notin T
    BY <1>1, <2>3
  <2>. QED  BY <2>4
<1>5. IsFiniteSet(S)
  BY <1>1, PairsFinite, FS_Subset
<1>6. Cardinality(T) <= Cardinality(S) /\ Cardinality(T) # Cardinality(S) /\ IsFiniteSet(T)
  BY <1>3, <1>4, <1>5, FS_Subset
<1>7. Cardinality(S) \in Nat /\ Cardinality(T) \in Nat
  BY <1>5, <1>6, FS_CardinalityType
<1>8. StepsToGo = Cardinality(S)
  BY <1>1 DEF StepsToGo
<1>9. StepsToGo' = Cardinality(T)
  BY <1>1 DEF StepsToGo, LastCourse, StepsBetween
<1>. QED  BY <1>6, <1>7, <1>8, <1>9

\* No run goes on for ever: each step of a client, of the listener, a handler,
\* a pool thread, AGIOS or the dispatcher, other than the abort, leaves fewer
\* steps to go, and there are never more than MostSteps.  No request is handed
\* back, tried again or passed around between the queues and threads of main.c,
\* server/listener.c, handler/*.c, dispatcher/*.c and the pool.
THEOREM StepsRunOut ==
    ASSUME IdsSuffice
    PROVE  Spec => /\ [](StepsToGo \in 0..MostSteps)
                   /\ [][aborted' = "no" => StepsToGo' < StepsToGo]_vars
<1>1. TypeOK /\ IInv /\ TypeOK' /\ IInv' /\ [Next]_vars => [aborted' = "no" => StepsToGo' < StepsToGo]_vars
  <2>. SUFFICES ASSUME TypeOK, IInv, TypeOK', IInv', [Next]_vars, ~UNCHANGED vars, aborted' = "no"
       PROVE  StepsToGo' < StepsToGo
    OBVIOUS
  <2>1. CoursesIn
    BY CoursesHold
  <2>2. CoursesIn'
    BY CoursesHold, PTL
  <2>3. Further
    BY StepsFurther
  <2>. QED  BY <2>1, <2>2, <2>3, FurtherCounts
<1>. QED  BY <1>1, StepsNumber, TypeCorrect, Inductive, PTL DEF Spec
=============================================================================
