---------------------------- MODULE ForgeClient ----------------------------
(***************************************************************************)
(* A client of the forwarder (the client branch of main): open the file,   *)
(* issue the requests of a phase one at a time, close the file, and again  *)
(* for the next phase; at last tell the forwarder it is finished.  Barriers *)
(* of clients_comm between which no message is sent are one barrier.       *)
(***************************************************************************)
EXTENDS ForgeState

\* Every client has entered the barrier that client c waits in.
AllReached(c) == \A d \in Clients : barrier[d] >= barrier[c]
EnterBarrier(c) == barrier' = [barrier EXCEPT ![c] = @ + 1]

serverVars == <<global_id, shutdown, shutdown_control, incoming_queue,
                opened_files, pvfs_fh_id, requests, fr, ioVars, jobs, handler,
                pool, disk>>

\* A client issues a request and goes on to wait for the answer.
Request(c, operation, file, handle, offset, next) ==
    /\ requestMsgs' = Send(requestMsgs, c,
          [operation |-> operation, file |-> file,
           file_handle |-> handle, offset |-> offset])
    /\ pc' = [pc EXCEPT ![c] = next]

ClientOpen(c) ==
    /\ pc[c] = "open"
    /\ Request(c, "open", FileOf(Layout, c), NoFd, 0, "handle")
    /\ UNCHANGED <<phase, iter, fh, request_id, barrier, handleMsgs, ackMsgs,
                   dataMsgs, serverVars, aborted>>

\* The handle arrives; the client enters the barrier before the loop.
ClientHandle(c) ==
    /\ pc[c] = "handle" /\ handleMsgs[c] # <<>>
    /\ fh' = [fh EXCEPT ![c] = Head(handleMsgs[c])]
    /\ handleMsgs' = Recv(handleMsgs, c)
    /\ pc' = [pc EXCEPT ![c] = "opened"]
    /\ EnterBarrier(c)
    /\ UNCHANGED <<phase, iter, request_id, requestMsgs, ackMsgs, dataMsgs,
                   serverVars, aborted>>

ClientStart(c) ==
    /\ pc[c] = "opened" /\ AllReached(c)
    /\ pc' = [pc EXCEPT ![c] = "issue"]
    /\ iter' = [iter EXCEPT ![c] = 0]
    /\ UNCHANGED <<phase, fh, request_id, barrier, netVars, serverVars, aborted>>

ClientIssue(c) ==
    /\ pc[c] = "issue" /\ iter[c] < NRequests
    /\ Request(c, phase[c], Nobody, fh[c], BlockOf(c, iter[c]), "id")
    /\ UNCHANGED <<phase, iter, fh, request_id, barrier, handleMsgs, ackMsgs,
                   dataMsgs, serverVars, aborted>>

\* The identifier of a write arrives, and the data is sent under it.
ClientSendData(c) ==
    /\ pc[c] = "id" /\ phase[c] = "write" /\ ackMsgs[c] # <<>>
    /\ request_id' = [request_id EXCEPT ![c] = Head(ackMsgs[c])]
    /\ ackMsgs' = Recv(ackMsgs, c)
    /\ dataMsgs' = dataMsgs \cup
          {[to |-> "server", rank |-> c, tag |-> Head(ackMsgs[c]), data |-> c]}
    /\ pc' = [pc EXCEPT ![c] = "ack"]
    /\ UNCHANGED <<phase, iter, fh, barrier, requestMsgs, handleMsgs,
                   serverVars, aborted>>

\* The identifier of a read arrives; the data comes under that tag.
ClientReadId(c) ==
    /\ pc[c] = "id" /\ phase[c] = "read" /\ ackMsgs[c] # <<>>
    /\ request_id' = [request_id EXCEPT ![c] = Head(ackMsgs[c])]
    /\ ackMsgs' = Recv(ackMsgs, c)
    /\ pc' = [pc EXCEPT ![c] = "data"]
    /\ UNCHANGED <<phase, iter, fh, barrier, requestMsgs, handleMsgs, dataMsgs,
                   serverVars, aborted>>

\* The loop goes on, or the time limit ends it at the barrier after it.
NextIteration(c) ==
    \/ /\ iter' = [iter EXCEPT ![c] = @ + 1]
       /\ pc' = [pc EXCEPT ![c] = "issue"]
       /\ UNCHANGED barrier
    \/ /\ StoneWall
       /\ pc' = [pc EXCEPT ![c] = "drained"]
       /\ EnterBarrier(c)
       /\ UNCHANGED iter

ClientWriteDone(c) ==
    /\ pc[c] = "ack" /\ ackMsgs[c] # <<>>
    /\ ackMsgs' = Recv(ackMsgs, c)
    /\ NextIteration(c)
    /\ UNCHANGED <<phase, fh, request_id, requestMsgs, handleMsgs, dataMsgs,
                   serverVars, aborted>>

\* The data of a read arrives; under "validation" it is compared with what
\* this client writes, one letter for every 25th rank.
Valid(c, m) == m.data \in Clients /\ m.data % 25 = c % 25
ClientReadDone(c) ==
    /\ pc[c] = "data"
    /\ \E m \in dataMsgs :
          /\ m.to = "client" /\ m.rank = c /\ m.tag = request_id[c]
          /\ dataMsgs' = dataMsgs \ {m}
          /\ IF Validation /\ ~Valid(c, m)
             THEN /\ aborted' = "ERROR_VALIDATION_FAILED"
                  /\ UNCHANGED <<pc, iter, barrier>>
             ELSE NextIteration(c) /\ UNCHANGED aborted
    /\ UNCHANGED <<phase, fh, request_id, requestMsgs, handleMsgs, ackMsgs,
                   serverVars>>

ClientLoopEnd(c) ==
    /\ pc[c] = "issue" /\ iter[c] >= NRequests
    /\ pc' = [pc EXCEPT ![c] = "drained"]
    /\ EnterBarrier(c)
    /\ UNCHANGED <<phase, iter, fh, request_id, netVars, serverVars, aborted>>

\* Every request of every client is answered: the handle is closed.
ClientClose(c) ==
    /\ pc[c] = "drained" /\ AllReached(c)
    /\ Request(c, "close", FileOf(Layout, c), NoFd, 0, "closing")
    /\ UNCHANGED <<phase, iter, fh, request_id, barrier, handleMsgs, ackMsgs,
                   dataMsgs, serverVars, aborted>>

\* The acknowledgement overwrites forwarding_fh.
ClientClosed(c) ==
    /\ pc[c] = "closing" /\ ackMsgs[c] # <<>>
    /\ fh' = [fh EXCEPT ![c] = Head(ackMsgs[c])]
    /\ ackMsgs' = Recv(ackMsgs, c)
    /\ pc' = [pc EXCEPT ![c] = "closed"]
    /\ EnterBarrier(c)
    /\ UNCHANGED <<phase, iter, request_id, requestMsgs, handleMsgs, dataMsgs,
                   serverVars, aborted>>

ClientNext(c) ==
    /\ pc[c] = "closed" /\ AllReached(c)
    /\ pc' = [pc EXCEPT ![c] = Follows(phase[c])]
    /\ phase' = [phase EXCEPT ![c] = "read"]
    /\ UNCHANGED <<iter, fh, request_id, barrier, netVars, serverVars, aborted>>

ClientShutdown(c) ==
    /\ pc[c] = "shutdown"
    /\ Request(c, "empty", Nobody, NoFd, 0, "done")
    /\ UNCHANGED <<phase, iter, fh, request_id, barrier, handleMsgs, ackMsgs,
                   dataMsgs, serverVars, aborted>>

Client(c) ==
    \/ ClientOpen(c) \/ ClientHandle(c) \/ ClientStart(c) \/ ClientIssue(c)
    \/ ClientSendData(c) \/ ClientReadId(c) \/ ClientWriteDone(c)
    \/ ClientReadDone(c) \/ ClientLoopEnd(c) \/ ClientClose(c)
    \/ ClientClosed(c) \/ ClientNext(c) \/ ClientShutdown(c)
=============================================================================
