---------------------------- MODULE ForgeServer ----------------------------
(***************************************************************************)
(* The listener thread, which turns messages into queued requests, and the *)
(* handler threads, which open and close files themselves and give reads   *)
(* and writes to the thread pool.                                          *)
(***************************************************************************)
EXTENDS ForgeState

----------------------------------------------------------------------------
(* The listener thread (server_listener). *)

\* The next value of global_id.
generate_identifier_NoWrap(g) == g + 1
generate_identifier_Short(g) == IF g + 1 >= LastId THEN FirstId ELSE g + 1
generate_identifier(g) == IF g + 1 > LastId THEN FirstId ELSE g + 1

\* The shutdown count that makes the forwarder stop: its share of the clients.
AllFinished_AllRanks(n) == n = NClients + 1
AllFinished(n) == n = NClients

\* A request gets an identifier and joins the queue of the handlers.
ListenerRequest(c) ==
    /\ requestMsgs[c] # <<>> /\ Head(requestMsgs[c]).operation # "empty"
    /\ requestMsgs' = Recv(requestMsgs, c)
    /\ global_id' = generate_identifier(global_id)
    /\ LET m == Head(requestMsgs[c])
       IN  fr' = [fr EXCEPT ![global_id'] =
                    [operation |-> m.operation, file |-> m.file,
                     file_handle |-> m.file_handle, offset |-> m.offset,
                     rank |-> c, buffer |-> Nobody]]
    /\ incoming_queue' = Append(incoming_queue, global_id')
    /\ UNCHANGED <<clientVars, handleMsgs, ackMsgs, dataMsgs, shutdown,
                   shutdown_control, opened_files, pvfs_fh_id, requests, ioVars, jobs,
                   handler, pool, disk, aborted>>

\* A client is finished; after the last of them the forwarder stops.
ListenerShutdown(c) ==
    /\ requestMsgs[c] # <<>> /\ Head(requestMsgs[c]).operation = "empty"
    /\ requestMsgs' = Recv(requestMsgs, c)
    /\ shutdown' = shutdown + 1
    /\ shutdown_control' = (shutdown_control \/ AllFinished(shutdown'))
    /\ UNCHANGED <<clientVars, handleMsgs, ackMsgs, dataMsgs, global_id,
                   incoming_queue, opened_files, pvfs_fh_id, requests, fr, ioVars, jobs,
                   handler, pool, disk, aborted>>

Listener == \E c \in Clients : ListenerRequest(c) \/ ListenerShutdown(c)

----------------------------------------------------------------------------
(* The handler threads (server_handler). *)

\* What remains of the hash entry e when one of its users closes it.
Release_First(e) == IF e.references <= 2 THEN NotOpened
                    ELSE [e EXCEPT !.references = @ - 1]
Release_Leak(e) == [e EXCEPT !.references = @ - 1]
Release(e) == IF e.references - 1 = 0 THEN NotOpened
              ELSE [e EXCEPT !.references = @ - 1]

\* Whether the path f has to be opened: it is not in the hash.
NotYetOpen_Unchecked(f) == TRUE
NotYetOpen(f) == opened_files[f].references = 0

frOf(h) == fr[handler[h].id]

HandlerPop(h) ==
    /\ handler[h].at = "idle" /\ incoming_queue # <<>>
    /\ handler' = [handler EXCEPT ![h] =
                      [at |-> "got", id |-> Head(incoming_queue)]]
    /\ incoming_queue' = Tail(incoming_queue)
    /\ UNCHANGED <<clientVars, netVars, global_id, shutdown, shutdown_control,
                   opened_files, pvfs_fh_id, requests, fr, ioVars, jobs, pool,
                   disk, aborted>>

handlerOnly == <<clientVars, requestMsgs, dataMsgs, global_id, shutdown,
                 shutdown_control, incoming_queue, requests, ioVars, pool, disk>>

\* The handle of a path that is opened: a free descriptor, or the next of the
\* identifiers that the PVFS build gives out.
generate_pfs_identifier_Lost(n) == n
generate_pfs_identifier(n) == IF n + 1 > LastFd THEN FirstFd ELSE n + 1
NewHandles == IF FileSystem = "pvfs" THEN {generate_pfs_identifier(pvfs_fh_id)}
              ELSE Fds \ OpenFds

\* The path is opened, or one more user of the open handle is counted.
HandlerOpen(h) ==
    /\ handler[h].at = "got" /\ frOf(h).operation = "open"
    /\ LET f == frOf(h).file
       IN  IF NotYetOpen(f)
           THEN \E d \in NewHandles :
                   /\ opened_files' = [opened_files EXCEPT ![f] =
                                          [fh |-> d, references |-> 1]]
                   /\ pvfs_fh_id' = IF FileSystem = "pvfs" THEN d ELSE pvfs_fh_id
           ELSE /\ opened_files' = [opened_files EXCEPT ![f].references = @ + 1]
                /\ UNCHANGED pvfs_fh_id
    /\ handler' = [handler EXCEPT ![h].at = "reply"]
    /\ UNCHANGED <<handlerOnly, handleMsgs, ackMsgs, fr, jobs, aborted>>

\* The handle is read after the lock is released, and sent.
HandlerSendHandle(h) ==
    /\ handler[h].at = "reply" /\ frOf(h).operation = "open"
    /\ handleMsgs' = Send(handleMsgs, frOf(h).rank, opened_files[frOf(h).file].fh)
    /\ fr' = [fr EXCEPT ![handler[h].id] = NoRequest]
    /\ handler' = [handler EXCEPT ![h] = IdleHandler]
    /\ UNCHANGED <<handlerOnly, ackMsgs, opened_files, pvfs_fh_id, jobs, aborted>>

\* Reads and writes go to the thread pool.
HandlerDelegate(h) ==
    /\ handler[h].at = "got" /\ frOf(h).operation \in {"read", "write"}
    /\ jobs' = Append(jobs,
          [fn |-> IF frOf(h).operation = "read" THEN "handle_read"
                  ELSE "handle_write",
           ids |-> <<handler[h].id>>])
    /\ handler' = [handler EXCEPT ![h] = IdleHandler]
    /\ UNCHANGED <<handlerOnly, handleMsgs, ackMsgs, opened_files, pvfs_fh_id,
                   fr, aborted>>

\* One user less; the last one closes the descriptor.
HandlerClose(h) ==
    /\ handler[h].at = "got" /\ frOf(h).operation = "close"
    /\ LET f == frOf(h).file
       IN  IF NotYetOpen(f)
           THEN aborted' = "ERROR_FAILED_TO_CLOSE" /\ UNCHANGED opened_files
           ELSE /\ opened_files' = [opened_files EXCEPT ![f] = Release(@)]
                /\ UNCHANGED aborted
    /\ handler' = [handler EXCEPT ![h].at = "reply"]
    /\ UNCHANGED <<handlerOnly, handleMsgs, ackMsgs, pvfs_fh_id, fr, jobs>>

\* The acknowledgement carries an uninitialised integer.
HandlerAckClose(h) ==
    /\ handler[h].at = "reply" /\ frOf(h).operation = "close"
    /\ ackMsgs' = Send(ackMsgs, frOf(h).rank, NoFd)
    /\ fr' = [fr EXCEPT ![handler[h].id] = NoRequest]
    /\ handler' = [handler EXCEPT ![h] = IdleHandler]
    /\ UNCHANGED <<handlerOnly, handleMsgs, opened_files, pvfs_fh_id, jobs, aborted>>

Handler(h) ==
    \/ HandlerPop(h) \/ HandlerOpen(h) \/ HandlerSendHandle(h)
    \/ HandlerDelegate(h) \/ HandlerClose(h) \/ HandlerAckClose(h)
=============================================================================
