----------------------------- MODULE ForgeJobs -----------------------------
(***************************************************************************)
(* The jobs the thread pool runs: handle_read and handle_write bring a     *)
(* request to AGIOS, dispatch_operation transfers a batch to or from the   *)
(* file system, and the callbacks answer its clients.  A free thread takes *)
(* the oldest job.  The server is built for POSIX or for PVFS, which differ *)
(* in dispatch_operation.                                                  *)
(***************************************************************************)
EXTENDS ForgeState

PoolPull(t) ==
    /\ pool[t].at = "idle" /\ jobs # <<>>
    /\ pool' = [pool EXCEPT ![t] = [fn |-> Head(jobs).fn, ids |-> Head(jobs).ids,
                                    at |-> "begin", k |-> 1]]
    /\ jobs' = Tail(jobs)
    /\ UNCHANGED <<clientVars, netVars, global_id, shutdown, shutdown_control,
                   incoming_queue, opened_files, pvfs_fh_id, requests, fr, ioVars,
                   handler, disk, aborted>>

Runs(t, fns, at) == pool[t].fn \in fns /\ pool[t].at = at
Current(t) == pool[t].ids[pool[t].k]
Goto(t, at) == pool' = [pool EXCEPT ![t].at = at]

poolOnly == <<clientVars, requestMsgs, handleMsgs, global_id, shutdown,
              shutdown_control, incoming_queue, opened_files, pvfs_fh_id,
              ready_queue, dispatcher, handler>>

\* handle_read, handle_write: there is a buffer, and the client learns the
\* identifier.  A write has posted its receive by then, and waits for the data;
\* a read does not.
AfterAck_NoWait(fn) == "hash"
AfterAck(fn) == IF fn = "handle_write" THEN "wait" ELSE "hash"
HandleAck(t) ==
    /\ Runs(t, {"handle_read", "handle_write"}, "begin")
    /\ fr' = [fr EXCEPT ![Current(t)].buffer = FreshBuffer]
    /\ ackMsgs' = Send(ackMsgs, fr[Current(t)].rank, Current(t))
    /\ Goto(t, AfterAck(pool[t].fn))
    /\ UNCHANGED <<poolOnly, dataMsgs, requests, agios, jobs, disk, aborted>>

\* handle_write: MPI_Wait returns with the data in the buffer.
HandleWriteWait(t) ==
    /\ Runs(t, {"handle_write"}, "wait")
    /\ \E m \in dataMsgs :
          /\ m.to = "server" /\ m.tag = Current(t)
          /\ m.rank = fr[Current(t)].rank
          /\ dataMsgs' = dataMsgs \ {m}
          /\ fr' = [fr EXCEPT ![Current(t)].buffer = m.data]
    /\ Goto(t, "hash")
    /\ UNCHANGED <<poolOnly, ackMsgs, requests, agios, jobs, disk, aborted>>

\* HASH_ADD_INT, and only then agios_add_request.
HandleHash_Skipped(t) ==
    /\ Runs(t, {"handle_read", "handle_write"}, "hash")
    /\ Goto(t, "agios")
    /\ UNCHANGED <<poolOnly, ackMsgs, dataMsgs, fr, requests, agios, jobs, disk,
                   aborted>>
HandleHash(t) ==
    /\ Runs(t, {"handle_read", "handle_write"}, "hash")
    /\ requests' = requests \cup {Current(t)}
    /\ Goto(t, "agios")
    /\ UNCHANGED <<poolOnly, ackMsgs, dataMsgs, fr, agios, jobs, disk, aborted>>

HandleAgios(t) ==
    /\ Runs(t, {"handle_read", "handle_write"}, "agios")
    /\ agios' = agios \cup {Current(t)}
    /\ pool' = [pool EXCEPT ![t] = IdleThread]
    /\ UNCHANGED <<poolOnly, ackMsgs, dataMsgs, fr, requests, jobs, disk, aborted>>

\* PVFS: the requests are sorted, to be transferred as one list.  qsort may
\* leave any order, for compare_offsets never says "less", and so is none.
\* The file is looked up by its handle; one that is unknown is dereferenced.
DispatchSort(t) ==
    /\ FileSystem = "pvfs" /\ Runs(t, {"dispatch_operation"}, "begin")
    /\ \E order \in Bijection(DOMAIN pool[t].ids, Range(pool[t].ids)) :
          pool' = [pool EXCEPT ![t].ids = order, ![t].at = "io"]
    /\ aborted' = IF FilesOf(fr[pool[t].ids[1]].file_handle) = {} THEN "SIGSEGV"
                  ELSE aborted
    /\ UNCHANGED <<poolOnly, ackMsgs, dataMsgs, fr, requests, agios, jobs, disk>>

\* The requests of a batch are transferred one after another: by calls of
\* dispatch_write or dispatch_read, or as the pieces of the PVFS list.
TransfersNext(t) ==
    /\ Runs(t, {"dispatch_operation"}, IF FileSystem = "pvfs" THEN "io" ELSE "begin")
    /\ pool[t].k <= Len(pool[t].ids)

\* One pwrite; a short or failed one is only logged.
Pwrite(r) ==
    \E moved \in {TRUE, FullTransfers} :
        disk' = [f \in Files |->
                   IF moved /\ f \in FilesOf(r.file_handle)
                   THEN [disk[f] EXCEPT ![r.offset] = r.buffer] ELSE disk[f]]

DispatchWrite(t) ==
    /\ TransfersNext(t) /\ fr[Current(t)].operation = "write"
    /\ Pwrite(fr[Current(t)])
    /\ pool' = [pool EXCEPT ![t].k = @ + 1]
    /\ UNCHANGED <<poolOnly, ackMsgs, dataMsgs, fr, requests, agios, jobs, aborted>>

\* One pread; a short or failed one leaves the buffer alone.
Pread_FirstOffset(id) ==
    LET t     == CHOOSE u \in PoolThreads : id \in Range(pool[u].ids)
        first == fr[pool[t].ids[1]]
        f     == CHOOSE g \in FilesOf(first.file_handle) : TRUE
    IN  fr' = [fr EXCEPT ![id].buffer = disk[f][first.offset]]
Pread(id) ==
    \E moved \in {TRUE, FullTransfers} :
        LET r == fr[id]
        IN  fr' = IF moved /\ FilesOf(r.file_handle) # {}
                  THEN [fr EXCEPT ![id].buffer =
                          disk[CHOOSE f \in FilesOf(r.file_handle) : TRUE][r.offset]]
                  ELSE fr

DispatchRead(t) ==
    /\ TransfersNext(t) /\ fr[Current(t)].operation = "read"
    /\ Pread(Current(t))
    /\ pool' = [pool EXCEPT ![t].k = @ + 1]
    /\ UNCHANGED <<poolOnly, ackMsgs, dataMsgs, requests, agios, jobs, disk, aborted>>

\* The whole batch is transferred: its callback becomes a job.
DispatchDone_Early(t) ==
    /\ pool[t].fn = "dispatch_operation" /\ pool[t].k >= Len(pool[t].ids)
    /\ jobs' = Append(jobs, [fn |-> "callback", ids |-> pool[t].ids])
    /\ pool' = [pool EXCEPT ![t] = IdleThread]
    /\ UNCHANGED <<poolOnly, ackMsgs, dataMsgs, fr, requests, agios, disk, aborted>>
DispatchDone(t) ==
    /\ pool[t].fn = "dispatch_operation" /\ pool[t].k > Len(pool[t].ids)
    /\ jobs' = Append(jobs, [fn |-> "callback", ids |-> pool[t].ids])
    /\ pool' = [pool EXCEPT ![t] = IdleThread]
    /\ UNCHANGED <<poolOnly, ackMsgs, dataMsgs, fr, requests, agios, disk, aborted>>

\* The client that is answered: the one of the request at hand.
Answered_First(t) == fr[pool[t].ids[1]].rank
Answered(t) == fr[Current(t)].rank

\* callback_read, callback_write: a request leaves the hash; HASH_DEL of one
\* that is not there dereferences a null pointer.
CallbackDel(t) ==
    /\ Runs(t, {"callback"}, "begin")
    /\ requests' = requests \ {Current(t)}
    /\ aborted' = IF Current(t) \in requests THEN aborted ELSE "SIGSEGV"
    /\ Goto(t, "reply")
    /\ UNCHANGED <<poolOnly, ackMsgs, dataMsgs, fr, agios, jobs, disk>>

\* The callback's loop: the next request of the batch, or the job is over.
AfterReply(w) == IF w.k = Len(w.ids) THEN IdleThread
                 ELSE [w EXCEPT !.at = "begin", !.k = @ + 1]

\* ... and its client is answered, with the data or with an acknowledgement.
\* The struct's remaining uses are local, so it is given up here.
CallbackReply(t) ==
    /\ Runs(t, {"callback"}, "reply")
    /\ LET r == fr[Current(t)]
       IN  IF r.operation = "read"
           THEN /\ dataMsgs' = dataMsgs \cup
                      {[to |-> "client", rank |-> Answered(t), tag |-> Current(t),
                        data |-> r.buffer]}
                /\ UNCHANGED ackMsgs
           ELSE ackMsgs' = Send(ackMsgs, Answered(t), 1) /\ UNCHANGED dataMsgs
    /\ fr' = [fr EXCEPT ![Current(t)] = NoRequest]
    /\ pool' = [pool EXCEPT ![t] = AfterReply(@)]
    /\ UNCHANGED <<poolOnly, requests, agios, jobs, disk, aborted>>

Pool(t) ==
    \/ PoolPull(t) \/ HandleAck(t) \/ HandleWriteWait(t) \/ HandleHash(t)
    \/ HandleAgios(t) \/ DispatchSort(t) \/ DispatchWrite(t)
    \/ DispatchRead(t) \/ DispatchDone(t) \/ CallbackDel(t) \/ CallbackReply(t)
=============================================================================
