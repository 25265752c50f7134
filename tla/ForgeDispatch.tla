--------------------------- MODULE ForgeDispatch ---------------------------
(***************************************************************************)
(* AGIOS and the dispatcher thread: from the requests AGIOS holds, by way  *)
(* of its callbacks and the ready queue, to the batches that are handed to *)
(* the thread pool.                                                        *)
(***************************************************************************)
EXTENDS ForgeState

----------------------------------------------------------------------------
(* AGIOS: an external library, which holds the requests it was given and   *)
(* at times of its choosing calls back with one or several of them, in an  *)
(* order of its choosing; several ones are of one file and one operation.  *)

agiosOnly == <<clientVars, netVars, global_id, shutdown, shutdown_control,
               incoming_queue, opened_files, pvfs_fh_id, requests, fr, jobs,
               handler, dispatcher, pool, disk, aborted>>

AgiosCallback(id) ==
    /\ id \in agios
    /\ agios' = agios \ {id}
    /\ ready_queue' = Append(ready_queue, id)
    /\ UNCHANGED agiosOnly

AgiosCallbackAggregated(ids) ==
    /\ ids \subseteq agios /\ Cardinality(ids) > 1
    /\ \A a, b \in ids : Same(a, b)
    /\ agios' = agios \ ids
    /\ \E order \in Bijection(1..Cardinality(ids), ids) :
          ready_queue' = ready_queue \o order
    /\ UNCHANGED agiosOnly

Agios == \/ \E id \in agios : AgiosCallback(id)
         \/ \E ids \in SUBSET agios : AgiosCallbackAggregated(ids)

----------------------------------------------------------------------------
(* The dispatcher thread (server_dispatcher). *)

dispatcherOnly == <<clientVars, netVars, global_id, shutdown, shutdown_control,
                    incoming_queue, opened_files, pvfs_fh_id, requests, fr, agios,
                    handler, pool, disk>>

DispatcherPop ==
    /\ dispatcher.at = "pop" /\ ready_queue # <<>>
    /\ dispatcher' = [at |-> "find", ids |-> <<Head(ready_queue)>>]
    /\ ready_queue' = Tail(ready_queue)
    /\ UNCHANGED <<dispatcherOnly, jobs, aborted>>

\* The first request of a batch must be in the hash.
DispatcherFind ==
    /\ dispatcher.at = "find"
    /\ dispatcher' = [dispatcher EXCEPT !.at = "batch"]
    /\ aborted' = IF dispatcher.ids[1] \in requests THEN aborted
                  ELSE "ERROR_INVALID_REQUEST_ID"
    /\ UNCHANGED <<dispatcherOnly, ready_queue, jobs>>

\* How many queued requests join a batch that begins with id: as long as
\* there is room, and each is for the same operation on the same handle.
BatchRoom_OffByOne == MAX_BATCH_SIZE
BatchRoom == MAX_BATCH_SIZE - 1
Joining(id) ==
    Cardinality({n \in DOMAIN ready_queue : n <= BatchRoom /\ \A j \in 1..n :
                    ready_queue[j] \in requests /\ Same(id, ready_queue[j])})

\* What the ready queue keeps when n of its entries join the batch.
Remaining_NotDeleted(n) == ready_queue
Remaining(n) == SubSeq(ready_queue, n + 1, Len(ready_queue))

\* The next one is looked up; one that is not in the hash is dereferenced.
DispatcherBatch ==
    /\ dispatcher.at = "batch"
    /\ LET n == Joining(dispatcher.ids[1])
       IN  /\ dispatcher' = [at |-> "submit",
                             ids |-> dispatcher.ids \o SubSeq(ready_queue, 1, n)]
           /\ ready_queue' = Remaining(n)
           /\ aborted' = IF n < Len(ready_queue) /\ n < BatchRoom
                            /\ ready_queue[n+1] \notin requests
                         THEN "SIGSEGV" ELSE aborted
    /\ UNCHANGED <<dispatcherOnly, jobs>>

DispatcherSubmit ==
    /\ dispatcher.at = "submit"
    /\ jobs' = Append(jobs, [fn |-> "dispatch_operation", ids |-> dispatcher.ids])
    /\ dispatcher' = IdleDispatcher
    /\ UNCHANGED <<dispatcherOnly, ready_queue, aborted>>

Dispatcher == DispatcherPop \/ DispatcherFind \/ DispatcherBatch \/ DispatcherSubmit
=============================================================================
