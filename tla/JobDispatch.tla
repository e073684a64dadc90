---------------------------- MODULE JobDispatch ----------------------------
(***************************************************************************)
(* How IndexService (src/src/index_tools/tools/service.py) gives jobs of   *)
(* the queue to threads: _dispatch_job_async and the _job_threads registry *)
(* of one server process, under the calls ingest_text and the like,        *)
(* job_retry, job_cancel and job_delete.  The workers and clients are      *)
(* those of JobQueue; a worker here is started by a dispatch only.         *)
(***************************************************************************)
EXTENDS JobQueue

CONSTANT NoThread  (* the registry has no entry *)

ASSUME JobDispatchAssumption == NoThread \notin Workers

VARIABLES
  thread,  (* _job_threads: thread[j] is the live thread registered for j    *)
  call     (* call[c]: the service call c is in, and its job                 *)

dispatchVars == <<vars, thread, call>>

NoCall == [op |-> "none", job |-> NoJob]

DispatchTypeOK ==
  /\ TypeOK
  /\ thread \in [Jobs -> Workers \cup {NoThread}]
  /\ call \in [Clients -> [op : {"none", "submit", "retry", "dispatch"},
                           job : Jobs \cup {NoJob}]]

DispatchInit ==
  /\ Init
  /\ thread = [j \in Jobs |-> NoThread]
  /\ call = [c \in Clients |-> NoCall]

Calls(c, op, j) == call' = [call EXCEPT ![c] = [op |-> op, job |-> j]]

-----------------------------------------------------------------------------
(* Variants with a plausible bug, against which the properties are tested.   *)

\* _job_threads is written but not consulted
DispatchUnchecked(c) ==
  LET j == call[c].job IN
  /\ call[c].op = "dispatch"
  /\ call' = [call EXCEPT ![c] = NoCall]
  /\ \E w \in Workers :
       /\ Run(w, j)
       /\ thread' = [thread EXCEPT ![j] = w]

\* the new thread is not stored
DispatchUnregistered(c) ==
  LET j == call[c].job IN
  /\ call[c].op = "dispatch"
  /\ call' = [call EXCEPT ![c] = NoCall]
  /\ thread[j] = NoThread
  /\ \E w \in Workers : Run(w, j)
  /\ UNCHANGED thread

-----------------------------------------------------------------------------
\* ingest_text and the other submitting tools: enqueue, then dispatch.
SubmitJob(c, j) ==
  /\ call[c] = NoCall
  /\ Enqueue(c, j)
  /\ Calls(c, "submit", j)
  /\ UNCHANGED thread

\* job_retry: queue.retry, then dispatch if the job reads queued.
JobRetry(c, j) ==
  /\ call[c] = NoCall
  /\ Retry(c, j)
  /\ Calls(c, "retry", j)
  /\ UNCHANGED thread

\* job_retry of a job that is queued already changes no row and dispatches.
JobRetryQueued(c, j) ==
  /\ "retry" \in Ops
  /\ call[c] = NoCall
  /\ pc[c] = "idle"
  /\ row[j].status = "queued"
  /\ Calls(c, "dispatch", j)
  /\ UNCHANGED <<vars, thread>>

JobCancelOrDelete(c, j) ==
  /\ call[c] = NoCall
  /\ Cancel(c, j) \/ Delete(c, j)
  /\ UNCHANGED <<thread, call>>

\* The queue call of c is over.  A submit goes on to the dispatch; a retry
\* does if the get that ends queue.retry read queued.
QueueReturn(c) ==
  /\ Return(c)
  /\ IF \/ call[c].op = "submit" /\ StatusOf(c) \notin NoRow
        \/ call[c].op = "retry" /\ StatusOf(c) = "queued"
     THEN Calls(c, "dispatch", job[c])
     ELSE call' = [call EXCEPT ![c] = NoCall]
  /\ UNCHANGED thread

\* _dispatch_job_async, under _job_threads_lock: nothing if the registered
\* thread is alive, otherwise a new thread enters queue.run.
DispatchAsync(c) ==
  LET j == call[c].job IN
  /\ call[c].op = "dispatch"
  /\ call' = [call EXCEPT ![c] = NoCall]
  /\ IF thread[j] # NoThread \/ row[j].status \in NoRow
     THEN UNCHANGED <<vars, thread>>
     ELSE \E w \in Workers :
            /\ Run(w, j)
            /\ thread' = [thread EXCEPT ![j] = w]

\* The finally clause of _runner, which ends the thread.
RunnerFinally(w) ==
  /\ Return(w)
  /\ thread' = [thread EXCEPT ![job[w]] = IF @ = w THEN NoThread ELSE @]
  /\ UNCHANGED call

\* Everything else a thread does inside the queue.
QueueStep(a) ==
  /\ \/ TransitionRead(a) \/ RowGone(a) \/ CancelWrite(a)
     \/ a \in Clients /\ ClientNext(a)
     \/ a \in Workers /\ WorkerNext(a)
  /\ UNCHANGED <<thread, call>>

-----------------------------------------------------------------------------
ServiceThread(a) ==
  \/ QueueStep(a)
  \/ a \in Clients /\ (QueueReturn(a) \/ DispatchAsync(a))
  \/ a \in Workers /\ RunnerFinally(a)

DispatchNext ==
  \/ \E c \in Clients, j \in Jobs :
       \/ SubmitJob(c, j) \/ JobRetry(c, j) \/ JobRetryQueued(c, j)
       \/ JobCancelOrDelete(c, j)
  \/ \E a \in Actors : ServiceThread(a)

DispatchSpec == DispatchInit /\ [][DispatchNext]_dispatchVars

\* As in JobQueue: a thread of the process that can go on goes on.
DispatchLiveSpec ==
  DispatchSpec /\ \A a \in Actors : WF_dispatchVars(ServiceThread(a))

-----------------------------------------------------------------------------
(* Properties.  ExclusiveExecution of JobQueue is checked here again, with   *)
(* every operation allowed: the registry makes up for retry.                 *)

\* The registry names the thread of every job that some thread is running, so
\* one process never has two threads in queue.run for one job.
OneThreadPerJob ==
  \A j \in Jobs, w \in Workers : job[w] = j => thread[j] = w

\* What _dispatch_job_async is for, in its docstring: a queued job gets a
\* thread that runs it.  False if jobs are retried: the registered thread may be
\* one that has already seen the job cancelled and is leaving.
QueuedJobRuns ==
  \A j \in Jobs : row[j].status = "queued" ~> row[j].status # "queued"

\* True without retry: an enqueued, failed or requeued job never waits for ever,
\* whatever is cancelled or deleted at any moment.
UnretriedJobRuns ==
  [](\A c \in Clients : call[c].op # "retry") => QueuedJobRuns

=============================================================================
