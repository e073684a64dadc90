------------------------------ MODULE JobQueue ------------------------------
(***************************************************************************)
(* QueueEngine (src/src/index_tools/queue/engine.py): the job queue facade *)
(* that every ingest, reindex, retention, delete and extraction job goes   *)
(* through.                                                                *)
(*                                                                         *)
(* A job is one row of the jobs table.  Threads share nothing but rows:    *)
(* workers execute QueueEngine.run or process_available, clients execute   *)
(* enqueue, cancel, retry and delete.  Each SQL transaction of the engine  *)
(* is one action.  In particular QueueEngine._transition is two of them,   *)
(* because it reads the row in one transaction and writes it in another:   *)
(* TransitionRead keeps the attempt counter it read in seen, and the write *)
(* actions put that value back, whatever happened to the row in between.   *)
(***************************************************************************)
EXTENDS Naturals, FiniteSets

CONSTANTS
  Jobs,         (* job ids; uuids, so a deleted id is never inserted again   *)
  Workers,      (* threads executing QueueEngine.run or process_available    *)
  Clients,      (* threads calling enqueue, cancel, retry and delete         *)
  Ops,          (* which of "cancel", "retry", "delete" the clients call     *)
  Modes,        (* which of "run", "batch" (process_available) workers use   *)
  MaxAttempts,  (* retry_max_attempts                                        *)
  MaxOps,       (* bound: calls of operations in Ops per client              *)
  MaxProgress,  (* bound: record_progress calls per handler invocation       *)
  MaxCrashes,   (* bound: threads that die without running another step      *)
  NoJob         (* not a job                                                 *)

ASSUME JobQueueAssumption ==
  /\ Workers \cap Clients = {}
  /\ Ops \subseteq {"cancel", "retry", "delete"}
  /\ Modes \subseteq {"run", "batch"}
  /\ MaxAttempts \in Nat \ {0}
  /\ MaxOps \in Nat
  /\ MaxProgress \in Nat
  /\ MaxCrashes \in Nat
  /\ NoJob \notin Jobs

VARIABLES
  row,      (* row[j]: status and meta.attempt of the row of job j           *)
  pc,       (* pc[a]: where thread a stands                                  *)
  job,      (* job[a]: the job thread a is working on                        *)
  site,     (* site[a]: the _transition call that a is inside of             *)
  seen,     (* seen[a]: the attempt counter that _transition call read       *)
  attempts, (* attempts[a]: the local variable of _execute_backend_job       *)
  mode,     (* mode[a]: "run" or "batch"                                     *)
  ticks,    (* ticks[a]: record_progress calls made by this invocation       *)
  ops,      (* ops[c]: client operations begun                               *)
  touched,  (* history: jobs that somebody called cancel or retry for        *)
  execs     (* history: handler invocations of j since enqueue or retry; the *)
            (* count stops at MaxAttempts + 1, one too many                  *)

vars == <<row, pc, job, site, seen, attempts, mode, ticks, ops, touched, execs>>

Actors == Workers \cup Clients

-----------------------------------------------------------------------------
(* Statuses.  "absent" and "deleted" both mean that there is no row.         *)

NoRow == {"absent", "deleted"}

Settled == {"succeeded", "cancelled", "dead_lettered"}

Status == NoRow \cup Settled \cup
  {"created", "validated", "queued", "dispatched", "running", "retry_wait"}

\* can_transition(status, cancelled), read off the platform's transition table
Cancellable == {"created", "queued", "dispatched", "running", "retry_wait"}

Retryable == {"cancelled", "dead_lettered"}

Deletable == Settled

Sites == {"none", "validate", "queue", "dispatch", "start", "progress",
          "retry_wait", "requeue", "dead_letter", "succeed", "cancel", "retry"}

Labels == {"idle", "poll", "claim", "attempts", "read", "write", "handler",
           "interrupted", "cancelling", "failed", "backoff", "completed",
           "result", "raised", "validated", "deleting", "returned", "crashed"}

\* the reads and writes of one _execute_backend_job call, from the claim on
ExecutionLabels == {"attempts", "read", "write", "handler", "interrupted",
                    "cancelling", "failed", "backoff", "completed"}

Executing(w, j) == job[w] = j /\ pc[w] \in ExecutionLabels

Crashed == {a \in Actors : pc[a] = "crashed"}

TypeOK ==
  /\ row \in [Jobs -> [status : Status, attempt : Nat]]
  /\ pc \in [Actors -> Labels]
  /\ job \in [Actors -> Jobs \cup {NoJob}]
  /\ site \in [Actors -> Sites]
  /\ seen \in [Actors -> Nat]
  /\ attempts \in [Actors -> Nat]
  /\ mode \in [Actors -> {"run", "batch"}]
  /\ ticks \in [Actors -> Nat]
  /\ ops \in [Clients -> Nat]
  /\ touched \subseteq Jobs
  /\ execs \in [Jobs -> Nat]

\* A thread inside a call has a job.
Busy == \A a \in Actors : pc[a] # "idle" => job[a] \in Jobs

Init ==
  /\ row = [j \in Jobs |-> [status |-> "absent", attempt |-> 0]]
  /\ pc = [a \in Actors |-> "idle"]
  /\ job = [a \in Actors |-> NoJob]
  /\ site = [a \in Actors |-> "none"]
  /\ seen = [a \in Actors |-> 0]
  /\ attempts = [a \in Actors |-> 0]
  /\ mode = [a \in Actors |-> "run"]
  /\ ticks = [a \in Actors |-> 0]
  /\ ops = [c \in Clients |-> 0]
  /\ touched = {}
  /\ execs = [j \in Jobs |-> 0]

-----------------------------------------------------------------------------
(* Steps shared by workers and clients.                                      *)

StatusOf(a) == row[job[a]].status

GoTo(a, label) == pc' = [pc EXCEPT ![a] = label]

\* Thread a calls _transition at call site s.
CallTransition(a, s) ==
  /\ pc' = [pc EXCEPT ![a] = "read"]
  /\ site' = [site EXCEPT ![a] = s]

\* current = self.get(job_id), the first transaction of _transition.
TransitionRead(a) ==
  /\ pc[a] = "read"
  /\ StatusOf(a) \notin NoRow
  /\ seen' = [seen EXCEPT ![a] = row[job[a]].attempt]
  /\ GoTo(a, "write")
  /\ UNCHANGED <<row, job, site, attempts, mode, ticks, ops, touched, execs>>

\* _update_sql_job, the second one: the status and the attempt counter are
\* written whatever they have become since the read.  Control goes to next.
TransitionWrite(a, s, status, attempt, next) ==
  /\ pc[a] = "write"
  /\ site[a] = s
  /\ StatusOf(a) \notin NoRow
  /\ row' = [row EXCEPT ![job[a]] = [status |-> status, attempt |-> attempt]]
  /\ seen' = [seen EXCEPT ![a] = 0]
  /\ GoTo(a, next)
  /\ site' = [site EXCEPT ![a] = "none"]

\* A get, or the get that ends _transition, finds no row: KeyError ends the
\* call.  Every except clause on the way out reads the row again and raises.
RowGone(a) ==
  /\ pc[a] \notin {"idle", "returned", "crashed", "claim", "deleting", "handler"}
  /\ StatusOf(a) \in NoRow
  /\ GoTo(a, "returned")
  /\ site' = [site EXCEPT ![a] = "none"]
  /\ seen' = [seen EXCEPT ![a] = 0]
  /\ UNCHANGED <<row, job, attempts, mode, ticks, ops, touched, execs>>

\* The call returns, or raises, to its caller.
Return(a) ==
  /\ pc[a] = "returned"
  /\ GoTo(a, "idle")
  /\ job' = [job EXCEPT ![a] = NoJob]
  /\ attempts' = [attempts EXCEPT ![a] = 0]
  /\ mode' = [mode EXCEPT ![a] = "run"]
  /\ ticks' = [ticks EXCEPT ![a] = 0]
  /\ UNCHANGED <<row, site, seen, ops, touched, execs>>

\* The thread dies with its process; nothing else is told.
Crash(a) ==
  /\ pc[a] \notin {"idle", "crashed"}
  /\ Cardinality(Crashed) < MaxCrashes
  /\ GoTo(a, "crashed")
  /\ UNCHANGED <<row, job, site, seen, attempts, mode, ticks, ops, touched, execs>>

-----------------------------------------------------------------------------
(* Variants of the actions below, each with a plausible bug, against which   *)
(* the properties are tested.  No step of Next uses them.                    *)

\* the result of claim is ignored
ClaimLostProceeds(w) ==
  /\ pc[w] = "claim"
  /\ StatusOf(w) # "queued"
  /\ GoTo(w, "attempts")
  /\ UNCHANGED <<row, job, site, seen, attempts, mode, ticks, ops, touched, execs>>

\* run waits for success or failure only
PollMissesCancelled(w) ==
  /\ pc[w] = "poll"
  /\ \/ /\ StatusOf(w) \in Settled \ {"cancelled"}
        /\ GoTo(w, "returned")
     \/ /\ StatusOf(w) = "queued"
        /\ GoTo(w, "claim")
  /\ UNCHANGED <<row, job, site, seen, attempts, mode, ticks, ops, touched, execs>>

\* an exhausted job is reported but not dead-lettered
FailedUnsettled(w) ==
  /\ pc[w] = "failed"
  /\ StatusOf(w) \notin NoRow
  /\ IF attempts[w] < MaxAttempts
     THEN CallTransition(w, "retry_wait")
     ELSE GoTo(w, "raised") /\ UNCHANGED site
  /\ UNCHANGED <<row, job, seen, attempts, mode, ticks, ops, touched, execs>>

\* attempts <= retry_max_attempts
FailedLate(w) ==
  /\ pc[w] = "failed"
  /\ StatusOf(w) \notin NoRow
  /\ CallTransition(w, IF attempts[w] <= MaxAttempts
                       THEN "retry_wait" ELSE "dead_letter")
  /\ UNCHANGED <<row, job, seen, attempts, mode, ticks, ops, touched, execs>>

\* the first attempt counted twice
FailedEarly(w) ==
  /\ pc[w] = "failed"
  /\ StatusOf(w) \notin NoRow
  /\ CallTransition(w, IF attempts[w] + 1 < MaxAttempts
                       THEN "retry_wait" ELSE "dead_letter")
  /\ UNCHANGED <<row, job, seen, attempts, mode, ticks, ops, touched, execs>>

\* queued at once, before the backoff
RetryWaitQueues(w) ==
  /\ TransitionWrite(w, "retry_wait", "queued", seen[w], "backoff")
  /\ UNCHANGED <<job, attempts, mode, ticks, ops, touched, execs>>

\* the second transition of _mark_retry_wait is forgotten
BackoffForgets(w) ==
  /\ pc[w] = "backoff"
  /\ GoTo(w, "result")
  /\ UNCHANGED <<row, job, site, seen, attempts, mode, ticks, ops, touched, execs>>

\* a status that is not one of JobStatus
RequeuePending(w) ==
  /\ TransitionWrite(w, "requeue", "pending", seen[w], "result")
  /\ UNCHANGED <<job, attempts, mode, ticks, ops, touched, execs>>

\* run does not loop after a requeue
ResultReturns(w) ==
  /\ pc[w] = "result"
  /\ StatusOf(w) \notin NoRow
  /\ GoTo(w, "returned")
  /\ UNCHANGED <<row, job, site, seen, attempts, mode, ticks, ops, touched, execs>>

-----------------------------------------------------------------------------
(* Clients: enqueue, cancel, retry, delete.                                  *)

\* enqueue, first transaction: the backend inserts the row as created.  The
\* update that follows writes audit keys only and is left out.
Enqueue(c, j) ==
  /\ pc[c] = "idle"
  /\ row[j].status = "absent"
  /\ row' = [row EXCEPT ![j] = [status |-> "created", attempt |-> 0]]
  /\ job' = [job EXCEPT ![c] = j]
  /\ CallTransition(c, "validate")
  /\ UNCHANGED <<seen, attempts, mode, ticks, ops, touched, execs>>

EnqueueValidate(c) ==
  /\ TransitionWrite(c, "validate", "validated", seen[c], "validated")
  /\ UNCHANGED <<job, attempts, mode, ticks, ops, touched, execs>>

EnqueueValidated(c) ==
  /\ pc[c] = "validated"
  /\ CallTransition(c, "queue")
  /\ UNCHANGED <<row, job, seen, attempts, mode, ticks, ops, touched, execs>>

EnqueueQueue(c) ==
  /\ TransitionWrite(c, "queue", "queued", seen[c], "returned")
  /\ UNCHANGED <<job, attempts, mode, ticks, ops, touched, execs>>

\* A client reads the row and, if the operation is allowed, goes on; a refused
\* call (JobTerminalStateError, or False) changes nothing and is no step.
Begin(c, j, op, allowed) ==
  /\ op \in Ops
  /\ pc[c] = "idle"
  /\ ops[c] < MaxOps
  /\ row[j].status \in allowed
  /\ job' = [job EXCEPT ![c] = j]
  /\ ops' = [ops EXCEPT ![c] = @ + 1]
  /\ touched' = IF op = "delete" THEN touched ELSE touched \cup {j}
  /\ UNCHANGED <<row, seen, attempts, mode, ticks, execs>>

Cancel(c, j) ==
  /\ Begin(c, j, "cancel", Cancellable)
  /\ CallTransition(c, "cancel")

\* The write of cancel, also reached by a worker after JobCancelledError.
CancelWrite(a) ==
  /\ TransitionWrite(a, "cancel", "cancelled", seen[a],
                     IF a \in Workers THEN "result" ELSE "returned")
  /\ UNCHANGED <<job, attempts, mode, ticks, ops, touched, execs>>

Retry(c, j) ==
  /\ Begin(c, j, "retry", Retryable)
  /\ CallTransition(c, "retry")

RetryWrite(c) ==
  /\ TransitionWrite(c, "retry", "queued", 0, "returned")
  /\ execs' = [execs EXCEPT ![job[c]] = 0]
  /\ UNCHANGED <<job, attempts, mode, ticks, ops, touched>>

Delete(c, j) ==
  /\ Begin(c, j, "delete", Deletable)
  /\ GoTo(c, "deleting")
  /\ UNCHANGED site

\* DELETE FROM jobs WHERE job_id = ...: the status is not looked at again.
DeleteRow(c) ==
  /\ pc[c] = "deleting"
  /\ row' = [row EXCEPT ![job[c]] =
              [status |-> IF @.status = "absent" THEN "absent" ELSE "deleted",
               attempt |-> 0]]
  /\ GoTo(c, "returned")
  /\ UNCHANGED <<job, site, seen, attempts, mode, ticks, ops, touched, execs>>

-----------------------------------------------------------------------------
(* Workers: run, process_available, _execute_backend_job.                    *)

Run(w, j) ==
  /\ "run" \in Modes
  /\ pc[w] = "idle"
  /\ row[j].status \notin NoRow \cup {"created", "validated"}
  /\ job' = [job EXCEPT ![w] = j]
  /\ GoTo(w, "poll")
  /\ UNCHANGED <<row, site, seen, attempts, mode, ticks, ops, touched, execs>>

\* process_available(limit=1): dequeue selects a queued row, claim follows.
ProcessAvailable(w, j) ==
  /\ "batch" \in Modes
  /\ pc[w] = "idle"
  /\ row[j].status = "queued"
  /\ job' = [job EXCEPT ![w] = j]
  /\ mode' = [mode EXCEPT ![w] = "batch"]
  /\ GoTo(w, "claim")
  /\ UNCHANGED <<row, site, seen, attempts, ticks, ops, touched, execs>>

\* One turn of run's loop.  On every other status the loop sleeps.
Poll(w) ==
  /\ pc[w] = "poll"
  /\ \/ /\ StatusOf(w) \in Settled
        /\ GoTo(w, "returned")
     \/ /\ StatusOf(w) = "queued"
        /\ GoTo(w, "claim")
  /\ UNCHANGED <<row, job, site, seen, attempts, mode, ticks, ops, touched, execs>>

\* backend.claim: one transaction, UPDATE ... WHERE status = 'queued'.
Claim(w) ==
  /\ pc[w] = "claim"
  /\ StatusOf(w) = "queued"
  /\ row' = [row EXCEPT ![job[w]].status = "running"]
  /\ IF mode[w] = "batch"
     THEN CallTransition(w, "dispatch")
     ELSE GoTo(w, "attempts") /\ UNCHANGED site
  /\ UNCHANGED <<job, seen, attempts, mode, ticks, ops, touched, execs>>

ClaimLost(w) ==
  /\ pc[w] = "claim"
  /\ StatusOf(w) # "queued"
  /\ GoTo(w, IF mode[w] = "batch" THEN "returned" ELSE "poll")
  /\ UNCHANGED <<row, job, site, seen, attempts, mode, ticks, ops, touched, execs>>

Dispatch(w) ==
  /\ TransitionWrite(w, "dispatch", "dispatched", seen[w], "attempts")
  /\ UNCHANGED <<job, attempts, mode, ticks, ops, touched, execs>>

\* attempts = self.get(job_id).attempt + 1
ReadAttempts(w) ==
  /\ pc[w] = "attempts"
  /\ StatusOf(w) \notin NoRow
  /\ attempts' = [attempts EXCEPT ![w] = row[job[w]].attempt + 1]
  /\ CallTransition(w, "start")
  /\ UNCHANGED <<row, job, seen, mode, ticks, ops, touched, execs>>

Start(w) ==
  /\ TransitionWrite(w, "start", "running", attempts[w], "handler")
  /\ execs' = [execs EXCEPT ![job[w]] = IF @ > MaxAttempts THEN @ ELSE @ + 1]
  /\ ticks' = [ticks EXCEPT ![w] = 0]
  /\ UNCHANGED <<job, attempts, mode, ops, touched>>

\* The handler calls record_progress.
HandlerProgress(w) ==
  /\ pc[w] = "handler"
  /\ ticks[w] < MaxProgress
  /\ ticks' = [ticks EXCEPT ![w] = @ + 1]
  /\ CallTransition(w, "progress")
  /\ UNCHANGED <<row, job, seen, attempts, mode, ops, touched, execs>>

\* The only write that names no status: it leaves the row's own.
Progress(w) ==
  /\ TransitionWrite(w, "progress", StatusOf(w), seen[w], "handler")
  /\ UNCHANGED <<job, attempts, mode, ticks, ops, touched, execs>>

\* The handler finds its job cancelled and raises JobCancelledError.
HandlerInterrupted(w) ==
  /\ pc[w] = "handler"
  /\ StatusOf(w) = "cancelled"
  /\ GoTo(w, "interrupted")
  /\ UNCHANGED <<row, job, site, seen, attempts, mode, ticks, ops, touched, execs>>

\* The handler returns, or it raises (or outlived timeout_seconds).
HandlerEnds(w) ==
  /\ pc[w] = "handler"
  /\ \/ GoTo(w, "completed")
     \/ GoTo(w, "failed")
  /\ UNCHANGED <<row, job, site, seen, attempts, mode, ticks, ops, touched, execs>>

\* except JobCancelledError
Interrupted(w) ==
  /\ pc[w] = "interrupted"
  /\ StatusOf(w) \notin NoRow
  /\ GoTo(w, IF StatusOf(w) = "cancelled" THEN "returned" ELSE "cancelling")
  /\ UNCHANGED <<row, job, site, seen, attempts, mode, ticks, ops, touched, execs>>

\* return self.cancel(job_id), whose check may raise JobTerminalStateError
WorkerCancel(w) ==
  /\ pc[w] = "cancelling"
  /\ StatusOf(w) \notin NoRow
  /\ IF StatusOf(w) \in Cancellable
     THEN CallTransition(w, "cancel")
     ELSE GoTo(w, "raised") /\ UNCHANGED site
  /\ UNCHANGED <<row, job, seen, attempts, mode, ticks, ops, touched, execs>>

\* except TimeoutError, except Exception
Failed(w) ==
  /\ pc[w] = "failed"
  /\ StatusOf(w) \notin NoRow
  /\ IF StatusOf(w) = "cancelled"
     THEN GoTo(w, "result") /\ UNCHANGED site
     ELSE CallTransition(w, IF attempts[w] < MaxAttempts
                            THEN "retry_wait" ELSE "dead_letter")
  /\ UNCHANGED <<row, job, seen, attempts, mode, ticks, ops, touched, execs>>

RetryWait(w) ==
  /\ TransitionWrite(w, "retry_wait", "retry_wait", seen[w], "backoff")
  /\ UNCHANGED <<job, attempts, mode, ticks, ops, touched, execs>>

BackoffOver(w) ==
  /\ pc[w] = "backoff"
  /\ CallTransition(w, "requeue")
  /\ UNCHANGED <<row, job, seen, attempts, mode, ticks, ops, touched, execs>>

Requeue(w) ==
  /\ TransitionWrite(w, "requeue", "queued", seen[w], "result")
  /\ UNCHANGED <<job, attempts, mode, ticks, ops, touched, execs>>

DeadLetter(w) ==
  /\ TransitionWrite(w, "dead_letter", "dead_lettered", attempts[w], "raised")
  /\ UNCHANGED <<job, attempts, mode, ticks, ops, touched, execs>>

\* After the handler: one read of the status, then the succeeded transition.
Completed(w) ==
  /\ pc[w] = "completed"
  /\ StatusOf(w) \notin NoRow
  /\ IF StatusOf(w) = "cancelled"
     THEN GoTo(w, "result") /\ UNCHANGED site
     ELSE CallTransition(w, "succeed")
  /\ UNCHANGED <<row, job, seen, attempts, mode, ticks, ops, touched, execs>>

Succeed(w) ==
  /\ TransitionWrite(w, "succeed", "succeeded", attempts[w], "result")
  /\ UNCHANGED <<job, attempts, mode, ticks, ops, touched, execs>>

\* The get that ends _execute_backend_job: run loops if it reads queued, and
\* process_available returns whatever it reads.
Result(w) ==
  /\ pc[w] = "result"
  /\ StatusOf(w) \notin NoRow
  /\ GoTo(w, IF mode[w] = "run" /\ StatusOf(w) = "queued"
             THEN "poll" ELSE "returned")
  /\ UNCHANGED <<row, job, site, seen, attempts, mode, ticks, ops, touched, execs>>

\* run's except clause; process_available has none.
Raised(w) ==
  /\ pc[w] = "raised"
  /\ StatusOf(w) \notin NoRow
  /\ GoTo(w, IF mode[w] = "run" /\ StatusOf(w) \in {"queued", "retry_wait"}
             THEN "poll" ELSE "returned")
  /\ UNCHANGED <<row, job, site, seen, attempts, mode, ticks, ops, touched, execs>>

-----------------------------------------------------------------------------
ActorNext(a) ==
  \/ TransitionRead(a) \/ RowGone(a) \/ CancelWrite(a) \/ Return(a)

ClientNext(c) ==
  \/ EnqueueValidate(c) \/ EnqueueValidated(c) \/ EnqueueQueue(c)
  \/ RetryWrite(c) \/ DeleteRow(c)

Call(c, j) == Enqueue(c, j) \/ Cancel(c, j) \/ Retry(c, j) \/ Delete(c, j)

WorkerNext(w) ==
  \/ Poll(w) \/ Claim(w) \/ ClaimLost(w) \/ Dispatch(w) \/ ReadAttempts(w)
  \/ Start(w) \/ HandlerProgress(w) \/ Progress(w) \/ HandlerInterrupted(w)
  \/ HandlerEnds(w) \/ Interrupted(w) \/ WorkerCancel(w) \/ Failed(w)
  \/ RetryWait(w) \/ BackoffOver(w) \/ Requeue(w) \/ DeadLetter(w)
  \/ Completed(w) \/ Succeed(w) \/ Result(w) \/ Raised(w)

Next ==
  \/ \E c \in Clients, j \in Jobs : Call(c, j)
  \/ \E w \in Workers, j \in Jobs : Run(w, j) \/ ProcessAvailable(w, j)
  \/ \E c \in Clients : ClientNext(c)
  \/ \E w \in Workers : WorkerNext(w)
  \/ \E a \in Actors : ActorNext(a) \/ Crash(a)

Spec == Init /\ [][Next]_vars

-----------------------------------------------------------------------------
(* Fairness.  Threads are operating-system threads and every loop of the     *)
(* engine sleeps and tries again, so a thread that can take a step of its    *)
(* own takes one; handlers end, by assumption.  Nothing makes a caller call, *)
(* and nothing makes a thread start.                                         *)

Thread(a) ==
  \/ ActorNext(a)
  \/ a \in Clients /\ ClientNext(a)
  \/ a \in Workers /\ WorkerNext(a)

LiveSpec == Spec /\ \A a \in Actors : WF_vars(Thread(a))

-----------------------------------------------------------------------------
(* Properties.                                                               *)

\* Exclusive execution: two threads never stand between the claim and the
\* closing write of the same job, so its handler never runs twice at a time.
\* True without retry; with it, job_retry puts a cancelled row back to queued
\* while the cancelled handler is still running.
ExclusiveExecution ==
  \A j \in Jobs, v, w \in Workers :
    Executing(v, j) /\ Executing(w, j) => v = w

\* No orphan: a row that says running, dispatched or retry_wait has a thread
\* that is still going to change it.  Nothing but a live thread ever moves
\* such a row, and run waits for it without limit.  True until a thread dies:
\* nothing enforces claim_timeout_seconds.
NoOrphan ==
  Crashed = {} =>
    \A j \in Jobs :
      row[j].status \in {"running", "dispatched", "retry_wait"} =>
        \E w \in Workers : Executing(w, j)

\* The handler of a job that nobody cancels or retries is invoked at most
\* retry_max_attempts times, counted by invocations and not by the counter in
\* the row.  A cancel would put back the counter it read before.
AttemptsBounded == \A j \in Jobs \ touched : execs[j] <= MaxAttempts

\* A job that nobody cancels or retries is dead-lettered only after all its
\* attempts were really made.
DeadLetterExhausted ==
  \A j \in Jobs \ touched :
    row[j].status = "dead_lettered" => execs[j] = MaxAttempts

\* The settled row of a job that nobody cancels or retries never changes its
\* status again, except by being deleted.
SettledStays ==
  [][\A j \in Jobs \ touched :
       row[j].status \in Settled =>
         row'[j].status \in {row[j].status, "deleted"}]_vars

\* The contract of cancel, in its docstring: a job that succeeded or was
\* dead-lettered is not flipped to cancelled.
SettledNeverCancelled ==
  [][\A j \in Jobs :
       row[j].status \in {"succeeded", "dead_lettered"} =>
         row'[j].status # "cancelled"]_vars

\* Every call returns: no thread waits for ever in run, even if its job is
\* cancelled or deleted at any moment.
CallsReturn == \A a \in Actors : pc[a] # "idle" ~> pc[a] \in {"idle", "crashed"}

\* A job that some thread runs is settled or gone one day, whatever is cancelled
\* and retried.  Not so with a second worker in process_available: run may leave
\* on reading a cancel, and the other thread makes one attempt of the retry.
RunSettles ==
  \A j \in Jobs, w \in Workers :
    (job[w] = j /\ pc[w] = "poll") ~> row[j].status \in Settled \cup NoRow

=============================================================================
