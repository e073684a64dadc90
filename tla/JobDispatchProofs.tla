------------------------- MODULE JobDispatchProofs -------------------------
(***************************************************************************)
(* Theorems about JobDispatch: the service's threads are threads of the    *)
(* queue, so what is proved of JobQueue holds for them, and the registry   *)
(* of threads keeps execution exclusive even if jobs are retried.          *)
(***************************************************************************)
EXTENDS JobDispatch, JobQueueProofs

\* A client that is going to dispatch has a job to dispatch.
CallHasJob == \A c \in Clients : call[c].op = "dispatch" => call[c].job \in Jobs

DispatchTypeInv == TypeInv /\ DispatchTypeOK /\ CallHasJob

\* The inductive invariant: the registry names the thread of every job in progress.
DispatchInv == DispatchTypeInv /\ OneThreadPerJob

\* Every step of the service is a step of the queue, or none.
LEMMA DispatchIsQueue ==
  ASSUME DispatchTypeInv, [DispatchNext]_dispatchVars
  PROVE  [Next]_vars
<1>1. CASE UNCHANGED dispatchVars
  BY <1>1 DEF dispatchVars
<1>2. ASSUME NEW c \in Clients, NEW j \in Jobs,
             \/ SubmitJob(c, j) \/ JobRetry(c, j) \/ JobRetryQueued(c, j)
             \/ JobCancelOrDelete(c, j)
      PROVE  [Next]_vars
  BY <1>2 DEF SubmitJob, JobRetry, JobRetryQueued, JobCancelOrDelete, Next, Call
<1>3. ASSUME NEW a \in Actors, ServiceThread(a) PROVE [Next]_vars
  <2>1. CASE QueueStep(a)
    BY <2>1 DEF QueueStep, Next, ActorNext
  <2>2. CASE a \in Clients /\ QueueReturn(a)
    BY <2>2 DEF QueueReturn, Next, ActorNext
  <2>3. CASE a \in Clients /\ DispatchAsync(a)
    <3>1. CASE UNCHANGED vars
      BY <3>1
    <3>2. CASE \E w \in Workers : Run(w, call[a].job)
      BY <2>3, <3>2 DEF DispatchAsync, DispatchTypeInv, CallHasJob, Next
    <3> QED
      BY <2>3, <3>1, <3>2 DEF DispatchAsync
  <2>4. CASE a \in Workers /\ RunnerFinally(a)
    BY <2>4 DEF RunnerFinally, Next, ActorNext
  <2> QED
    BY <1>3, <2>1, <2>2, <2>3, <2>4 DEF ServiceThread
<1> QED
  BY <1>1, <1>2, <1>3 DEF DispatchNext

\* No step of a thread inside the queue changes what the thread works on.
LEMMA QueueStepKeepsJob ==
  ASSUME NEW a \in Actors, QueueStep(a)
  PROVE  job' = job
<1>1. CASE a \in Clients /\ ClientNext(a)
  BY <1>1 DEF ClientNext, EnqueueValidate, EnqueueValidated, EnqueueQueue,
              RetryWrite, DeleteRow
<1>2. CASE a \in Workers /\ WorkerNext(a)
  BY <1>2
     DEF WorkerNext, Poll, Claim, ClaimLost, Dispatch, ReadAttempts, Start,
         HandlerProgress, Progress, HandlerInterrupted, HandlerEnds,
         Interrupted, WorkerCancel, Failed, RetryWait, BackoffOver, Requeue,
         DeadLetter, Completed, Succeed, Result, Raised
<1>3. CASE TransitionRead(a) \/ RowGone(a) \/ CancelWrite(a)
  BY <1>3 DEF TransitionRead, RowGone, CancelWrite
<1> QED
  BY <1>1, <1>2, <1>3 DEF QueueStep

\* Every step preserves the invariant: a thread is entered for a job that has
\* none, and taken out by itself alone.
LEMMA DispatchStep == DispatchInv /\ [DispatchNext]_dispatchVars => DispatchInv'
<1> SUFFICES ASSUME DispatchInv, [DispatchNext]_dispatchVars PROVE DispatchInv'
  OBVIOUS
<1>t. TypeInv'
  BY DispatchIsQueue, TypeStep DEF DispatchInv, DispatchTypeInv
<1> USE DEF DispatchInv, DispatchTypeInv, DispatchTypeOK
<1>0. /\ job \in [Actors -> Jobs \cup {NoJob}]
      /\ Workers \subseteq Actors /\ Clients \subseteq Actors
      /\ \A w \in Workers : w \notin Clients
      /\ TypeOK'
  BY <1>t, JobQueueAssumption DEF TypeInv, TypeOK, Actors
<1>1. CASE UNCHANGED dispatchVars
  BY <1>1, <1>t DEF dispatchVars, vars, CallHasJob, OneThreadPerJob, TypeInv
<1>2. ASSUME NEW c \in Clients, NEW j \in Jobs,
             \/ SubmitJob(c, j) \/ JobRetry(c, j) \/ JobRetryQueued(c, j)
             \/ JobCancelOrDelete(c, j)
      PROVE  DispatchInv'
  <2>1. thread' = thread /\ \A w \in Workers : job'[w] = job[w]
    BY <1>0, <1>2
       DEF SubmitJob, JobRetry, JobRetryQueued, JobCancelOrDelete, Enqueue,
           Retry, Cancel, Delete, Begin, vars
  <2>2. call' \in [Clients -> [op : {"none", "submit", "retry", "dispatch"},
                               job : Jobs \cup {NoJob}]]
        /\ CallHasJob'
    BY <1>2 DEF SubmitJob, JobRetry, JobRetryQueued, JobCancelOrDelete, Calls,
                CallHasJob
  <2> QED
    BY <1>0, <1>t, <2>1, <2>2 DEF OneThreadPerJob
<1>3. ASSUME NEW a \in Actors, QueueStep(a) PROVE DispatchInv'
  BY <1>0, <1>t, <1>3, QueueStepKeepsJob DEF QueueStep, OneThreadPerJob, CallHasJob
<1>4. ASSUME NEW c \in Clients, QueueReturn(c) PROVE DispatchInv'
  <2>1. job[c] \in Jobs
    BY <1>0, <1>4 DEF QueueReturn, Return, TypeInv, Busy
  <2>2. thread' = thread /\ \A w \in Workers : job'[w] = job[w]
    BY <1>0, <1>4 DEF QueueReturn, Return
  <2>3. call' \in [Clients -> [op : {"none", "submit", "retry", "dispatch"},
                               job : Jobs \cup {NoJob}]]
        /\ CallHasJob'
    BY <1>4, <2>1 DEF QueueReturn, Calls, NoCall, CallHasJob
  <2> QED
    BY <1>0, <1>t, <2>2, <2>3 DEF OneThreadPerJob
<1>5. ASSUME NEW c \in Clients, DispatchAsync(c) PROVE DispatchInv'
  <2>1. call' \in [Clients -> [op : {"none", "submit", "retry", "dispatch"},
                               job : Jobs \cup {NoJob}]]
        /\ CallHasJob'
    BY <1>5 DEF DispatchAsync, NoCall, CallHasJob
  <2>2. CASE UNCHANGED <<vars, thread>>
    BY <1>0, <1>t, <2>1, <2>2 DEF vars, OneThreadPerJob
  <2>3. CASE ~ UNCHANGED <<vars, thread>>
    <3> DEFINE j == call[c].job
    <3>1. j \in Jobs /\ thread[j] = NoThread
      BY <1>5, <2>3 DEF DispatchAsync, CallHasJob
    <3>2. PICK w \in Workers : Run(w, j) /\ thread' = [thread EXCEPT ![j] = w]
      BY <1>5, <2>3 DEF DispatchAsync
    <3>3. job' = [job EXCEPT ![w] = j]
      BY <3>2 DEF Run
    <3>4. \A v \in Workers : job[v] # j
      BY <3>1, JobDispatchAssumption DEF OneThreadPerJob
    <3>5. OneThreadPerJob'
      BY <1>0, <3>1, <3>2, <3>3, <3>4 DEF OneThreadPerJob
    <3> QED
      BY <1>0, <1>t, <2>1, <3>1, <3>2, <3>5
  <2> QED
    BY <2>2, <2>3
<1>6. ASSUME NEW w \in Workers, RunnerFinally(w) PROVE DispatchInv'
  <2>1. job[w] \in Jobs /\ job' = [job EXCEPT ![w] = NoJob]
    BY <1>0, <1>6 DEF RunnerFinally, Return, TypeInv, Busy
  <2>2. thread[job[w]] = w
    BY <2>1 DEF OneThreadPerJob
  <2>3. thread' = [thread EXCEPT ![job[w]] = NoThread] /\ call' = call
    BY <1>6, <2>1, <2>2 DEF RunnerFinally
  <2>4. OneThreadPerJob'
    BY <1>0, <2>1, <2>2, <2>3, JobQueueAssumption DEF OneThreadPerJob
  <2> QED
    BY <1>0, <1>t, <2>1, <2>3, <2>4 DEF CallHasJob
<1> QED
  BY <1>1, <1>2, <1>3, <1>4, <1>5, <1>6 DEF DispatchNext, ServiceThread

\* The invariant holds in the initial state: no job has a thread.
LEMMA DispatchStart == DispatchInit => DispatchInv
<1> SUFFICES ASSUME DispatchInit PROVE DispatchInv
  OBVIOUS
<1>1. TypeInv
  BY InitType DEF DispatchInit
<1>2. OneThreadPerJob
  BY JobQueueAssumption DEF DispatchInit, Init, OneThreadPerJob, Actors
<1> QED
  BY <1>1, <1>2 DEF DispatchInit, DispatchInv, DispatchTypeInv, DispatchTypeOK,
     CallHasJob, NoCall, TypeInv

\* One process never has two threads in queue.run for one job, and the registry
\* names the one it has, with submit, cancel, retry and delete at any moment.
THEOREM RegistryNamesThread == DispatchSpec => []OneThreadPerJob
<1>1. DispatchInv => OneThreadPerJob
  BY DEF DispatchInv
<1> QED
  BY <1>1, DispatchStart, DispatchStep, PTL DEF DispatchSpec

\* So, other than in the queue alone, the handler of a job never runs twice at
\* a time even if the job is retried while its cancelled handler still runs.
THEOREM DispatchExclusive == DispatchSpec => []ExclusiveExecution
<1>1. OneThreadPerJob => ExclusiveExecution
  BY DEF OneThreadPerJob, ExclusiveExecution, Executing
<1> QED
  BY <1>1, RegistryNamesThread, PTL

\* The service uses the queue as the queue is specified: every behaviour of
\* JobDispatch is one of JobQueue, so its other theorems hold here as well.
THEOREM DispatchImplementsQueue == DispatchSpec => Spec
<1>1. DispatchInit => Init
  BY DEF DispatchInit
<1>2. DispatchInv /\ [DispatchNext]_dispatchVars => [Next]_vars
  BY DispatchIsQueue DEF DispatchInv
<1> QED
  BY <1>1, <1>2, DispatchStart, DispatchStep, PTL DEF DispatchSpec, Spec

=============================================================================
