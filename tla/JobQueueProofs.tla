--------------------------- MODULE JobQueueProofs ---------------------------
(***************************************************************************)
(* Theorems about JobQueue, for any number of jobs, workers and clients,   *)
(* in two parts.  The first is about every state: types, what a seen row   *)
(* says, and the refinement of JobLease.  The second, from "One thread,    *)
(* one job" on, is about what becomes of a row: no row is orphaned while   *)
(* no thread dies, and the attempts of a job that nobody cancels or        *)
(* retries are counted right, whatever is done to the others.              *)
(***************************************************************************)
EXTENDS JobQueueLease, TLAPS

-----------------------------------------------------------------------------
(* Types.                                                                    *)

TypeInv == TypeOK /\ Busy

\* A _transition write by any thread, to a label of its own choice, keeps the
\* types: the write touches one row, one seen and one pc.
LEMMA TransitionWriteType ==
  ASSUME TypeInv,
         NEW a \in Actors, NEW s, NEW status \in Status \ NoRow,
         NEW attempt \in Nat, NEW next \in Labels,
         TransitionWrite(a, s, status, attempt, next)
  PROVE  /\ row' \in [Jobs -> [status : Status, attempt : Nat]]
         /\ pc' \in [Actors -> Labels]
         /\ site' \in [Actors -> Sites]
         /\ seen' \in [Actors -> Nat]
         /\ job' = job => Busy'
<1> USE DEF TransitionWrite, GoTo, StatusOf
<1>1. pc' \in [Actors -> Labels] /\ site' \in [Actors -> Sites]
  BY DEF TypeInv, TypeOK, Sites
<1>2. seen' \in [Actors -> Nat]
  BY DEF TypeInv, TypeOK
<1>3. row' \in [Jobs -> [status : Status, attempt : Nat]]
  BY DEF TypeInv, TypeOK
<1>4. job' = job => Busy'
  BY DEF TypeInv, TypeOK, Busy
<1> QED
  BY <1>1, <1>2, <1>3, <1>4

\* Every step of every thread keeps the types, and that threads have jobs.
LEMMA TypeStep == TypeInv /\ [Next]_vars => TypeInv'
<1> SUFFICES ASSUME TypeInv, [Next]_vars PROVE TypeInv'
  OBVIOUS
<1> USE DEF TypeInv, TypeOK, Busy
<1>a. ASSUME NEW a \in Actors, ActorNext(a) \/ Crash(a) PROVE TypeInv'
  <2>1. CASE TransitionRead(a)
    BY <2>1 DEF TransitionRead, GoTo, StatusOf, Labels
  <2>2. CASE RowGone(a)
    BY <2>2 DEF RowGone, GoTo, StatusOf, Labels, Sites
  <2>3. CASE CancelWrite(a)
    <3>1. "cancelled" \in Status \ NoRow /\ seen[a] \in Nat
          /\ (IF a \in Workers THEN "result" ELSE "returned") \in Labels
      BY DEF Status, NoRow, Settled, Labels
    <3> QED
      BY <2>3, <3>1, TransitionWriteType DEF CancelWrite
  <2>4. CASE Return(a)
    BY <2>4 DEF Return, GoTo, Labels
  <2>5. CASE Crash(a)
    BY <2>5 DEF Crash, GoTo, Labels
  <2> QED
    BY <1>a, <2>1, <2>2, <2>3, <2>4, <2>5 DEF ActorNext
<1>c. ASSUME NEW c \in Clients, ClientNext(c) PROVE TypeInv'
  <2> c \in Actors
    BY DEF Actors
  <2>1. CASE EnqueueValidate(c)
    <3>1. "validated" \in Status \ NoRow /\ seen[c] \in Nat /\ "validated" \in Labels
      BY DEF Status, NoRow, Settled, Labels
    <3> QED
      BY <2>1, <3>1, TransitionWriteType DEF EnqueueValidate
  <2>2. CASE EnqueueValidated(c)
    BY <2>2 DEF EnqueueValidated, CallTransition, Labels, Sites
  <2>3. CASE EnqueueQueue(c)
    <3>1. "queued" \in Status \ NoRow /\ seen[c] \in Nat /\ "returned" \in Labels
      BY DEF Status, NoRow, Settled, Labels
    <3> QED
      BY <2>3, <3>1, TransitionWriteType DEF EnqueueQueue
  <2>4. CASE RetryWrite(c)
    <3>1. "queued" \in Status \ NoRow /\ "returned" \in Labels
      BY DEF Status, NoRow, Settled, Labels
    <3>2. execs' \in [Jobs -> Nat]
      BY <2>4 DEF RetryWrite
    <3> QED
      BY <2>4, <3>1, <3>2, TransitionWriteType DEF RetryWrite
  <2>5. CASE DeleteRow(c)
    BY <2>5 DEF DeleteRow, GoTo, Labels, Status, NoRow
  <2> QED
    BY <1>c, <2>1, <2>2, <2>3, <2>4, <2>5 DEF ClientNext
<1>k. ASSUME NEW c \in Clients, NEW j \in Jobs, Call(c, j) PROVE TypeInv'
  <2> c \in Actors
    BY DEF Actors
  <2>1. CASE Enqueue(c, j)
    BY <2>1 DEF Enqueue, CallTransition, Labels, Sites, Status
  <2>2. CASE Cancel(c, j)
    BY <2>2 DEF Cancel, Begin, CallTransition, Labels, Sites
  <2>3. CASE Retry(c, j)
    BY <2>3 DEF Retry, Begin, CallTransition, Labels, Sites
  <2>4. CASE Delete(c, j)
    BY <2>4 DEF Delete, Begin, GoTo, Labels
  <2> QED
    BY <1>k, <2>1, <2>2, <2>3, <2>4 DEF Call
<1>r. ASSUME NEW w \in Workers, NEW j \in Jobs, Run(w, j) \/ ProcessAvailable(w, j)
      PROVE  TypeInv'
  <2> w \in Actors
    BY DEF Actors
  <2>1. CASE Run(w, j)
    BY <2>1 DEF Run, GoTo, Labels
  <2>2. CASE ProcessAvailable(w, j)
    BY <2>2 DEF ProcessAvailable, GoTo, Labels
  <2> QED
    BY <1>r, <2>1, <2>2
<1>w. ASSUME NEW w \in Workers, WorkerNext(w) PROVE TypeInv'
  <2> w \in Actors
    BY DEF Actors
  <2>1. CASE Poll(w)
    BY <2>1 DEF Poll, GoTo, StatusOf, Labels
  <2>2. CASE Claim(w)
    <3>1. row' \in [Jobs -> [status : Status, attempt : Nat]]
      BY <2>2 DEF Claim, StatusOf, Status
    <3>2. pc' \in [Actors -> Labels] /\ site' \in [Actors -> Sites] /\ Busy'
      BY <2>2 DEF Claim, GoTo, CallTransition, Labels, Sites
    <3> QED
      BY <2>2, <3>1, <3>2 DEF Claim
  <2>3. CASE ClaimLost(w)
    BY <2>3 DEF ClaimLost, GoTo, StatusOf, Labels
  <2>4. CASE ReadAttempts(w)
    BY <2>4 DEF ReadAttempts, CallTransition, StatusOf, Labels, Sites
  <2>5. CASE HandlerProgress(w)
    BY <2>5 DEF HandlerProgress, CallTransition, Labels, Sites
  <2>6. CASE HandlerInterrupted(w)
    BY <2>6 DEF HandlerInterrupted, GoTo, StatusOf, Labels
  <2>7. CASE HandlerEnds(w)
    BY <2>7 DEF HandlerEnds, GoTo, Labels
  <2>8. CASE Interrupted(w)
    BY <2>8 DEF Interrupted, GoTo, StatusOf, Labels
  <2>9. CASE WorkerCancel(w)
    BY <2>9 DEF WorkerCancel, GoTo, CallTransition, StatusOf, Labels, Sites
  <2>10. CASE Failed(w)
    BY <2>10 DEF Failed, GoTo, CallTransition, StatusOf, Labels, Sites
  <2>11. CASE BackoffOver(w)
    BY <2>11 DEF BackoffOver, CallTransition, Labels, Sites
  <2>12. CASE Completed(w)
    BY <2>12 DEF Completed, GoTo, CallTransition, StatusOf, Labels, Sites
  <2>13. CASE Result(w)
    BY <2>13 DEF Result, GoTo, StatusOf, Labels
  <2>14. CASE Raised(w)
    BY <2>14 DEF Raised, GoTo, StatusOf, Labels
  <2>15. CASE Dispatch(w)
    <3>1. "dispatched" \in Status \ NoRow /\ seen[w] \in Nat /\ "attempts" \in Labels
      BY DEF Status, NoRow, Settled, Labels
    <3> QED
      BY <2>15, <3>1, TransitionWriteType DEF Dispatch
  <2>16. CASE Start(w)
    <3>1. "running" \in Status \ NoRow /\ attempts[w] \in Nat /\ "handler" \in Labels
      BY DEF Status, NoRow, Settled, Labels
    <3>2. job[w] \in Jobs /\ execs[job[w]] \in Nat
      BY <2>16 DEF Start, TransitionWrite
    <3>3. execs' \in [Jobs -> Nat] /\ ticks' \in [Actors -> Nat]
      BY <2>16, <3>2, JobQueueAssumption DEF Start
    <3> QED
      BY <2>16, <3>1, <3>3, TransitionWriteType DEF Start
  <2>17. CASE Progress(w)
    <3>1. StatusOf(w) \in Status \ NoRow /\ seen[w] \in Nat /\ "handler" \in Labels
      BY <2>17 DEF Status, NoRow, Settled, Labels, Progress, StatusOf, TransitionWrite
    <3> QED
      BY <2>17, <3>1, TransitionWriteType DEF Progress
  <2>18. CASE RetryWait(w)
    <3>1. "retry_wait" \in Status \ NoRow /\ seen[w] \in Nat /\ "backoff" \in Labels
      BY DEF Status, NoRow, Settled, Labels
    <3> QED
      BY <2>18, <3>1, TransitionWriteType DEF RetryWait
  <2>19. CASE Requeue(w)
    <3>1. "queued" \in Status \ NoRow /\ seen[w] \in Nat /\ "result" \in Labels
      BY DEF Status, NoRow, Settled, Labels
    <3> QED
      BY <2>19, <3>1, TransitionWriteType DEF Requeue
  <2>20. CASE DeadLetter(w)
    <3>1. "dead_lettered" \in Status \ NoRow /\ attempts[w] \in Nat /\ "raised" \in Labels
      BY DEF Status, NoRow, Settled, Labels
    <3> QED
      BY <2>20, <3>1, TransitionWriteType DEF DeadLetter
  <2>21. CASE Succeed(w)
    <3>1. "succeeded" \in Status \ NoRow /\ attempts[w] \in Nat /\ "result" \in Labels
      BY DEF Status, NoRow, Settled, Labels
    <3> QED
      BY <2>21, <3>1, TransitionWriteType DEF Succeed
  <2> QED
    BY <1>w, <2>1, <2>2, <2>3, <2>4, <2>5, <2>6, <2>7, <2>8, <2>9, <2>10,
       <2>11, <2>12, <2>13, <2>14, <2>15, <2>16, <2>17, <2>18, <2>19, <2>20,
       <2>21 DEF WorkerNext
<1>s. CASE UNCHANGED vars
  BY <1>s DEF vars
<1> QED
  BY <1>a, <1>c, <1>k, <1>r, <1>w, <1>s DEF Next

\* The initial state is well typed.
LEMMA InitType == Init => TypeInv
  BY DEF Init, TypeInv, TypeOK, Busy, Status, NoRow, Labels, Sites

\* Type correctness of the queue, and that no thread is ever inside a call
\* without a job, for every set of jobs, workers and clients and every bound.
THEOREM TypeCorrect == Spec => [](TypeOK /\ Busy)
<1> QED
  BY InitType, TypeStep, PTL DEF Spec, TypeInv

-----------------------------------------------------------------------------
(* Exclusive execution.  Most steps are quiet: nobody starts to execute or   *)
(* to enqueue a job, and no row becomes queued.  A quiet step preserves the  *)
(* invariant whatever else it does; four kinds of steps are not quiet.       *)

Quiet ==
  /\ \A w \in Workers, j \in Jobs : Executing(w, j)' => Executing(w, j)
  /\ \A c \in Clients, j \in Jobs : Enqueuing(c, j)' => Enqueuing(c, j)
  /\ \A j \in Jobs : \/ row'[j].status = row[j].status
                     \/ row'[j].status \notin {"absent", "queued"}
  /\ \A j \in Jobs, c \in Clients :
       Enqueuing(c, j) =>
         row'[j].status \in {"created", "validated", "cancelled", "deleted"}
  /\ NoRetryCall'

\* A quiet step preserves the invariant.
LEMMA QuietStep == LeaseInv /\ TypeInv' /\ Quiet => LeaseInv'
  BY DEF LeaseInv, TypeInv, Quiet, ExclusiveExecution, HeldNotQueued,
         EnqueuingUntouched

\* A worker that moves without writing a row is quiet, unless it starts to
\* execute.
LEMMA QuietMove ==
  ASSUME LeaseInv, NEW w \in Workers, NEW label, NEW s,
         row' = row, job' = job,
         pc' = [pc EXCEPT ![w] = label],
         site' = site \/ site' = [site EXCEPT ![w] = s],
         label \in ExecutionLabels => pc[w] \in ExecutionLabels
  PROVE  Quiet
<1> w \in Actors /\ w \notin Clients
  BY JobQueueAssumption DEF Actors
<1>1. \A v \in Workers, j \in Jobs : Executing(v, j)' => Executing(v, j)
  BY DEF Executing, LeaseInv, TypeOK
<1>2. \A c \in Clients : c # w /\ c \in Actors
  BY DEF Actors
<1>3. \A c \in Clients : pc'[c] = pc[c] /\ site'[c] = site[c]
  BY <1>2 DEF LeaseInv, TypeOK
<1>4. (\A c \in Clients, j \in Jobs : Enqueuing(c, j)' => Enqueuing(c, j))
      /\ NoRetryCall'
  BY <1>3 DEF Enqueuing, NoRetryCall, LeaseInv
<1> QED
  BY <1>1, <1>4 DEF Quiet, LeaseInv, EnqueuingUntouched

\* Of a worker's steps only Claim and Requeue are not quiet.
LEMMA QuietWorker ==
  ASSUME LeaseInv, NEW w \in Workers, WorkerNext(w), ~ Claim(w), ~ Requeue(w)
  PROVE  Quiet
<1> w \in Actors /\ w \notin Clients
  BY JobQueueAssumption DEF Actors
<1>1. CASE Poll(w)
  BY <1>1, QuietMove DEF Poll, GoTo, ExecutionLabels
<1>2. CASE ClaimLost(w)
  BY <1>2, QuietMove DEF ClaimLost, GoTo, ExecutionLabels
<1>3. CASE ReadAttempts(w)
  BY <1>3, QuietMove DEF ReadAttempts, CallTransition, ExecutionLabels
<1>4. CASE HandlerProgress(w)
  BY <1>4, QuietMove DEF HandlerProgress, CallTransition, ExecutionLabels
<1>5. CASE HandlerInterrupted(w)
  BY <1>5, QuietMove DEF HandlerInterrupted, GoTo, ExecutionLabels
<1>6. CASE HandlerEnds(w)
  <2>1. CASE GoTo(w, "completed")
    BY <1>6, <2>1, QuietMove DEF HandlerEnds, GoTo, ExecutionLabels
  <2>2. CASE GoTo(w, "failed")
    BY <1>6, <2>2, QuietMove DEF HandlerEnds, GoTo, ExecutionLabels
  <2> QED
    BY <1>6, <2>1, <2>2 DEF HandlerEnds
<1>7. CASE Interrupted(w)
  BY <1>7, QuietMove DEF Interrupted, GoTo, ExecutionLabels
<1>8. CASE WorkerCancel(w)
  BY <1>8, QuietMove DEF WorkerCancel, GoTo, CallTransition, ExecutionLabels
<1>9. CASE Failed(w)
  BY <1>9, QuietMove DEF Failed, GoTo, CallTransition, ExecutionLabels
<1>10. CASE BackoffOver(w)
  BY <1>10, QuietMove DEF BackoffOver, CallTransition, ExecutionLabels
<1>11. CASE Completed(w)
  BY <1>11, QuietMove DEF Completed, GoTo, CallTransition, ExecutionLabels
<1>12. CASE Result(w)
  BY <1>12, QuietMove DEF Result, GoTo, ExecutionLabels
<1>13. CASE Raised(w)
  BY <1>13, QuietMove DEF Raised, GoTo, ExecutionLabels
<1>14. CASE Dispatch(w)
  BY <1>14 DEF Dispatch, TransitionWrite, GoTo, StatusOf,
     Quiet, LeaseInv, HeldNotQueued, EnqueuingUntouched, NoRetryCall,
     TypeOK, Busy, Executing, ExecutionLabels, Enqueuing
<1>15. CASE Start(w)
  BY <1>15 DEF Start, TransitionWrite, GoTo, StatusOf,
     Quiet, LeaseInv, HeldNotQueued, EnqueuingUntouched, NoRetryCall,
     TypeOK, Busy, Executing, ExecutionLabels, Enqueuing
<1>16. CASE Progress(w)
  BY <1>16 DEF Progress, TransitionWrite, GoTo, StatusOf,
     Quiet, LeaseInv, HeldNotQueued, EnqueuingUntouched, NoRetryCall,
     TypeOK, Busy, Executing, ExecutionLabels, Enqueuing
<1>17. CASE RetryWait(w)
  BY <1>17 DEF RetryWait, TransitionWrite, GoTo, StatusOf,
     Quiet, LeaseInv, HeldNotQueued, EnqueuingUntouched, NoRetryCall,
     TypeOK, Busy, Executing, ExecutionLabels, Enqueuing
<1>18. CASE DeadLetter(w)
  BY <1>18 DEF DeadLetter, TransitionWrite, GoTo, StatusOf,
     Quiet, LeaseInv, HeldNotQueued, EnqueuingUntouched, NoRetryCall,
     TypeOK, Busy, Executing, ExecutionLabels, Enqueuing
<1>19. CASE Succeed(w)
  BY <1>19 DEF Succeed, TransitionWrite, GoTo, StatusOf,
     Quiet, LeaseInv, HeldNotQueued, EnqueuingUntouched, NoRetryCall,
     TypeOK, Busy, Executing, ExecutionLabels, Enqueuing
<1> QED
  BY <1>1, <1>2, <1>3, <1>4, <1>5, <1>6, <1>7, <1>8, <1>9, <1>10, <1>11,
     <1>12, <1>13, <1>14, <1>15, <1>16, <1>17, <1>18, <1>19 DEF WorkerNext

\* The steps that every thread has, and its death, are quiet.
LEMMA QuietActor ==
  ASSUME LeaseInv, NEW a \in Actors, ActorNext(a) \/ Crash(a)
  PROVE  Quiet
<1> USE DEF Quiet, LeaseInv, HeldNotQueued, EnqueuingUntouched, NoRetryCall,
            TypeOK, Busy, Executing, ExecutionLabels, Enqueuing
<1>1. CASE TransitionRead(a)
  BY <1>1 DEF TransitionRead, GoTo
<1>2. CASE RowGone(a)
  BY <1>2 DEF RowGone, GoTo
<1>3. CASE CancelWrite(a)
  BY <1>3 DEF CancelWrite, TransitionWrite, GoTo, StatusOf
<1>4. CASE Return(a)
  BY <1>4 DEF Return, GoTo
<1>5. CASE Crash(a)
  BY <1>5 DEF Crash, GoTo
<1> QED
  BY <1>1, <1>2, <1>3, <1>4, <1>5 DEF ActorNext

\* Of a client's own steps only the write that queues the job is not quiet.
LEMMA QuietClient ==
  ASSUME LeaseInv, NEW c \in Clients, ClientNext(c), ~ EnqueueQueue(c)
  PROVE  Quiet
<1> USE DEF Quiet, LeaseInv, HeldNotQueued, EnqueuingUntouched, NoRetryCall,
            TypeOK, Busy, Executing, ExecutionLabels, Enqueuing
<1> c \in Actors /\ c \notin Workers
  BY JobQueueAssumption DEF Actors
<1>1. CASE EnqueueValidate(c)
  BY <1>1 DEF EnqueueValidate, TransitionWrite, GoTo, StatusOf
<1>2. CASE EnqueueValidated(c)
  BY <1>2 DEF EnqueueValidated, CallTransition
<1>3. CASE RetryWrite(c)
  BY <1>3 DEF RetryWrite, TransitionWrite
<1>4. CASE DeleteRow(c)
  BY <1>4 DEF DeleteRow, GoTo
<1> QED
  BY <1>1, <1>2, <1>3, <1>4 DEF ClientNext

\* Of the client calls only Enqueue is not quiet, when nobody calls retry.
LEMMA QuietCall ==
  ASSUME LeaseInv, "retry" \notin Ops, NEW c \in Clients, NEW j \in Jobs,
         Call(c, j), ~ Enqueue(c, j)
  PROVE  Quiet
<1> USE DEF Quiet, LeaseInv, HeldNotQueued, EnqueuingUntouched, NoRetryCall,
            TypeOK, Busy, Executing, ExecutionLabels, Enqueuing
<1> c \in Actors /\ c \notin Workers
  BY JobQueueAssumption DEF Actors
<1>1. CASE Cancel(c, j)
  BY <1>1 DEF Cancel, Begin, CallTransition
<1>2. CASE Retry(c, j)
  BY <1>2 DEF Retry, Begin
<1>3. CASE Delete(c, j)
  BY <1>3 DEF Delete, Begin, GoTo
<1> QED
  BY <1>1, <1>2, <1>3 DEF Call

\* Entering run or process_available is quiet: the claim comes later.
LEMMA QuietRun ==
  ASSUME LeaseInv, NEW w \in Workers, NEW j \in Jobs,
         Run(w, j) \/ ProcessAvailable(w, j)
  PROVE  Quiet
<1> USE DEF Quiet, LeaseInv, HeldNotQueued, EnqueuingUntouched, NoRetryCall,
            TypeOK, Busy, Executing, ExecutionLabels, Enqueuing
<1> w \in Actors /\ w \notin Clients
  BY JobQueueAssumption DEF Actors
<1>1. CASE Run(w, j)
  BY <1>1 DEF Run, GoTo
<1>2. CASE ProcessAvailable(w, j)
  BY <1>2 DEF ProcessAvailable, GoTo
<1> QED
  BY <1>1, <1>2

\* The four steps that are not quiet.  A claim needs a queued row, and such a
\* row is neither executed nor being enqueued.
LEMMA ClaimStep ==
  ASSUME LeaseInv, TypeInv', NEW w \in Workers, Claim(w)
  PROVE  LeaseInv'
<1> w \in Actors /\ w \notin Clients /\ job[w] \in Jobs
  BY JobQueueAssumption DEF Actors, Claim, LeaseInv, Busy
<1>0. job' = job /\ \A a \in Actors : a # w => pc'[a] = pc[a]
  BY DEF Claim, CallTransition, GoTo, LeaseInv, TypeOK
<1>1. \A v \in Workers, j \in Jobs :
        Executing(v, j)' => \/ Executing(v, j) /\ v # w
                            \/ v = w /\ j = job[w]
  BY <1>0 DEF Executing, Actors
<1>2. row[job[w]].status = "queued" /\ row'[job[w]].status = "running"
      /\ \A j \in Jobs : j # job[w] => row'[j] = row[j]
  BY DEF Claim, StatusOf, LeaseInv, TypeOK
<1>3. \A v \in Workers : ~ Executing(v, job[w])
  BY <1>2 DEF LeaseInv, HeldNotQueued
<1>4. \A c \in Clients : ~ Enqueuing(c, job[w])
  BY <1>2 DEF LeaseInv, EnqueuingUntouched
<1>5. ExclusiveExecution'
  BY <1>1, <1>3 DEF LeaseInv, ExclusiveExecution
<1>6. HeldNotQueued'
  BY <1>1, <1>2, <1>3 DEF LeaseInv, HeldNotQueued
<1>7. \A c \in Clients : c \in Actors /\ c # w
  BY DEF Actors
<1>8. \A c \in Clients : pc'[c] = pc[c] /\ site'[c] = site[c] /\ job'[c] = job[c]
  BY <1>7 DEF Claim, CallTransition, GoTo, LeaseInv, TypeOK
<1>9. (\A c \in Clients, j \in Jobs : Enqueuing(c, j)' => Enqueuing(c, j))
      /\ NoRetryCall'
  BY <1>8 DEF Enqueuing, NoRetryCall, LeaseInv
<1>10. EnqueuingUntouched'
  BY <1>1, <1>2, <1>4, <1>9 DEF LeaseInv, EnqueuingUntouched
<1> QED
  BY <1>5, <1>6, <1>9, <1>10 DEF LeaseInv, TypeInv

\* Requeue ends the execution that did it, and there was no other.
LEMMA RequeueStep ==
  ASSUME LeaseInv, TypeInv', NEW w \in Workers, Requeue(w)
  PROVE  LeaseInv'
<1> w \in Actors /\ w \notin Clients /\ job[w] \in Jobs
  BY JobQueueAssumption
     DEF Actors, Requeue, TransitionWrite, LeaseInv, Busy
<1>0. job' = job
  BY DEF Requeue
<1>1. Executing(w, job[w]) /\ \A j \in Jobs : ~ Executing(w, j)'
  BY DEF Requeue, TransitionWrite, GoTo, Executing, ExecutionLabels, LeaseInv,
         TypeOK
<1>2. \A v \in Workers, j \in Jobs : Executing(v, j)' => Executing(v, j)
  BY <1>1 DEF Requeue, TransitionWrite, GoTo, Executing, LeaseInv, TypeOK
<1>3. \A v \in Workers : ~ Executing(v, job[w])'
  BY <1>0, <1>1, <1>2 DEF LeaseInv, ExclusiveExecution
<1>4. \A j \in Jobs : j # job[w] => row'[j] = row[j]
  BY DEF Requeue, TransitionWrite, LeaseInv, TypeOK
<1>5. \A c \in Clients : ~ Enqueuing(c, job[w])
  BY <1>1 DEF LeaseInv, EnqueuingUntouched
<1>6. \A c \in Clients : c \in Actors /\ c # w
  BY DEF Actors
<1>7. \A c \in Clients : pc'[c] = pc[c] /\ site'[c] = site[c] /\ job'[c] = job[c]
  BY <1>6 DEF Requeue, TransitionWrite, GoTo, LeaseInv, TypeOK
<1>8. (\A c \in Clients, j \in Jobs : Enqueuing(c, j)' => Enqueuing(c, j))
      /\ NoRetryCall'
  BY <1>7 DEF Enqueuing, NoRetryCall, LeaseInv
<1>9. ExclusiveExecution' /\ HeldNotQueued'
  BY <1>0, <1>2, <1>3, <1>4 DEF LeaseInv, ExclusiveExecution, HeldNotQueued
<1>10. EnqueuingUntouched'
  BY <1>2, <1>4, <1>5, <1>8 DEF LeaseInv, EnqueuingUntouched
<1> QED
  BY <1>8, <1>9, <1>10 DEF LeaseInv, TypeInv

\* An insert needs an absent row, which nobody executes or enqueues.
LEMMA EnqueueStep ==
  ASSUME LeaseInv, TypeInv', NEW c \in Clients, NEW j \in Jobs, Enqueue(c, j)
  PROVE  LeaseInv'
<1> c \in Actors /\ c \notin Workers
  BY JobQueueAssumption DEF Actors
<1>1. row[j].status = "absent" /\ row'[j].status = "created"
      /\ \A i \in Jobs : i # j => row'[i] = row[i]
  BY DEF Enqueue, LeaseInv, TypeOK
<1>2. \A w \in Workers : w \in Actors /\ w # c
  BY DEF Actors
<1>3. \A w \in Workers, i \in Jobs : Executing(w, i)' <=> Executing(w, i)
  BY <1>2 DEF Enqueue, CallTransition, Executing, LeaseInv, TypeOK
<1>4. \A w \in Workers : ~ Executing(w, j)
  BY <1>1 DEF LeaseInv, HeldNotQueued
<1>5. \A d \in Clients : ~ Enqueuing(d, j)
  BY <1>1 DEF LeaseInv, EnqueuingUntouched
<1>6. \A d \in Clients, i \in Jobs :
        Enqueuing(d, i)' => \/ d # c /\ Enqueuing(d, i)
                            \/ d = c /\ i = j
  BY DEF Enqueue, CallTransition, Enqueuing, LeaseInv, TypeOK, Actors
<1>7. NoRetryCall'
  BY DEF Enqueue, CallTransition, NoRetryCall, LeaseInv, TypeOK, Actors
<1>8. ExclusiveExecution' /\ HeldNotQueued'
  BY <1>1, <1>3, <1>4 DEF LeaseInv, ExclusiveExecution, HeldNotQueued
<1>9. EnqueuingUntouched'
  BY <1>1, <1>3, <1>4, <1>5, <1>6 DEF LeaseInv, EnqueuingUntouched
<1> QED
  BY <1>7, <1>8, <1>9 DEF LeaseInv, TypeInv

\* The enqueue that queues a job has it to itself.
LEMMA EnqueueQueueStep ==
  ASSUME LeaseInv, TypeInv', NEW c \in Clients, EnqueueQueue(c)
  PROVE  LeaseInv'
<1> c \in Actors /\ c \notin Workers /\ job[c] \in Jobs
  BY JobQueueAssumption
     DEF Actors, EnqueueQueue, TransitionWrite, LeaseInv, Busy
<1>0. job' = job
  BY DEF EnqueueQueue
<1>1. Enqueuing(c, job[c])
  BY DEF EnqueueQueue, TransitionWrite, Enqueuing
<1>2. \A w \in Workers : w \in Actors /\ w # c
  BY DEF Actors
<1>3. \A w \in Workers, j \in Jobs : Executing(w, j)' <=> Executing(w, j)
  BY <1>2 DEF EnqueueQueue, TransitionWrite, GoTo, Executing, LeaseInv, TypeOK
<1>4. \A w \in Workers : ~ Executing(w, job[c])
  BY <1>1 DEF LeaseInv, EnqueuingUntouched
<1>5. \A j \in Jobs : j # job[c] => row'[j] = row[j]
  BY DEF EnqueueQueue, TransitionWrite, LeaseInv, TypeOK
<1>6. \A d \in Clients, j \in Jobs :
        Enqueuing(d, j)' => d # c /\ Enqueuing(d, j)
  BY DEF EnqueueQueue, TransitionWrite, GoTo, Enqueuing, LeaseInv, TypeOK, Actors
<1>7. \A d \in Clients : ~ Enqueuing(d, job[c])'
  BY <1>0, <1>1, <1>6 DEF LeaseInv, EnqueuingUntouched
<1>8. NoRetryCall'
  BY DEF EnqueueQueue, TransitionWrite, GoTo, NoRetryCall, LeaseInv, TypeOK, Actors
<1>9. ExclusiveExecution' /\ HeldNotQueued'
  BY <1>3, <1>4, <1>5 DEF LeaseInv, ExclusiveExecution, HeldNotQueued
<1>10. EnqueuingUntouched'
  BY <1>0, <1>3, <1>5, <1>6, <1>7 DEF LeaseInv, EnqueuingUntouched
<1> QED
  BY <1>8, <1>9, <1>10 DEF LeaseInv, TypeInv

\* Every step preserves the invariant, when nobody calls retry.
LEMMA LeaseStep ==
  ASSUME "retry" \notin Ops
  PROVE  LeaseInv /\ [Next]_vars => LeaseInv'
<1> SUFFICES ASSUME LeaseInv, [Next]_vars PROVE LeaseInv'
  OBVIOUS
<1>t. TypeInv'
  BY TypeStep DEF LeaseInv, TypeInv
<1>a. ASSUME NEW a \in Actors, ActorNext(a) \/ Crash(a) PROVE LeaseInv'
  BY <1>a, <1>t, QuietActor, QuietStep
<1>c. ASSUME NEW c \in Clients, ClientNext(c) PROVE LeaseInv'
  BY <1>c, <1>t, QuietClient, QuietStep, EnqueueQueueStep
<1>k. ASSUME NEW c \in Clients, NEW j \in Jobs, Call(c, j) PROVE LeaseInv'
  BY <1>k, <1>t, QuietCall, QuietStep, EnqueueStep
<1>r. ASSUME NEW w \in Workers, NEW j \in Jobs, Run(w, j) \/ ProcessAvailable(w, j)
      PROVE  LeaseInv'
  BY <1>r, <1>t, QuietRun, QuietStep
<1>w. ASSUME NEW w \in Workers, WorkerNext(w) PROVE LeaseInv'
  BY <1>w, <1>t, QuietWorker, QuietStep, ClaimStep, RequeueStep
<1>s. CASE UNCHANGED vars
  BY <1>s DEF vars, LeaseInv, TypeOK, Busy, ExclusiveExecution, HeldNotQueued,
              EnqueuingUntouched, NoRetryCall, Executing, Enqueuing
<1> QED
  BY <1>a, <1>c, <1>k, <1>r, <1>w, <1>s DEF Next

\* The invariant holds in the initial state.
LEMMA LeaseStart == Init => LeaseInv
<1> SUFFICES ASSUME Init PROVE LeaseInv
  OBVIOUS
<1>1. TypeOK /\ Busy
  BY InitType DEF TypeInv
<1>2. \A w \in Workers : pc[w] = "idle"
  BY DEF Init, Actors
<1>3. \A c \in Clients : pc[c] = "idle"
  BY DEF Init, Actors
<1>4. \A j \in Jobs, w \in Workers : ~ Executing(w, j)
  BY <1>2 DEF Executing, ExecutionLabels
<1>5. \A j \in Jobs, c \in Clients : ~ Enqueuing(c, j)
  BY <1>3 DEF Enqueuing
<1> QED
  BY <1>1, <1>3, <1>4, <1>5 DEF LeaseInv, ExclusiveExecution, HeldNotQueued,
     EnqueuingUntouched, NoRetryCall

\* If no client calls retry, a job in execution is neither queued nor absent,
\* and a job that is being enqueued is nobody else's, in every reachable state.
THEOREM LeaseInvariant ==
  ASSUME "retry" \notin Ops
  PROVE  Spec => []LeaseInv
<1>1. LeaseInv /\ [Next]_vars => LeaseInv'
  BY LeaseStep
<1> QED
  BY <1>1, LeaseStart, PTL DEF Spec

\* If no client calls retry, the handler of a job never runs twice at a time:
\* whatever is cancelled or deleted when, however many threads run or poll the
\* job, and wherever threads die.
THEOREM Exclusive ==
  ASSUME "retry" \notin Ops
  PROVE  Spec => []ExclusiveExecution
<1>1. LeaseInv => ExclusiveExecution
  BY DEF LeaseInv
<1> QED
  BY <1>1, LeaseInvariant, PTL

-----------------------------------------------------------------------------
(* One thread, one job.  A step of Next is a step of one thread on one job,  *)
(* and touches nothing of the other threads and of the other jobs.           *)

\* Thread a takes a step that is about job k.
StepOf(a, k) ==
  \/ /\ a \in Clients
     /\ Call(a, k)
  \/ /\ a \in Workers
     /\ Run(a, k) \/ ProcessAvailable(a, k)
  \/ /\ job[a] = k
     /\ \/ a \in Clients /\ ClientNext(a)
        \/ a \in Workers /\ WorkerNext(a)
        \/ ActorNext(a) \/ Crash(a)

\* What such a step leaves alone, and that it is about k before and after.
Apart(a, k) ==
  /\ \A b \in Actors \ {a} :
       /\ pc'[b] = pc[b] /\ job'[b] = job[b] /\ site'[b] = site[b]
       /\ seen'[b] = seen[b] /\ attempts'[b] = attempts[b]
  /\ \A i \in Jobs \ {k} : row'[i] = row[i] /\ execs'[i] = execs[i]
  /\ job[a] = k \/ pc[a] = "idle"
  /\ job'[a] = k \/ pc'[a] = "idle"
  /\ touched \subseteq touched'

\* A thread inside a call has a job, so every step is a step on some job.
LEMMA NextIsStep ==
  ASSUME TypeInv, Next
  PROVE  \E a \in Actors, k \in Jobs : StepOf(a, k)
<1>1. \A w \in Workers : WorkerNext(w) => pc[w] # "idle"
  BY DEF WorkerNext, Poll, Claim, ClaimLost, Dispatch, ReadAttempts, Start,
         HandlerProgress, Progress, HandlerInterrupted, HandlerEnds,
         Interrupted, WorkerCancel, Failed, RetryWait, BackoffOver, Requeue,
         DeadLetter, Completed, Succeed, Result, Raised, TransitionWrite
<1>2. \A c \in Clients : ClientNext(c) => pc[c] # "idle"
  BY DEF ClientNext, EnqueueValidate, EnqueueValidated, EnqueueQueue,
         RetryWrite, DeleteRow, TransitionWrite
<1>3. \A a \in Actors : ActorNext(a) \/ Crash(a) => pc[a] # "idle"
  BY DEF ActorNext, TransitionRead, RowGone, CancelWrite, Return, Crash,
         TransitionWrite
<1>4. \A a \in Actors : pc[a] # "idle" => job[a] \in Jobs
  BY DEF TypeInv, Busy
<1>5. Workers \subseteq Actors /\ Clients \subseteq Actors
  BY DEF Actors
<1> QED
  BY <1>1, <1>2, <1>3, <1>4, <1>5 DEF Next, StepOf

\* A step leaves the other threads and the other jobs alone.
LEMMA StepApart ==
  ASSUME TypeInv, NEW a \in Actors, NEW k \in Jobs, StepOf(a, k)
  PROVE  Apart(a, k)
<1> USE DEF TypeInv, TypeOK, Apart
<1>1. CASE a \in Clients /\ Call(a, k)
  BY <1>1 DEF Call, Enqueue, Cancel, Retry, Delete, Begin, CallTransition, GoTo
<1>2. CASE a \in Workers /\ (Run(a, k) \/ ProcessAvailable(a, k))
  BY <1>2 DEF Run, ProcessAvailable, GoTo
<1>3. CASE job[a] = k /\ a \in Clients /\ ClientNext(a)
  <2>1. CASE EnqueueValidate(a)
    BY <1>3, <2>1 DEF EnqueueValidate, TransitionWrite, GoTo
  <2>2. CASE EnqueueValidated(a)
    BY <1>3, <2>2 DEF EnqueueValidated, CallTransition
  <2>3. CASE EnqueueQueue(a)
    BY <1>3, <2>3 DEF EnqueueQueue, TransitionWrite, GoTo
  <2>4. CASE RetryWrite(a)
    BY <1>3, <2>4 DEF RetryWrite, TransitionWrite, GoTo
  <2>5. CASE DeleteRow(a)
    BY <1>3, <2>5 DEF DeleteRow, GoTo
  <2> QED
    BY <1>3, <2>1, <2>2, <2>3, <2>4, <2>5 DEF ClientNext
<1>4. CASE job[a] = k /\ a \in Workers /\ WorkerNext(a)
  <2>1. CASE Poll(a) \/ ClaimLost(a) \/ HandlerInterrupted(a) \/ HandlerEnds(a)
             \/ Interrupted(a) \/ Result(a) \/ Raised(a)
    BY <1>4, <2>1 DEF Poll, ClaimLost, HandlerInterrupted, HandlerEnds,
                      Interrupted, Result, Raised, GoTo
  <2>2. CASE ReadAttempts(a) \/ HandlerProgress(a) \/ BackoffOver(a)
    BY <1>4, <2>2 DEF ReadAttempts, HandlerProgress, BackoffOver, CallTransition
  <2>3. CASE WorkerCancel(a) \/ Failed(a) \/ Completed(a)
    BY <1>4, <2>3 DEF WorkerCancel, Failed, Completed, CallTransition, GoTo
  <2>4. CASE Claim(a)
    BY <1>4, <2>4 DEF Claim, CallTransition, GoTo
  <2>5. CASE Start(a)
    BY <1>4, <2>5 DEF Start, TransitionWrite, GoTo
  <2>6. CASE Dispatch(a) \/ Progress(a) \/ RetryWait(a) \/ Requeue(a)
             \/ DeadLetter(a) \/ Succeed(a)
    BY <1>4, <2>6 DEF Dispatch, Progress, RetryWait, Requeue, DeadLetter, Succeed,
                      TransitionWrite, GoTo
  <2> QED
    BY <1>4, <2>1, <2>2, <2>3, <2>4, <2>5, <2>6 DEF WorkerNext
<1>5. CASE job[a] = k /\ (ActorNext(a) \/ Crash(a))
  <2>1. CASE TransitionRead(a)
    BY <1>5, <2>1 DEF TransitionRead, GoTo
  <2>2. CASE RowGone(a)
    BY <1>5, <2>2 DEF RowGone, GoTo
  <2>3. CASE CancelWrite(a)
    BY <1>5, <2>3 DEF CancelWrite, TransitionWrite, GoTo
  <2>4. CASE Return(a)
    BY <1>5, <2>4 DEF Return, GoTo
  <2>5. CASE Crash(a)
    BY <1>5, <2>5 DEF Crash, GoTo
  <2> QED
    BY <1>5, <2>1, <2>2, <2>3, <2>4, <2>5 DEF ActorNext
<1> QED
  BY <1>1, <1>2, <1>3, <1>4, <1>5 DEF StepOf

-----------------------------------------------------------------------------
(* No orphan.                                                                *)

Active == {"running", "dispatched", "retry_wait"}

\* A thread that steps, and does not die, leaves no active row behind: after
\* its step the row is not active, or the thread executes the job, or the row
\* was as active before and somebody else's.
LEMMA LeavesNoOrphan ==
  ASSUME TypeInv, NEW a \in Actors, NEW k \in Jobs, StepOf(a, k), ~ Crash(a),
         row'[k].status \in Active
  PROVE  \/ a \in Workers /\ Executing(a, k)'
         \/ /\ row[k].status \in Active
            /\ a \in Workers => ~ Executing(a, k)
<1> USE DEF TypeInv, TypeOK, Active, Executing, ExecutionLabels
<1>1. CASE a \in Clients /\ Call(a, k)
  BY <1>1, JobQueueAssumption
     DEF Call, Enqueue, Cancel, Retry, Delete, Begin, CallTransition, GoTo
<1>2. CASE a \in Workers /\ (Run(a, k) \/ ProcessAvailable(a, k))
  BY <1>2 DEF Run, ProcessAvailable, GoTo
<1>3. CASE job[a] = k /\ a \in Clients /\ ClientNext(a)
  BY <1>3, JobQueueAssumption
     DEF ClientNext, EnqueueValidate, EnqueueValidated, EnqueueQueue, RetryWrite,
         DeleteRow, TransitionWrite, CallTransition, GoTo
<1>4. CASE job[a] = k /\ a \in Workers /\ WorkerNext(a)
  <2>1. CASE Poll(a) \/ ClaimLost(a) \/ HandlerInterrupted(a) \/ HandlerEnds(a)
             \/ Interrupted(a) \/ Result(a) \/ Raised(a)
    BY <1>4, <2>1 DEF Poll, ClaimLost, HandlerInterrupted, HandlerEnds,
                      Interrupted, Result, Raised, GoTo, StatusOf
  <2>2. CASE ReadAttempts(a) \/ HandlerProgress(a) \/ BackoffOver(a)
    BY <1>4, <2>2 DEF ReadAttempts, HandlerProgress, BackoffOver, CallTransition
  <2>3. CASE WorkerCancel(a) \/ Failed(a) \/ Completed(a)
    BY <1>4, <2>3 DEF WorkerCancel, Failed, Completed, CallTransition, GoTo,
                      StatusOf, Cancellable
  <2>4. CASE Claim(a)
    BY <1>4, <2>4 DEF Claim, CallTransition, GoTo
  <2>5. CASE Start(a) \/ Dispatch(a) \/ Progress(a) \/ RetryWait(a)
    BY <1>4, <2>5 DEF Start, Dispatch, Progress, RetryWait, TransitionWrite, GoTo
  <2>6. CASE Requeue(a) \/ DeadLetter(a) \/ Succeed(a)
    BY <1>4, <2>6 DEF Requeue, DeadLetter, Succeed, TransitionWrite
  <2> QED
    BY <1>4, <2>1, <2>2, <2>3, <2>4, <2>5, <2>6 DEF WorkerNext
<1>5. CASE job[a] = k /\ ActorNext(a)
  <2>1. CASE TransitionRead(a)
    BY <1>5, <2>1 DEF TransitionRead, GoTo
  <2>2. CASE RowGone(a)
    BY <1>5, <2>2 DEF RowGone, GoTo, StatusOf, NoRow
  <2>3. CASE CancelWrite(a)
    BY <1>5, <2>3 DEF CancelWrite, TransitionWrite
  <2>4. CASE Return(a)
    BY <1>5, <2>4 DEF Return, GoTo
  <2> QED
    BY <1>5, <2>1, <2>2, <2>3, <2>4 DEF ActorNext
<1> QED
  BY <1>1, <1>2, <1>3, <1>4, <1>5 DEF StepOf

\* A dead thread takes no step.
LEMMA CrashedStays ==
  ASSUME TypeInv, NEW a \in Actors, NEW k \in Jobs, StepOf(a, k)
  PROVE  pc[a] # "crashed"
<1>1. CASE a \in Clients /\ Call(a, k)
  BY <1>1 DEF Call, Enqueue, Cancel, Retry, Delete, Begin
<1>2. CASE a \in Workers /\ (Run(a, k) \/ ProcessAvailable(a, k))
  BY <1>2 DEF Run, ProcessAvailable
<1>3. CASE a \in Clients /\ ClientNext(a)
  BY <1>3 DEF ClientNext, EnqueueValidate, EnqueueValidated, EnqueueQueue,
              RetryWrite, DeleteRow, TransitionWrite
<1>4. CASE a \in Workers /\ WorkerNext(a)
  BY <1>4
     DEF WorkerNext, Poll, Claim, ClaimLost, Dispatch, ReadAttempts, Start,
         HandlerProgress, Progress, HandlerInterrupted, HandlerEnds,
         Interrupted, WorkerCancel, Failed, RetryWait, BackoffOver, Requeue,
         DeadLetter, Completed, Succeed, Result, Raised, TransitionWrite
<1>5. CASE ActorNext(a) \/ Crash(a)
  BY <1>5 DEF ActorNext, TransitionRead, RowGone, CancelWrite, Return, Crash,
              TransitionWrite
<1> QED
  BY <1>1, <1>2, <1>3, <1>4, <1>5 DEF StepOf

\* While no thread has died, a row that says running, dispatched or retry_wait
\* has a thread that is going to change it: whatever is cancelled, retried and
\* deleted when, and however many threads execute the job at a time.
THEOREM NoOrphans == Spec => []NoOrphan
<1>1. Init => NoOrphan
  BY DEF Init, NoOrphan
<1>2. TypeInv /\ NoOrphan /\ [Next]_vars => NoOrphan'
  <2> SUFFICES ASSUME TypeInv, NoOrphan, [Next]_vars, (Crashed = {})',
                      NEW j \in Jobs, row'[j].status \in Active
               PROVE  \E w \in Workers : Executing(w, j)'
    BY DEF NoOrphan, Active
  <2>1. CASE UNCHANGED vars
    BY <2>1 DEF vars, NoOrphan, Crashed, Executing, Active
  <2>2. CASE Next
    <3>1. PICK a \in Actors, k \in Jobs : StepOf(a, k)
      BY <2>2, NextIsStep
    <3>2. Apart(a, k) /\ pc[a] # "crashed"
      BY <3>1, StepApart, CrashedStays
    <3>3. Crashed = {} /\ ~ Crash(a)
      <4>1. \A b \in Actors : pc'[b] # "crashed"
        BY DEF Crashed
      <4>2. \A b \in Actors : pc[b] # "crashed"
        BY <3>2, <4>1 DEF Apart
      <4>3. ~ Crash(a)
        BY <4>1 DEF Crash, GoTo, TypeInv, TypeOK
      <4> QED
        BY <4>2, <4>3 DEF Crashed
    <3>4. \A w \in Workers \ {a}, i \in Jobs : Executing(w, i) => Executing(w, i)'
      BY <3>2 DEF Apart, Executing, Actors
    <3>5. CASE j # k
      <4>1. ~ Executing(a, j)
        BY <3>2, <3>5 DEF Apart, Executing, ExecutionLabels
      <4>2. row[j].status \in Active
        BY <3>2, <3>5 DEF Apart
      <4>3. PICK w \in Workers : Executing(w, j)
        BY <3>3, <4>2 DEF NoOrphan, Active
      <4> QED
        BY <3>4, <4>1, <4>3
    <3>6. CASE j = k
      <4>1. CASE a \in Workers /\ Executing(a, k)'
        BY <3>6, <4>1
      <4>2. CASE row[k].status \in Active /\ (a \in Workers => ~ Executing(a, k))
        <5>1. PICK w \in Workers : Executing(w, k)
          BY <3>3, <4>2 DEF NoOrphan, Active
        <5> QED
          BY <3>4, <3>6, <4>2, <5>1
      <4> QED
        BY <3>1, <3>3, <3>6, <4>1, <4>2, LeavesNoOrphan
    <3> QED
      BY <3>5, <3>6
  <2> QED
    BY <2>1, <2>2
<1> QED
  BY <1>1, <1>2, InitType, TypeStep, PTL DEF Spec

-----------------------------------------------------------------------------
(* A job that nobody cancels or retries has one life: one client enqueues    *)
(* it, one worker at a time executes it, the counter in its row is the       *)
(* number of its executions, and its settled row is only ever deleted.       *)

\* Thread a is inside enqueue(j), or between a claim of j and its last write.
Engaged(a, j) == job[a] = j /\ pc[a] \in ExecutionLabels \cup {"validated"}

\* Inside a _transition call at one of these sites.
At(a, s) == pc[a] \in {"read", "write"} /\ site[a] \in s

\* The handler was invoked at least once, and a counted it.
Attempted(a, j) ==
  /\ row[j].status = "running"
  /\ attempts[a] = execs[j]
  /\ execs[j] \in 1 .. MaxAttempts

\* What is true of a row, by the place where the thread engaged in it stands.
Placed(a, j) ==
  /\ pc[a] \notin {"interrupted", "cancelling"}
  /\ pc[a] \in {"read", "write"} => site[a] \notin {"none", "cancel", "retry"}
  /\ row[j].attempt = execs[j]
  /\ pc[a] = "write" => seen[a] = execs[j]
  /\ At(a, {"validate"}) => row[j].status = "created" /\ execs[j] = 0
  /\ pc[a] = "validated" \/ At(a, {"queue"}) =>
       row[j].status = "validated" /\ execs[j] = 0
  /\ pc[a] = "attempts" \/ At(a, {"dispatch", "start"}) =>
       row[j].status \in {"running", "dispatched"} /\ execs[j] < MaxAttempts
  /\ At(a, {"start"}) => attempts[a] = execs[j] + 1
  /\ \/ pc[a] \in {"handler", "failed", "completed"}
     \/ At(a, {"progress", "succeed", "retry_wait", "dead_letter"})
     => Attempted(a, j)
  /\ pc[a] = "backoff" \/ At(a, {"requeue"}) => row[j].status = "retry_wait"
  /\ pc[a] = "backoff" \/ At(a, {"retry_wait", "requeue"}) => execs[j] < MaxAttempts
  /\ At(a, {"dead_letter"}) => execs[j] = MaxAttempts

\* What is true of a row by its status alone.
Counted(j) ==
  /\ row[j].status # "cancelled"
  /\ execs[j] <= MaxAttempts
  /\ row[j].status = "absent" => row[j].attempt = 0 /\ execs[j] = 0
  /\ row[j].status = "queued" => row[j].attempt = execs[j] /\ execs[j] < MaxAttempts
  /\ row[j].status = "dead_lettered" => execs[j] = MaxAttempts

\* The statuses of a row in which nobody is engaged.
Free == {"absent", "queued", "succeeded", "dead_lettered", "deleted"}

Undisturbed(j) ==
  /\ \A a, b \in Actors : Engaged(a, j) /\ Engaged(b, j) => a = b
  /\ \A a \in Actors : Engaged(a, j) => Placed(a, j) /\ row[j].status \notin Free
  /\ \A a \in Actors : job[a] = j /\ pc[a] = "deleting" =>
       row[j].status \in {"succeeded", "dead_lettered", "deleted"}
  /\ Counted(j)

\* The inductive invariant behind the properties of untouched jobs.
UntouchedInv == \A j \in Jobs \ touched : Undisturbed(j)

\* A step on another job.
LEMMA Elsewhere ==
  ASSUME NEW a \in Actors, NEW k \in Jobs, Apart(a, k),
         NEW j \in Jobs, j # k, Undisturbed(j)
  PROVE  Undisturbed(j)'
<1>1. row'[j] = row[j] /\ execs'[j] = execs[j]
  BY DEF Apart
<1>2. \A b \in Actors \ {a} :
        /\ Engaged(b, j)' <=> Engaged(b, j)
        /\ Placed(b, j)' <=> Placed(b, j)
        /\ (job[b] = j /\ pc[b] = "deleting")' <=> (job[b] = j /\ pc[b] = "deleting")
  BY <1>1 DEF Apart, Engaged, Placed, At, Attempted
<1>3. ~ Engaged(a, j)' /\ ~ (job[a] = j /\ pc[a] = "deleting")'
  BY DEF Apart, Engaged, ExecutionLabels
<1> QED
  BY <1>1, <1>2, <1>3 DEF Undisturbed, Counted

\* A step on job k of a thread that is not engaged in it, before and after,
\* and does not write.
LEMMA PassiveStep ==
  ASSUME NEW a \in Actors, NEW k \in Jobs, Apart(a, k), Undisturbed(k),
         row'[k] = row[k], execs'[k] = execs[k], ~ Engaged(a, k)',
         (job[a] = k /\ pc[a] = "deleting")' =>
            row[k].status \in {"succeeded", "dead_lettered", "deleted"}
  PROVE  Undisturbed(k)'
<1>1. \A b \in Actors \ {a} :
        /\ Engaged(b, k)' <=> Engaged(b, k)
        /\ Placed(b, k)' <=> Placed(b, k)
        /\ (job[b] = k /\ pc[b] = "deleting")' <=> (job[b] = k /\ pc[b] = "deleting")
  BY DEF Apart, Engaged, Placed, At, Attempted
<1> QED
  BY <1>1 DEF Undisturbed, Counted

\* A step of the engaged thread, which stays engaged.
LEMMA EngagedStep ==
  ASSUME NEW a \in Actors, NEW k \in Jobs, Apart(a, k), Undisturbed(k),
         Engaged(a, k), pc'[a] # "deleting", Placed(a, k)',
         row'[k].status \notin Free \cup {"cancelled"}, execs'[k] <= MaxAttempts
  PROVE  Undisturbed(k)'
<1>1. \A b \in Actors \ {a} : ~ Engaged(b, k)'
  BY DEF Apart, Engaged, Undisturbed
<1>2. \A b \in Actors : ~ (job[b] = k /\ pc[b] = "deleting")'
  BY DEF Apart, Undisturbed, Free
<1> QED
  BY <1>1, <1>2 DEF Undisturbed, Counted, Free

\* The step with which the engaged thread leaves.
LEMMA LeavingStep ==
  ASSUME NEW a \in Actors, NEW k \in Jobs, Apart(a, k), Undisturbed(k),
         Engaged(a, k), pc'[a] # "deleting", ~ Engaged(a, k)', Counted(k)'
  PROVE  Undisturbed(k)'
<1>1. \A b \in Actors \ {a} : ~ Engaged(b, k)'
  BY DEF Apart, Engaged, Undisturbed
<1>2. \A b \in Actors : ~ (job[b] = k /\ pc[b] = "deleting")'
  BY DEF Apart, Undisturbed, Free
<1> QED
  BY <1>1, <1>2 DEF Undisturbed

\* The step with which a thread becomes engaged in a row that was free.
LEMMA EnteringStep ==
  ASSUME NEW a \in Actors, NEW k \in Jobs, Apart(a, k), Undisturbed(k),
         row[k].status \in {"absent", "queued"}, pc'[a] # "deleting",
         Placed(a, k)', row'[k].status \notin Free \cup {"cancelled"},
         execs'[k] <= MaxAttempts
  PROVE  Undisturbed(k)'
<1>1. \A b \in Actors \ {a} : ~ Engaged(b, k)'
  BY DEF Apart, Engaged, Undisturbed, Free
<1>2. \A b \in Actors : ~ (job[b] = k /\ pc[b] = "deleting")'
  BY DEF Apart, Undisturbed
<1> QED
  BY <1>1, <1>2 DEF Undisturbed, Counted, Free

\* The client's side of such a life.
LEMMA UntouchedClient ==
  ASSUME TypeInv, NEW a \in Clients, NEW k \in Jobs, Apart(a, k), Undisturbed(k),
         k \notin touched', Call(a, k) \/ (job[a] = k /\ ClientNext(a))
  PROVE  Undisturbed(k)'
<1> a \in Actors
  BY DEF Actors
<1> USE DEF TypeInv, TypeOK
<1>1. CASE Enqueue(a, k)
  <2>1. row[k].status = "absent" /\ row[k].attempt = 0 /\ execs[k] = 0
    BY <1>1 DEF Enqueue, Undisturbed, Counted
  <2>2. row'[k] = [status |-> "created", attempt |-> 0] /\ execs'[k] = 0
        /\ pc'[a] = "read" /\ site'[a] = "validate"
    BY <1>1, <2>1 DEF Enqueue, CallTransition
  <2>3. Placed(a, k)'
    BY <2>2 DEF Placed, At
  <2> QED
    BY <2>1, <2>2, <2>3, EnteringStep, JobQueueAssumption DEF Free
<1>2. CASE Cancel(a, k)
  BY <1>2 DEF Cancel, Begin
<1>3. CASE Retry(a, k)
  BY <1>3 DEF Retry, Begin
<1>4. CASE Delete(a, k)
  <2>1. pc'[a] = "deleting" /\ row' = row /\ execs' = execs
        /\ row[k].status \in Settled
    BY <1>4 DEF Delete, Begin, GoTo, Deletable
  <2> QED
    BY <2>1, PassiveStep DEF Engaged, ExecutionLabels, Settled, Undisturbed, Counted
<1>5. CASE job[a] = k /\ EnqueueValidate(a)
  <2>1. Engaged(a, k) /\ Placed(a, k) /\ At(a, {"validate"})
    BY <1>5 DEF EnqueueValidate, TransitionWrite, Engaged, ExecutionLabels,
                Undisturbed, At
  <2>2. row'[k].status = "validated" /\ row'[k].attempt = execs[k] /\ execs' = execs
        /\ execs[k] = 0 /\ pc'[a] = "validated"
    BY <1>5, <2>1 DEF EnqueueValidate, TransitionWrite, GoTo, Placed
  <2>3. Placed(a, k)'
    BY <2>2 DEF Placed, At
  <2> QED
    BY <2>1, <2>2, <2>3, EngagedStep, JobQueueAssumption DEF Free
<1>6. CASE job[a] = k /\ EnqueueValidated(a)
  <2>1. Engaged(a, k) /\ Placed(a, k) /\ pc[a] = "validated"
    BY <1>6 DEF EnqueueValidated, Engaged, Undisturbed
  <2>2. row' = row /\ execs' = execs /\ pc'[a] = "read" /\ site'[a] = "queue"
    BY <1>6 DEF EnqueueValidated, CallTransition
  <2>3. Placed(a, k)'
    BY <2>1, <2>2 DEF Placed, At
  <2> QED
    BY <2>1, <2>2, <2>3, EngagedStep DEF Free, Undisturbed, Counted
<1>7. CASE job[a] = k /\ EnqueueQueue(a)
  <2>1. Engaged(a, k) /\ Placed(a, k) /\ At(a, {"queue"})
    BY <1>7 DEF EnqueueQueue, TransitionWrite, Engaged, ExecutionLabels,
                Undisturbed, At
  <2>2. row'[k].status = "queued" /\ row'[k].attempt = execs[k] /\ execs' = execs
        /\ execs[k] = 0 /\ pc'[a] = "returned"
    BY <1>7, <2>1 DEF EnqueueQueue, TransitionWrite, GoTo, Placed
  <2> QED
    BY <2>1, <2>2, LeavingStep, JobQueueAssumption DEF Engaged, ExecutionLabels, Counted
<1>8. CASE job[a] = k /\ RetryWrite(a)
  BY <1>8 DEF RetryWrite, TransitionWrite, Engaged, ExecutionLabels,
              Undisturbed, Placed
<1>9. CASE job[a] = k /\ DeleteRow(a)
  <2>1. row[k].status \in {"succeeded", "dead_lettered", "deleted"}
    BY <1>9 DEF DeleteRow, Undisturbed
  <2>2. row'[k].status = "deleted" /\ execs' = execs /\ pc'[a] = "returned"
    BY <1>9, <2>1 DEF DeleteRow, GoTo
  <2>3. \A b \in Actors : ~ Engaged(b, k)'
    BY <2>1, <2>2 DEF Apart, Engaged, ExecutionLabels, Undisturbed, Free
  <2> QED
    BY <2>2, <2>3 DEF Undisturbed, Counted
<1> QED
  BY <1>1, <1>2, <1>3, <1>4, <1>5, <1>6, <1>7, <1>8, <1>9 DEF Call, ClientNext

\* The steps of run and process_available outside of an execution, and Claim.
LEMMA UntouchedPolling ==
  ASSUME TypeInv, NEW a \in Workers, NEW k \in Jobs, Apart(a, k), Undisturbed(k),
         \/ Run(a, k) \/ ProcessAvailable(a, k)
         \/ /\ job[a] = k
            /\ Poll(a) \/ Claim(a) \/ ClaimLost(a) \/ Result(a) \/ Raised(a)
  PROVE  Undisturbed(k)'
<1> a \in Actors
  BY DEF Actors
<1> USE DEF TypeInv, TypeOK
<1>1. CASE Run(a, k) \/ ProcessAvailable(a, k)
  <2>1. row' = row /\ execs' = execs /\ pc'[a] \in {"poll", "claim"}
    BY <1>1 DEF Run, ProcessAvailable, GoTo
  <2> QED
    BY <2>1, PassiveStep DEF Engaged, ExecutionLabels
<1>2. CASE job[a] = k /\ (Poll(a) \/ ClaimLost(a) \/ Result(a) \/ Raised(a))
  <2>1. row' = row /\ execs' = execs /\ pc'[a] \in {"poll", "claim", "returned"}
    BY <1>2 DEF Poll, ClaimLost, Result, Raised, GoTo
  <2> QED
    BY <2>1, PassiveStep DEF Engaged, ExecutionLabels
<1>3. CASE job[a] = k /\ Claim(a)
  <2>1. row[k].status = "queued" /\ row[k].attempt = execs[k]
        /\ execs[k] < MaxAttempts /\ execs[k] \in Nat
    BY <1>3 DEF Claim, StatusOf, Undisturbed, Counted
  <2>2. row'[k].status = "running" /\ row'[k].attempt = row[k].attempt
        /\ execs' = execs
    BY <1>3 DEF Claim
  <2>3. pc'[a] = "attempts" \/ (pc'[a] = "read" /\ site'[a] = "dispatch")
    BY <1>3 DEF Claim, CallTransition, GoTo
  <2>4. Placed(a, k)'
    BY <2>1, <2>2, <2>3 DEF Placed, At
  <2> QED
    BY <2>1, <2>2, <2>3, <2>4, EnteringStep, JobQueueAssumption DEF Free
<1> QED
  BY <1>1, <1>2, <1>3

\* A worker executing the job: the steps that write no row.
LEMMA UntouchedMove ==
  ASSUME TypeInv, NEW a \in Workers, NEW k \in Jobs, Apart(a, k), Undisturbed(k),
         job[a] = k,
         \/ ReadAttempts(a) \/ HandlerProgress(a) \/ HandlerInterrupted(a)
         \/ HandlerEnds(a) \/ Interrupted(a) \/ WorkerCancel(a) \/ Failed(a)
         \/ BackoffOver(a) \/ Completed(a)
  PROVE  Undisturbed(k)'
<1> a \in Actors
  BY DEF Actors
<1> USE DEF TypeInv, TypeOK
<1>1. Engaged(a, k) /\ Placed(a, k) /\ row[k].status \notin Free \cup {"cancelled"}
      /\ execs[k] <= MaxAttempts
  BY DEF ReadAttempts, HandlerProgress, HandlerInterrupted, HandlerEnds,
         Interrupted, WorkerCancel, Failed, BackoffOver, Completed,
         Engaged, ExecutionLabels, Undisturbed, Counted
<1>2. row' = row /\ execs' = execs /\ job'[a] = k
  BY DEF ReadAttempts, HandlerProgress, HandlerInterrupted, HandlerEnds,
         Interrupted, WorkerCancel, Failed, BackoffOver, Completed
<1>3. ~ HandlerInterrupted(a) /\ ~ Interrupted(a) /\ ~ WorkerCancel(a)
  BY <1>1 DEF HandlerInterrupted, Interrupted, WorkerCancel, StatusOf, Placed
<1>4. ASSUME Placed(a, k)', pc'[a] # "deleting" PROVE Undisturbed(k)'
  BY <1>1, <1>2, <1>4, EngagedStep
<1>5. CASE ReadAttempts(a)
  <2>1. pc'[a] = "read" /\ site'[a] = "start" /\ attempts'[a] = execs[k] + 1
    BY <1>1, <1>5 DEF ReadAttempts, CallTransition, Placed
  <2>2. Placed(a, k)'
    BY <1>1, <1>2, <1>5, <2>1 DEF ReadAttempts, Placed, At
  <2> QED
    BY <1>4, <2>1, <2>2
<1>6. CASE HandlerProgress(a)
  <2>1. pc'[a] = "read" /\ site'[a] = "progress" /\ attempts'[a] = attempts[a]
    BY <1>6 DEF HandlerProgress, CallTransition
  <2>2. Placed(a, k)'
    BY <1>1, <1>2, <1>6, <2>1 DEF HandlerProgress, Placed, At, Attempted
  <2> QED
    BY <1>4, <2>1, <2>2
<1>7. CASE HandlerEnds(a)
  <2>1. pc'[a] \in {"completed", "failed"} /\ attempts'[a] = attempts[a]
    BY <1>7 DEF HandlerEnds, GoTo
  <2>2. Placed(a, k)'
    BY <1>1, <1>2, <1>7, <2>1 DEF HandlerEnds, Placed, At, Attempted
  <2> QED
    BY <1>4, <2>1, <2>2
<1>8. CASE Failed(a)
  <2>1. Attempted(a, k)
    BY <1>1, <1>8 DEF Failed, Placed
  <2>2. pc'[a] = "read" /\ attempts'[a] = attempts[a]
        /\ site'[a] = (IF attempts[a] < MaxAttempts THEN "retry_wait" ELSE "dead_letter")
    BY <1>1, <1>8 DEF Failed, CallTransition, StatusOf
  <2>3. Placed(a, k)'
    BY <1>1, <1>2, <2>1, <2>2, JobQueueAssumption DEF Placed, At, Attempted
  <2> QED
    BY <1>4, <2>2, <2>3
<1>9. CASE BackoffOver(a)
  <2>1. pc'[a] = "read" /\ site'[a] = "requeue"
    BY <1>9 DEF BackoffOver, CallTransition
  <2>2. Placed(a, k)'
    BY <1>1, <1>2, <1>9, <2>1 DEF BackoffOver, Placed, At
  <2> QED
    BY <1>4, <2>1, <2>2
<1>10. CASE Completed(a)
  <2>1. pc'[a] = "read" /\ site'[a] = "succeed" /\ attempts'[a] = attempts[a]
    BY <1>1, <1>10 DEF Completed, CallTransition, StatusOf
  <2>2. Placed(a, k)'
    BY <1>1, <1>2, <1>10, <2>1 DEF Completed, Placed, At, Attempted
  <2> QED
    BY <1>4, <2>1, <2>2
<1> QED
  BY <1>3, <1>5, <1>6, <1>7, <1>8, <1>9, <1>10

\* A worker executing the job: the writes of its _transition calls.
LEMMA UntouchedWrite ==
  ASSUME TypeInv, NEW a \in Workers, NEW k \in Jobs, Apart(a, k), Undisturbed(k),
         job[a] = k,
         \/ Dispatch(a) \/ Start(a) \/ Progress(a) \/ RetryWait(a)
         \/ Requeue(a) \/ DeadLetter(a) \/ Succeed(a)
  PROVE  Undisturbed(k)'
<1> a \in Actors
  BY DEF Actors
<1> USE DEF TypeInv, TypeOK
<1>1. Engaged(a, k) /\ Placed(a, k) /\ pc[a] = "write" /\ seen[a] = execs[k]
      /\ row[k].status \notin Free \cup {"cancelled"} /\ execs[k] <= MaxAttempts
  BY DEF Dispatch, Start, Progress, RetryWait, Requeue, DeadLetter, Succeed,
         TransitionWrite, Engaged, ExecutionLabels, Undisturbed, Counted, Placed
<1>2. job'[a] = k /\ attempts'[a] = attempts[a]
  BY DEF Dispatch, Start, Progress, RetryWait, Requeue, DeadLetter, Succeed
<1>3. CASE Dispatch(a)
  <2>1. execs' = execs /\ pc'[a] = "attempts"
        /\ row'[k] = [status |-> "dispatched", attempt |-> execs[k]]
    BY <1>1, <1>3 DEF Dispatch, TransitionWrite, GoTo
  <2>2. Placed(a, k)'
    BY <1>1, <1>3, <2>1 DEF Dispatch, TransitionWrite, Placed, At
  <2> QED
    BY <1>1, <2>1, <2>2, EngagedStep DEF Free
<1>4. CASE Start(a)
  <2>1. execs[k] < MaxAttempts /\ attempts[a] = execs[k] + 1
    BY <1>1, <1>4 DEF Start, TransitionWrite, Placed, At
  <2>2. execs'[k] = execs[k] + 1 /\ pc'[a] = "handler"
        /\ row'[k] = [status |-> "running", attempt |-> attempts[a]]
    BY <1>4, <2>1, JobQueueAssumption DEF Start, TransitionWrite, GoTo
  <2>3. Attempted(a, k)'
    BY <1>2, <2>1, <2>2, JobQueueAssumption DEF Attempted
  <2>4. Placed(a, k)'
    BY <2>1, <2>2, <2>3 DEF Placed, At
  <2> QED
    BY <1>1, <2>2, <2>3, <2>4, EngagedStep DEF Free, Attempted
<1>5. CASE Progress(a)
  <2>1. Attempted(a, k)
    BY <1>1, <1>5 DEF Progress, TransitionWrite, Placed, At
  <2>2. execs' = execs /\ pc'[a] = "handler"
        /\ row'[k] = [status |-> "running", attempt |-> execs[k]]
    BY <1>1, <1>5, <2>1 DEF Progress, TransitionWrite, GoTo, StatusOf, Attempted
  <2>3. Placed(a, k)'
    BY <1>2, <2>1, <2>2 DEF Placed, At, Attempted
  <2> QED
    BY <1>1, <2>2, <2>3, EngagedStep DEF Free
<1>6. CASE RetryWait(a)
  <2>1. execs[k] < MaxAttempts
    BY <1>1, <1>6 DEF RetryWait, TransitionWrite, Placed, At
  <2>2. execs' = execs /\ pc'[a] = "backoff"
        /\ row'[k] = [status |-> "retry_wait", attempt |-> execs[k]]
    BY <1>1, <1>6 DEF RetryWait, TransitionWrite, GoTo
  <2>3. Placed(a, k)'
    BY <2>1, <2>2 DEF Placed, At
  <2> QED
    BY <1>1, <2>2, <2>3, EngagedStep DEF Free
<1>7. CASE Requeue(a)
  <2>1. execs[k] < MaxAttempts
    BY <1>1, <1>7 DEF Requeue, TransitionWrite, Placed, At
  <2>2. execs' = execs /\ pc'[a] = "result"
        /\ row'[k] = [status |-> "queued", attempt |-> execs[k]]
    BY <1>1, <1>7 DEF Requeue, TransitionWrite, GoTo
  <2> QED
    BY <1>1, <2>1, <2>2, LeavingStep DEF Engaged, ExecutionLabels, Counted
<1>8. CASE DeadLetter(a)
  <2>1. execs[k] = MaxAttempts
    BY <1>1, <1>8 DEF DeadLetter, TransitionWrite, Placed, At
  <2>2. execs' = execs /\ pc'[a] = "raised" /\ row'[k].status = "dead_lettered"
    BY <1>8 DEF DeadLetter, TransitionWrite, GoTo
  <2> QED
    BY <1>1, <2>1, <2>2, LeavingStep DEF Engaged, ExecutionLabels, Counted
<1>9. CASE Succeed(a)
  <2>1. execs' = execs /\ pc'[a] = "result" /\ row'[k].status = "succeeded"
    BY <1>9 DEF Succeed, TransitionWrite, GoTo
  <2> QED
    BY <1>1, <2>1, LeavingStep DEF Engaged, ExecutionLabels, Counted
<1> QED
  BY <1>3, <1>4, <1>5, <1>6, <1>7, <1>8, <1>9

\* The steps that every thread has, and its death.
LEMMA UntouchedActor ==
  ASSUME TypeInv, NEW a \in Actors, NEW k \in Jobs, Apart(a, k), Undisturbed(k),
         job[a] = k, ActorNext(a) \/ Crash(a)
  PROVE  Undisturbed(k)'
<1> USE DEF TypeInv, TypeOK
<1>1. CASE TransitionRead(a)
  <2>1. Engaged(a, k) /\ Placed(a, k) /\ row[k].status \notin Free \cup {"cancelled"}
        /\ execs[k] <= MaxAttempts
    BY <1>1 DEF TransitionRead, Engaged, ExecutionLabels, Undisturbed, Counted
  <2>2. row' = row /\ execs' = execs /\ pc'[a] = "write" /\ seen'[a] = execs[k]
        /\ site'[a] = site[a] /\ attempts'[a] = attempts[a]
    BY <1>1, <2>1 DEF TransitionRead, GoTo, Placed
  <2>3. Placed(a, k)'
    BY <1>1, <2>1, <2>2 DEF TransitionRead, Placed, At, Attempted
  <2> QED
    BY <2>1, <2>2, <2>3, EngagedStep
<1>2. CASE RowGone(a) \/ Return(a) \/ Crash(a)
  <2>1. row' = row /\ execs' = execs /\ pc'[a] \in {"returned", "idle", "crashed"}
    BY <1>2 DEF RowGone, Return, Crash, GoTo
  <2> QED
    BY <2>1, PassiveStep DEF Engaged, ExecutionLabels
<1>3. CASE CancelWrite(a)
  BY <1>3 DEF CancelWrite, TransitionWrite, Engaged, ExecutionLabels,
              Undisturbed, Placed
<1> QED
  BY <1>1, <1>2, <1>3 DEF ActorNext

\* Every step preserves the invariant.
LEMMA UntouchedStep == TypeInv /\ UntouchedInv /\ [Next]_vars => UntouchedInv'
<1> SUFFICES ASSUME TypeInv, UntouchedInv, [Next]_vars,
                    NEW j \in Jobs, j \notin touched'
             PROVE  Undisturbed(j)'
  BY DEF UntouchedInv
<1>1. CASE UNCHANGED vars
  BY <1>1 DEF vars, UntouchedInv, Undisturbed, Counted, Engaged, Placed, At, Attempted
<1>2. CASE Next
  <2>1. PICK a \in Actors, k \in Jobs : StepOf(a, k)
    BY <1>2, NextIsStep
  <2>2. Apart(a, k)
    BY <2>1, StepApart
  <2>3. Undisturbed(j)
    BY <2>2 DEF Apart, UntouchedInv
  <2>4. CASE j # k
    BY <2>2, <2>3, <2>4, Elsewhere
  <2>5. CASE j = k
    <3>1. CASE a \in Clients /\ (Call(a, k) \/ (job[a] = k /\ ClientNext(a)))
      BY <2>2, <2>3, <2>5, <3>1, UntouchedClient
    <3>2. CASE a \in Workers /\ (Run(a, k) \/ ProcessAvailable(a, k))
      BY <2>2, <2>3, <2>5, <3>2, UntouchedPolling
    <3>3. CASE a \in Workers /\ job[a] = k /\ WorkerNext(a)
      BY <2>2, <2>3, <2>5, <3>3, UntouchedPolling, UntouchedMove, UntouchedWrite
         DEF WorkerNext
    <3>4. CASE job[a] = k /\ (ActorNext(a) \/ Crash(a))
      BY <2>2, <2>3, <2>5, <3>4, UntouchedActor
    <3> QED
      BY <2>1, <3>1, <3>2, <3>3, <3>4 DEF StepOf
  <2> QED
    BY <2>4, <2>5
<1> QED
  BY <1>1, <1>2

\* The invariant holds in the initial state.
LEMMA UntouchedStart == Init => UntouchedInv
  BY JobQueueAssumption
     DEF Init, UntouchedInv, Undisturbed, Counted, Engaged, ExecutionLabels

\* The handler of a job that nobody cancels or retries is invoked at most
\* retry_max_attempts times, and its one execution at a time is nobody else's,
\* whatever clients do to the other jobs and wherever threads die.
THEOREM AttemptsAreBounded == Spec => []AttemptsBounded
<1>1. UntouchedInv => AttemptsBounded
  BY DEF UntouchedInv, Undisturbed, Counted, AttemptsBounded
<1> QED
  BY <1>1, InitType, TypeStep, UntouchedStart, UntouchedStep, PTL DEF Spec

\* Such a job is dead-lettered only after exactly retry_max_attempts
\* invocations of its handler.
THEOREM DeadLettersAreExhausted == Spec => []DeadLetterExhausted
<1>1. UntouchedInv => DeadLetterExhausted
  BY DEF UntouchedInv, Undisturbed, Counted, DeadLetterExhausted
<1> QED
  BY <1>1, InitType, TypeStep, UntouchedStart, UntouchedStep, PTL DEF Spec

\* In a settled row nobody is engaged, so nobody writes it but a delete.
LEMMA SettledStep ==
  ASSUME TypeInv, NEW a \in Actors, NEW k \in Jobs, StepOf(a, k), Undisturbed(k),
         row[k].status \in Settled
  PROVE  row'[k].status \in {row[k].status, "deleted"}
<1>1. row[k].status \in Free /\ \A b \in Actors : ~ Engaged(b, k)
  BY DEF Settled, Free, Undisturbed, Counted
<1>2. job[a] = k => pc[a] \notin {"read", "write", "validated"}
  BY <1>1 DEF Engaged, ExecutionLabels
<1>3. CASE a \in Clients /\ Call(a, k)
  <2>1. row' = row
    BY <1>3 DEF Call, Enqueue, Cancel, Retry, Delete, Begin, Settled
  <2> QED
    BY <2>1
<1>4. CASE a \in Workers /\ (Run(a, k) \/ ProcessAvailable(a, k))
  BY <1>4 DEF Run, ProcessAvailable
<1>5. CASE job[a] = k /\ a \in Clients /\ ClientNext(a)
  <2>1. DeleteRow(a)
    BY <1>2, <1>5 DEF ClientNext, EnqueueValidate, EnqueueValidated, EnqueueQueue,
       RetryWrite, TransitionWrite
  <2> QED
    BY <1>5, <2>1 DEF DeleteRow, TypeInv, TypeOK, Settled
<1>6. CASE job[a] = k /\ a \in Workers /\ WorkerNext(a)
  <2>1. ~ Claim(a)
    BY <1>6 DEF Claim, StatusOf, Settled
  <2>2. row' = row
    BY <1>2, <1>6, <2>1
       DEF WorkerNext, Poll, ClaimLost, Dispatch, ReadAttempts, Start,
           HandlerProgress, Progress, HandlerInterrupted, HandlerEnds,
           Interrupted, WorkerCancel, Failed, RetryWait, BackoffOver, Requeue,
           DeadLetter, Completed, Succeed, Result, Raised, TransitionWrite
  <2> QED
    BY <2>2
<1>7. CASE job[a] = k /\ (ActorNext(a) \/ Crash(a))
  BY <1>2, <1>7 DEF ActorNext, TransitionRead, RowGone, CancelWrite, Return,
                    Crash, TransitionWrite
<1> QED
  BY <1>3, <1>4, <1>5, <1>6, <1>7 DEF StepOf

\* The settled row of a job that nobody cancels or retries never changes its
\* status again, except by being deleted: no late write of a worker reaches it.
THEOREM SettledRowsStay == Spec => SettledStays
<1> DEFINE Stays == \A j \in Jobs \ touched :
                      row[j].status \in Settled =>
                        row'[j].status \in {row[j].status, "deleted"}
<1>1. TypeInv /\ UntouchedInv /\ [Next]_vars => [Stays]_vars
  <2> SUFFICES ASSUME TypeInv, UntouchedInv, Next,
                      NEW j \in Jobs, j \notin touched, row[j].status \in Settled
               PROVE  row'[j].status \in {row[j].status, "deleted"}
    OBVIOUS
  <2>1. PICK a \in Actors, k \in Jobs : StepOf(a, k)
    BY NextIsStep
  <2>2. CASE j # k
    BY <2>1, <2>2, StepApart DEF Apart
  <2>3. CASE j = k
    BY <2>1, <2>3, SettledStep DEF UntouchedInv
  <2> QED
    BY <2>2, <2>3
<1> QED
  BY <1>1, InitType, TypeStep, UntouchedStart, UntouchedStep, PTL
     DEF Spec, SettledStays

-----------------------------------------------------------------------------
(* The queue implements the lease, when nobody calls retry.                  *)

\* All that the lease knows of a status.
Kind(j) ==
  IF row[j].status \in {"absent", "queued"} THEN row[j].status ELSE "other"

Works(a, j) == a \in Workers /\ Executing(a, j)

Enqueues(a, j) == a \in Clients /\ Enqueuing(a, j)

\* What thread a can do to the lease of job k in one step: nothing, begin to
\* enqueue, queue, give the enqueue up, withdraw, claim, stop executing.
Effect(a, k) ==
  \/ /\ Works(a, k)' <=> Works(a, k)
     /\ Enqueues(a, k)' <=> Enqueues(a, k)
     /\ Kind(k)' = Kind(k)
  \/ /\ ~ Works(a, k) /\ ~ Works(a, k)'
     /\ ~ Enqueues(a, k) /\ Enqueues(a, k)'
     /\ Kind(k) = "absent" /\ Kind(k)' = "other"
  \/ /\ ~ Works(a, k) /\ ~ Works(a, k)'
     /\ Enqueues(a, k) /\ ~ Enqueues(a, k)'
     /\ Kind(k) = "other" /\ Kind(k)' \in {"queued", "other"}
  \/ /\ ~ Works(a, k) /\ ~ Works(a, k)'
     /\ ~ Enqueues(a, k) /\ ~ Enqueues(a, k)'
     /\ Kind(k) = "queued" /\ Kind(k)' = "other"
  \/ /\ ~ Works(a, k) /\ Works(a, k)'
     /\ ~ Enqueues(a, k) /\ ~ Enqueues(a, k)'
     /\ Kind(k) = "queued" /\ Kind(k)' = "other"
  \/ /\ Works(a, k) /\ ~ Works(a, k)'
     /\ ~ Enqueues(a, k) /\ ~ Enqueues(a, k)'
     /\ Kind(k)' # "absent"

\* Every step has one of these effects on its job.
LEMMA StepEffect ==
  ASSUME LeaseInv, "retry" \notin Ops, NEW a \in Actors, NEW k \in Jobs, StepOf(a, k)
  PROVE  Effect(a, k)
<1> USE DEF TypeOK, Effect, Works, Enqueues, Kind, Executing, ExecutionLabels,
            Enqueuing
<1>0. TypeOK /\ (a \in Workers => a \notin Clients)
  BY JobQueueAssumption DEF LeaseInv
<1>1. CASE a \in Clients /\ Call(a, k)
  BY <1>0, <1>1 DEF Call, Enqueue, Cancel, Retry, Delete, Begin, CallTransition, GoTo
<1>2. CASE a \in Workers /\ (Run(a, k) \/ ProcessAvailable(a, k))
  BY <1>0, <1>2 DEF Run, ProcessAvailable, GoTo
<1>3. CASE job[a] = k /\ a \in Clients /\ ClientNext(a)
  <2>0. Enqueuing(a, k) => Kind(k) = "other"
    BY <1>3 DEF LeaseInv, EnqueuingUntouched
  <2>1. CASE EnqueueValidate(a)
    BY <1>0, <1>3, <2>0, <2>1 DEF EnqueueValidate, TransitionWrite, GoTo
  <2>2. CASE EnqueueValidated(a)
    BY <1>0, <1>3, <2>0, <2>2 DEF EnqueueValidated, CallTransition
  <2>3. CASE EnqueueQueue(a)
    BY <1>0, <1>3, <2>0, <2>3 DEF EnqueueQueue, TransitionWrite, GoTo
  <2>4. CASE RetryWrite(a)
    BY <1>3, <2>4 DEF RetryWrite, TransitionWrite, LeaseInv, NoRetryCall
  <2>5. CASE DeleteRow(a)
    BY <1>0, <1>3, <2>5 DEF DeleteRow, GoTo
  <2> QED
    BY <1>3, <2>1, <2>2, <2>3, <2>4, <2>5 DEF ClientNext
<1>4. CASE job[a] = k /\ a \in Workers /\ WorkerNext(a)
  <2>0. Executing(a, k) => Kind(k) = "other"
    BY <1>4 DEF LeaseInv, HeldNotQueued
  <2>1. CASE Poll(a) \/ ClaimLost(a) \/ HandlerInterrupted(a) \/ HandlerEnds(a)
             \/ Interrupted(a) \/ Result(a) \/ Raised(a)
    BY <1>0, <1>4, <2>0, <2>1
       DEF Poll, ClaimLost, HandlerInterrupted, HandlerEnds, Interrupted,
           Result, Raised, GoTo
  <2>2. CASE ReadAttempts(a) \/ HandlerProgress(a) \/ BackoffOver(a)
    BY <1>0, <1>4, <2>0, <2>2
       DEF ReadAttempts, HandlerProgress, BackoffOver, CallTransition
  <2>3. CASE WorkerCancel(a) \/ Failed(a) \/ Completed(a)
    BY <1>0, <1>4, <2>0, <2>3
       DEF WorkerCancel, Failed, Completed, CallTransition, GoTo
  <2>4. CASE Claim(a)
    BY <1>0, <1>4, <2>0, <2>4 DEF Claim, CallTransition, GoTo, StatusOf
  <2>5. CASE Start(a) \/ Dispatch(a) \/ RetryWait(a)
    BY <1>0, <1>4, <2>0, <2>5 DEF Start, Dispatch, RetryWait, TransitionWrite, GoTo
  <2>6. CASE Progress(a)
    BY <1>0, <1>4, <2>0, <2>6 DEF Progress, TransitionWrite, GoTo, StatusOf
  <2>7. CASE Requeue(a) \/ DeadLetter(a) \/ Succeed(a)
    BY <1>0, <1>4, <2>0, <2>7 DEF Requeue, DeadLetter, Succeed, TransitionWrite, GoTo
  <2> QED
    BY <1>4, <2>1, <2>2, <2>3, <2>4, <2>5, <2>6, <2>7 DEF WorkerNext
<1>5. CASE job[a] = k /\ (ActorNext(a) \/ Crash(a))
  <2>0. /\ a \in Workers /\ Executing(a, k) => Kind(k) = "other"
        /\ a \in Clients /\ Enqueuing(a, k) => Kind(k) = "other"
    BY <1>5 DEF LeaseInv, HeldNotQueued, EnqueuingUntouched
  <2>1. CASE TransitionRead(a)
    BY <1>0, <1>5, <2>0, <2>1 DEF TransitionRead, GoTo
  <2>2. CASE RowGone(a)
    BY <1>0, <1>5, <2>0, <2>2 DEF RowGone, GoTo
  <2>3. CASE CancelWrite(a)
    BY <1>0, <1>5, <2>0, <2>3 DEF CancelWrite, TransitionWrite, GoTo, StatusOf, NoRow
  <2>4. CASE Return(a)
    BY <1>0, <1>5, <2>0, <2>4 DEF Return, GoTo
  <2>5. CASE Crash(a)
    BY <1>0, <1>5, <2>0, <2>5 DEF Crash, GoTo
  <2> QED
    BY <1>5, <2>1, <2>2, <2>3, <2>4, <2>5 DEF ActorNext
<1> QED
  BY <1>1, <1>2, <1>3, <1>4, <1>5 DEF StepOf

\* What such an effect is in terms of the lease.  Since at most one thread
\* executes a job, and nobody while it is enqueued, the holder that stops was
\* the only one, and a job that is no longer new, ready or held is closed.
Moves(k) ==
  \/ /\ Phase(k)' = Phase(k)
     /\ Holders(k)' = Holders(k)
  \/ /\ Holders(k)' = Holders(k)
     /\ <<Phase(k), Phase(k)'>> \in
          {<<"new", "ready">>, <<"new", "closed">>, <<"ready", "closed">>}
  \/ /\ Phase(k) = "ready" /\ Phase(k)' = "held"
     /\ \E w \in Workers : Holders(k)' = {w}
  \/ /\ Phase(k) = "held" /\ Phase(k)' \in {"ready", "closed"}
     /\ Holders(k)' = {}

\* Every effect is one of these moves.
LEMMA StepMoves ==
  ASSUME LeaseInv, LeaseInv', NEW a \in Actors, NEW k \in Jobs,
         Apart(a, k), Effect(a, k)
  PROVE  Moves(k)
<1>1. \A w \in Workers \ {a} : Executing(w, k)' <=> Executing(w, k)
  BY DEF Apart, Executing, Actors
<1>2. \A c \in Clients \ {a} : Enqueuing(c, k)' <=> Enqueuing(c, k)
  BY DEF Apart, Enqueuing, Actors
<1>3. \A w \in Workers : Executing(w, k) => Holders(k) = {w}
  BY DEF LeaseInv, ExclusiveExecution, Holders
<1>4. \A w \in Workers : Executing(w, k)' => Holders(k)' = {w}
  BY DEF LeaseInv, ExclusiveExecution, Holders
<1>5. \A c \in Clients : Enqueuing(c, k) => Holders(k) = {} /\ Kind(k) = "other"
                          /\ \A d \in Clients : Enqueuing(d, k) => d = c
  BY DEF LeaseInv, EnqueuingUntouched, Holders, Kind
<1>6. Holders(k) # {} => Kind(k) = "other"
  BY DEF LeaseInv, HeldNotQueued, Holders, Kind
<1>7. Holders(k)' # {} => Kind(k)' = "other"
  BY DEF LeaseInv, HeldNotQueued, Holders, Kind
<1>8. (Works(a, k)' <=> Works(a, k)) => Holders(k)' = Holders(k)
  BY <1>1 DEF Works, Holders
<1>9. (Enqueues(a, k)' <=> Enqueues(a, k)) =>
        ((\E c \in Clients : Enqueuing(c, k)') <=> (\E c \in Clients : Enqueuing(c, k)))
  BY <1>2 DEF Enqueues
<1>10. /\ Kind(k) = "absent" <=> row[k].status = "absent"
       /\ Kind(k) = "queued" <=> row[k].status = "queued"
       /\ Kind(k)' = "absent" <=> row'[k].status = "absent"
       /\ Kind(k)' = "queued" <=> row'[k].status = "queued"
  BY DEF Kind
<1>a. CASE /\ Works(a, k)' <=> Works(a, k)
           /\ Enqueues(a, k)' <=> Enqueues(a, k)
           /\ Kind(k)' = Kind(k)
  BY <1>a, <1>8, <1>9, <1>10 DEF Phase, Moves
<1>b. CASE /\ ~ Works(a, k) /\ ~ Works(a, k)'
           /\ ~ Enqueues(a, k) /\ Enqueues(a, k)'
           /\ Kind(k) = "absent" /\ Kind(k)' = "other"
  <2>1. Holders(k) = {} /\ Holders(k)' = {}
    BY <1>b, <1>6, <1>8
  <2>2. \E c \in Clients : Enqueuing(c, k)'
    BY <1>b DEF Enqueues
  <2> QED
    BY <1>b, <1>10, <2>1, <2>2 DEF Phase, Moves
<1>c. CASE /\ ~ Works(a, k) /\ ~ Works(a, k)'
           /\ Enqueues(a, k) /\ ~ Enqueues(a, k)'
           /\ Kind(k) = "other" /\ Kind(k)' \in {"queued", "other"}
  <2>1. a \in Clients /\ Enqueuing(a, k) /\ Holders(k) = {} /\ Holders(k)' = {}
    BY <1>c, <1>5, <1>8 DEF Enqueues
  <2>2. \A c \in Clients : ~ Enqueuing(c, k)'
    BY <1>c, <1>2, <1>5, <2>1 DEF Enqueues
  <2> QED
    BY <1>c, <1>10, <2>1, <2>2 DEF Phase, Moves
<1>d. CASE /\ ~ Works(a, k) /\ ~ Works(a, k)'
           /\ ~ Enqueues(a, k) /\ ~ Enqueues(a, k)'
           /\ Kind(k) = "queued" /\ Kind(k)' = "other"
  <2>1. Holders(k) = {} /\ Holders(k)' = {}
    BY <1>d, <1>6, <1>8
  <2>2. \A c \in Clients : ~ Enqueuing(c, k)'
    BY <1>d, <1>2, <1>5 DEF Enqueues
  <2> QED
    BY <1>d, <1>10, <2>1, <2>2 DEF Phase, Moves
<1>e. CASE /\ ~ Works(a, k) /\ Works(a, k)'
           /\ ~ Enqueues(a, k) /\ ~ Enqueues(a, k)'
           /\ Kind(k) = "queued" /\ Kind(k)' = "other"
  <2>1. Holders(k) = {} /\ a \in Workers /\ Holders(k)' = {a}
    BY <1>e, <1>4, <1>6 DEF Works
  <2> QED
    BY <1>e, <1>10, <2>1 DEF Phase, Moves
<1>f. CASE /\ Works(a, k) /\ ~ Works(a, k)'
           /\ ~ Enqueues(a, k) /\ ~ Enqueues(a, k)'
           /\ Kind(k)' # "absent"
  <2>1. a \in Workers /\ Holders(k) = {a}
    BY <1>f, <1>3 DEF Works
  <2>2. Holders(k)' = {}
    BY <1>1, <1>f, <2>1 DEF Holders, Works
  <2>3. \A c \in Clients : ~ Enqueuing(c, k)'
    BY <1>f, <1>2, <1>5, <2>1 DEF Enqueues
  <2> QED
    BY <1>f, <1>10, <2>1, <2>2, <2>3 DEF Phase, Moves
<1> QED
  BY <1>a, <1>b, <1>c, <1>d, <1>e, <1>f DEF Effect

\* The initial state of the queue is an initial state of the lease.
LEMMA LeaseInit == Init => Lease!Init
<1> SUFFICES ASSUME Init PROVE Lease!Init
  OBVIOUS
<1>1. \A j \in Jobs : Holders(j) = {} /\ Phase(j) = "new"
  BY DEF Init, Holders, Phase, Executing, ExecutionLabels, Actors
<1> QED
  BY <1>1 DEF Lease!Init

\* Every step of the queue is a step of the lease, or a stutter.
LEMMA LeaseNext ==
  ASSUME LeaseInv, LeaseInv', "retry" \notin Ops, [Next]_vars
  PROVE  [Lease!Next]_(Lease!vars)
<1> DEFINE phase == [j \in Jobs |-> Phase(j)]
           holders == [j \in Jobs |-> Holders(j)]
<1>1. CASE UNCHANGED vars
  <2>1. \A j \in Jobs : Holders(j)' = Holders(j)
    BY <1>1 DEF vars, Holders, Executing
  <2>2. \A j \in Jobs : Phase(j)' = Phase(j)
    BY <1>1, <2>1 DEF vars, Phase, Enqueuing
  <2> QED
    BY <2>1, <2>2 DEF Lease!vars
<1>2. CASE Next
  <2>1. PICK a \in Actors, k \in Jobs : StepOf(a, k)
    BY <1>2, NextIsStep DEF LeaseInv, TypeInv
  <2>2. Apart(a, k) /\ Moves(k)
    BY <2>1, StepApart, StepEffect, StepMoves DEF LeaseInv, TypeInv
  <2>3. \A i \in Jobs \ {k} : Holders(i)' = Holders(i) /\ Phase(i)' = Phase(i)
    <3> SUFFICES ASSUME NEW i \in Jobs, i # k
                 PROVE  Holders(i)' = Holders(i) /\ Phase(i)' = Phase(i)
      OBVIOUS
    <3>1. \A w \in Workers : Executing(w, i)' <=> Executing(w, i)
      BY <2>2 DEF Apart, Executing, ExecutionLabels, Actors
    <3>2. \A c \in Clients : Enqueuing(c, i)' <=> Enqueuing(c, i)
      BY <2>2 DEF Apart, Enqueuing, Actors
    <3>3. Holders(i)' = Holders(i) /\ row'[i] = row[i]
      BY <2>2, <3>1 DEF Holders, Apart
    <3> QED
      BY <3>2, <3>3 DEF Phase
  <2>4. phase' = [phase EXCEPT ![k] = Phase(k)']
        /\ holders' = [holders EXCEPT ![k] = Holders(k)']
    BY <2>3
  <2>5. CASE Phase(k)' = Phase(k) /\ Holders(k)' = Holders(k)
    <3>1. phase' = phase /\ holders' = holders
      BY <2>3, <2>5
    <3> QED
      BY <3>1 DEF Lease!vars
  <2>6. CASE /\ Holders(k)' = Holders(k)
             /\ <<Phase(k), Phase(k)'>> \in
                  {<<"new", "ready">>, <<"new", "closed">>, <<"ready", "closed">>}
    <3>1. holders' = holders /\ phase[k] = Phase(k)
      BY <2>3, <2>6
    <3>2. Lease!Publish(k) \/ Lease!Abandon(k) \/ Lease!Withdraw(k)
      BY <2>4, <2>6, <3>1
         DEF Lease!Publish, Lease!Abandon, Lease!Withdraw, Lease!Move
    <3> QED
      BY <3>2 DEF Lease!Next
  <2>7. CASE /\ Phase(k) = "ready" /\ Phase(k)' = "held"
             /\ \E w \in Workers : Holders(k)' = {w}
    <3>1. PICK w \in Workers : Holders(k)' = {w}
      BY <2>7
    <3>2. Lease!Take(k, w)
      BY <2>4, <2>7, <3>1 DEF Lease!Take, Lease!Move
    <3> QED
      BY <3>2 DEF Lease!Next
  <2>8. CASE /\ Phase(k) = "held" /\ Phase(k)' \in {"ready", "closed"}
             /\ Holders(k)' = {}
    <3>1. Lease!GiveBack(k) \/ Lease!Close(k)
      BY <2>4, <2>8 DEF Lease!GiveBack, Lease!Close, Lease!Move
    <3> QED
      BY <3>1 DEF Lease!Next
  <2> QED
    BY <2>2, <2>5, <2>6, <2>7, <2>8 DEF Moves
<1> QED
  BY <1>1, <1>2

\* JobQueue implements JobLease when no client calls retry: a job is published
\* once, taken by one thread at a time, given back or closed, and a closed job
\* is never taken again, whoever is cancelled, deleted or dies in between.
THEOREM QueueImplementsLease ==
  ASSUME "retry" \notin Ops
  PROVE  Spec => LeaseSpec
<1>1. LeaseInv /\ LeaseInv' /\ [Next]_vars => [Lease!Next]_(Lease!vars)
  BY LeaseNext
<1> QED
  BY <1>1, LeaseInit, LeaseInvariant, PTL DEF Spec, LeaseSpec, Lease!Spec

=============================================================================
