--------------------------- MODULE JobQueueLease ---------------------------
(***************************************************************************)
(* JobQueue implements JobLease as long as no client calls retry: the      *)
(* holders of a job are the threads executing it, and a job is ready when  *)
(* its row says queued.                                                    *)
(***************************************************************************)
EXTENDS JobQueue

\* Client c is inside enqueue(j), which has not queued the job yet.
Enqueuing(c, j) ==
  /\ job[c] = j
  /\ \/ pc[c] = "validated"
     \/ pc[c] \in {"read", "write"} /\ site[c] \in {"validate", "queue"}

\* A job that a thread executes is neither queued nor still to be enqueued.
HeldNotQueued ==
  \A j \in Jobs, w \in Workers :
    Executing(w, j) => row[j].status \notin {"absent", "queued"}

\* While a job is being enqueued nobody executes it, nobody else enqueues it,
\* and its row is one that only the enqueuing client will queue.
EnqueuingUntouched ==
  \A j \in Jobs, c \in Clients :
    Enqueuing(c, j) =>
      /\ row[j].status \in {"created", "validated", "cancelled", "deleted"}
      /\ \A w \in Workers : ~ Executing(w, j)
      /\ \A d \in Clients : Enqueuing(d, j) => c = d

\* No client is inside a retry.
NoRetryCall ==
  \A c \in Clients : pc[c] \in {"read", "write"} => site[c] # "retry"

\* The inductive invariant behind ExclusiveExecution: true, and preserved by
\* every step, when "retry" is not in Ops.
LeaseInv ==
  /\ TypeOK
  /\ Busy
  /\ ExclusiveExecution
  /\ HeldNotQueued
  /\ EnqueuingUntouched
  /\ NoRetryCall

Holders(j) == {w \in Workers : Executing(w, j)}

Phase(j) ==
  IF Holders(j) # {} THEN "held"
  ELSE IF row[j].status = "queued" THEN "ready"
  ELSE IF row[j].status = "absent" \/ \E c \in Clients : Enqueuing(c, j)
       THEN "new"
  ELSE "closed"

Lease == INSTANCE JobLease WITH
  phase <- [j \in Jobs |-> Phase(j)],
  holders <- [j \in Jobs |-> Holders(j)]

\* Every step of the queue is a step of the lease, or leaves it alone: one
\* holder at a time, and a closed job is never taken again.
LeaseSpec == Lease!Spec

=============================================================================
