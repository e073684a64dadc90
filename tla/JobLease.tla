------------------------------ MODULE JobLease ------------------------------
(***************************************************************************)
(* What the job queue promises about who may run a job: a lease.  A job is *)
(* published once, taken by one holder at a time, given back to be taken   *)
(* again or closed, and once closed it is never taken again.               *)
(***************************************************************************)
CONSTANTS Jobs, Workers

VARIABLES phase,   (* phase[j]: new, ready to be taken, held, or closed      *)
          holders  (* holders[j]: the threads that hold the lease of j       *)

vars == <<phase, holders>>

Init ==
  /\ phase = [j \in Jobs |-> "new"]
  /\ holders = [j \in Jobs |-> {}]

Move(j, from, to) ==
  /\ phase[j] = from
  /\ phase' = [phase EXCEPT ![j] = to]

Publish(j)  == Move(j, "new", "ready") /\ UNCHANGED holders
Abandon(j)  == Move(j, "new", "closed") /\ UNCHANGED holders
Withdraw(j) == Move(j, "ready", "closed") /\ UNCHANGED holders

Take(j, w) ==
  /\ Move(j, "ready", "held")
  /\ holders' = [holders EXCEPT ![j] = {w}]

GiveBack(j) ==
  /\ Move(j, "held", "ready")
  /\ holders' = [holders EXCEPT ![j] = {}]

Close(j) ==
  /\ Move(j, "held", "closed")
  /\ holders' = [holders EXCEPT ![j] = {}]

Next ==
  \E j \in Jobs :
    \/ Publish(j) \/ Abandon(j) \/ Withdraw(j)
    \/ GiveBack(j) \/ Close(j)
    \/ \E w \in Workers : Take(j, w)

Spec == Init /\ [][Next]_vars

=============================================================================
