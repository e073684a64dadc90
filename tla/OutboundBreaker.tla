--------------------------- MODULE OutboundBreaker ---------------------------
(***************************************************************************)
(* OutboundCircuitBreaker and OutboundMCPClient._request                   *)
(* (src/src/index_tools/outbound/mcp_client.py): the circuit breaker that  *)
(* the concurrent calls of one client to one peer service share.           *)
(*                                                                         *)
(* before_call, on_success and on_failure run without an await, so each is *)
(* atomic; the peer call between them is not.  Time is counted in ticks    *)
(* from 1, because 0.0 in opened_at means that the circuit is closed.      *)
(***************************************************************************)
EXTENDS Naturals, FiniteSets

CONSTANTS
  Callers,          (* concurrent _request calls                             *)
  FailureThreshold, ResetSeconds,
  MaxTime,          (* bound: ticks of the clock                             *)
  MaxCount          (* bound: failure_count, which refusals raise without end *)

ASSUME OutboundBreakerAssumption ==
  /\ IsFiniteSet(Callers)
  /\ FailureThreshold \in Nat \ {0}
  /\ ResetSeconds \in Nat \ {0}
  /\ MaxTime \in Nat
  /\ MaxCount \in Nat

VARIABLES
  failure_count, opened_at,
  calling,   (* the callers waiting for the peer's answer                    *)
  now,       (* time.monotonic()                                             *)
  streak,    (* history: failed peer calls since a success or a reset        *)
  lastFail   (* history: when a peer call last failed                        *)

vars == <<failure_count, opened_at, calling, now, streak, lastFail>>

BreakerTypeOK ==
  /\ failure_count \in Nat
  /\ opened_at \in Nat
  /\ calling \subseteq Callers
  /\ now \in Nat \ {0}
  /\ streak \in Nat
  /\ lastFail \in Nat

Init ==
  /\ failure_count = 0
  /\ opened_at = 0
  /\ calling = {}
  /\ now = 1
  /\ streak = 0
  /\ lastFail = 0

-----------------------------------------------------------------------------
\* Variants of OnFailure with a plausible bug, against which the properties are
\* tested: the count is not kept, the circuit opens one failure late, or it is
\* opened with a time in the past.
OnFailureUncounted ==
  /\ UNCHANGED failure_count
  /\ opened_at' = IF failure_count >= FailureThreshold THEN now ELSE opened_at

OnFailureLate ==
  /\ failure_count' = failure_count + 1
  /\ opened_at' = IF failure_count + 1 > FailureThreshold THEN now ELSE opened_at

OnFailureBackdated ==
  /\ failure_count' = failure_count + 1
  /\ opened_at' = IF failure_count + 1 >= FailureThreshold
                  THEN now - ResetSeconds ELSE opened_at

\* on_failure
OnFailure ==
  /\ failure_count' = failure_count + 1
  /\ opened_at' = IF failure_count + 1 >= FailureThreshold THEN now ELSE opened_at

Elapsed == now - opened_at >= ResetSeconds

\* before_call lets the call through, and closes the circuit if it is time to.
CallAdmitted(c) ==
  /\ c \notin calling
  /\ calling' = calling \cup {c}
  /\ \/ opened_at = 0 /\ UNCHANGED <<failure_count, opened_at, streak>>
     \/ /\ opened_at # 0
        /\ Elapsed
        /\ failure_count' = 0
        /\ opened_at' = 0
        /\ streak' = 0
  /\ UNCHANGED <<now, lastFail>>

\* before_call raises OutboundCircuitOpen inside the try statement, whose
\* except clause counts it like a failure of the peer.
CallRejected(c) ==
  /\ c \notin calling
  /\ opened_at # 0
  /\ ~ Elapsed
  /\ failure_count < MaxCount
  /\ OnFailure
  /\ UNCHANGED <<calling, now, streak, lastFail>>

CallSucceeds(c) ==
  /\ c \in calling
  /\ calling' = calling \ {c}
  /\ failure_count' = 0
  /\ opened_at' = 0
  /\ streak' = 0
  /\ UNCHANGED <<now, lastFail>>

CallFails(c) ==
  /\ c \in calling
  /\ calling' = calling \ {c}
  /\ OnFailure
  /\ streak' = streak + 1
  /\ lastFail' = now
  /\ UNCHANGED now

Tick ==
  /\ now < MaxTime
  /\ now' = now + 1
  /\ UNCHANGED <<failure_count, opened_at, calling, streak, lastFail>>

Next ==
  \/ \E c \in Callers :
       CallAdmitted(c) \/ CallRejected(c) \/ CallSucceeds(c) \/ CallFails(c)
  \/ Tick

Spec == Init /\ [][Next]_vars

-----------------------------------------------------------------------------
(* Properties.                                                               *)

\* The circuit is open exactly while the count is at the threshold: a success
\* or a reset that comes between the failures of other callers never leaves an
\* open circuit with a small count, nor a closed one with a large count.
OpenAtThreshold == opened_at # 0 <=> failure_count >= FailureThreshold

\* The peer is spared: without a success or a reset, calls fail at most
\* failure_threshold times plus once for each other call already under way.
PeerSpared == streak + Cardinality(calling) <= FailureThreshold + Cardinality(Callers) - 1

\* The contract of before_call: a call is refused only while less than
\* reset_seconds have passed since a peer call failed.  False: a refusal is
\* itself counted as a failure and opens the circuit anew.
RefusedOnlyBeforeReset ==
  [][\A c \in Callers : CallRejected(c) => now - lastFail < ResetSeconds]_vars

=============================================================================
