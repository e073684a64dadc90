------------------------ MODULE OutboundBreakerProofs ------------------------
(* Proofs about OutboundBreaker, for any number of callers.                  *)
EXTENDS OutboundBreaker, FiniteSetTheorems, TLAPS

\* The inductive invariant: while the circuit is closed the streak is part of
\* the count, so it is below the threshold when the circuit opens.
BreakerInv ==
  /\ BreakerTypeOK
  /\ OpenAtThreshold
  /\ streak <= failure_count \/ opened_at # 0
  /\ PeerSpared

\* A set of callers is finite, and has at most as many members as there are
\* callers; one that ends its call makes it one smaller.
LEMMA CallingSize ==
  ASSUME calling \subseteq Callers
  PROVE  /\ Cardinality(Callers) \in Nat
         /\ Cardinality(calling) \in Nat
         /\ Cardinality(calling) <= Cardinality(Callers)
         /\ \A c \in calling : Cardinality(calling \ {c}) = Cardinality(calling) - 1
         /\ \A c \in Callers \ calling :
              /\ Cardinality(calling \cup {c}) \in Nat
              /\ Cardinality(calling \cup {c}) <= Cardinality(Callers)
<1>1. IsFiniteSet(Callers) /\ IsFiniteSet(calling)
  BY OutboundBreakerAssumption, FS_Subset
<1>2. Cardinality(Callers) \in Nat /\ Cardinality(calling) \in Nat
  BY <1>1, FS_CardinalityType
<1>3. \A S \in SUBSET Callers :
        IsFiniteSet(S) /\ Cardinality(S) \in Nat /\ Cardinality(S) <= Cardinality(Callers)
  BY <1>1, FS_Subset, FS_CardinalityType
<1>4. \A c \in calling : Cardinality(calling \ {c}) = Cardinality(calling) - 1
  BY <1>1, FS_RemoveElement
<1>5. \A c \in Callers \ calling : calling \cup {c} \in SUBSET Callers
  OBVIOUS
<1> QED
  BY <1>2, <1>3, <1>4, <1>5

\* Every step of the breaker preserves the invariant.
LEMMA BreakerStep ==
  ASSUME BreakerInv, [Next]_vars
  PROVE  BreakerInv'
<1> DEFINE N == Cardinality(Callers)
           K == Cardinality(calling)
<1> USE OutboundBreakerAssumption
<1>0. /\ failure_count \in Nat /\ opened_at \in Nat /\ now \in Nat \ {0}
      /\ streak \in Nat /\ lastFail \in Nat /\ calling \subseteq Callers
  BY DEF BreakerInv, BreakerTypeOK
<1>1. N \in Nat /\ K \in Nat /\ K <= N
  BY <1>0, CallingSize
<1>2. /\ opened_at # 0 <=> failure_count >= FailureThreshold
      /\ streak <= failure_count \/ opened_at # 0
      /\ streak + K <= FailureThreshold + N - 1
  BY DEF BreakerInv, OpenAtThreshold, PeerSpared
<1>3. ASSUME NEW c \in Callers, CallAdmitted(c) PROVE BreakerInv'
  <2>1. Cardinality(calling') \in Nat /\ Cardinality(calling') <= N
    BY <1>0, <1>3, CallingSize DEF CallAdmitted
  <2>2. streak' \in Nat /\ streak' <= FailureThreshold - 1
    BY <1>0, <1>2, <1>3 DEF CallAdmitted
  <2>3. streak' + Cardinality(calling') <= FailureThreshold + N - 1
    <3>1. \A s, k, t, n \in Nat : s <= t - 1 /\ k <= n => s + k <= t + n - 1
      OBVIOUS
    <3>2. FailureThreshold \in Nat
      BY DEF OutboundBreakerAssumption
    <3> HIDE DEF N
    <3> QED
      BY <1>1, <2>1, <2>2, <3>1, <3>2
  <2>4. BreakerTypeOK'
    BY <1>0, <1>3 DEF CallAdmitted, BreakerTypeOK
  <2>5. OpenAtThreshold' /\ (streak' <= failure_count' \/ opened_at' # 0)
    BY <1>0, <1>2, <1>3 DEF CallAdmitted, OpenAtThreshold
  <2> QED
    BY <2>3, <2>4, <2>5 DEF BreakerInv, PeerSpared
<1>4. ASSUME NEW c \in Callers, CallRejected(c) PROVE BreakerInv'
  BY <1>0, <1>2, <1>4
    DEF CallRejected, OnFailure, BreakerInv, BreakerTypeOK, OpenAtThreshold, PeerSpared
<1>5. ASSUME NEW c \in Callers, CallSucceeds(c) PROVE BreakerInv'
  <2> DEFINE K2 == Cardinality(calling')
  <2>1. K2 = K - 1
    BY <1>0, <1>5, CallingSize DEF CallSucceeds
  <2>2. streak' + K2 <= FailureThreshold + N - 1
    <3> HIDE DEF K2, K, N
    <3> QED
      BY <1>1, <1>5, <2>1 DEF CallSucceeds
  <2> QED
    BY <1>0, <1>5, <2>2
      DEF CallSucceeds, BreakerInv, BreakerTypeOK, OpenAtThreshold, PeerSpared
<1>6. ASSUME NEW c \in Callers, CallFails(c) PROVE BreakerInv'
  <2> DEFINE K2 == Cardinality(calling')
  <2>1. K2 = K - 1
    BY <1>0, <1>6, CallingSize DEF CallFails
  <2>2. streak' + K2 <= FailureThreshold + N - 1
    <3> HIDE DEF K2, K, N
    <3> QED
      BY <1>0, <1>1, <1>2, <1>6, <2>1 DEF CallFails
  <2>3. BreakerTypeOK'
    BY <1>0, <1>6 DEF CallFails, OnFailure, BreakerTypeOK
  <2>4. OpenAtThreshold' /\ (streak' <= failure_count' \/ opened_at' # 0)
    BY <1>0, <1>2, <1>6 DEF CallFails, OnFailure, OpenAtThreshold
  <2> QED
    BY <2>2, <2>3, <2>4 DEF BreakerInv, PeerSpared
<1>7. CASE Tick
  BY <1>0, <1>2, <1>7 DEF Tick, BreakerInv, BreakerTypeOK, OpenAtThreshold, PeerSpared
<1>8. CASE UNCHANGED vars
  BY <1>8 DEF vars, BreakerInv, BreakerTypeOK, OpenAtThreshold, PeerSpared
<1> QED
  BY <1>3, <1>4, <1>5, <1>6, <1>7, <1>8 DEF Next

\* The initial state satisfies the invariant.
LEMMA BreakerStart == Init => BreakerInv
<1> USE OutboundBreakerAssumption
<1>1. Cardinality(Callers) \in Nat /\ Cardinality({}) = 0
  BY FS_CardinalityType, FS_EmptySet
<1> QED
  BY <1>1 DEF Init, BreakerInv, BreakerTypeOK, OpenAtThreshold, PeerSpared

\* The counts, the times and the set of open calls keep their types: neither a
\* count nor the time at which the circuit was opened is ever below zero.
THEOREM BreakerTyped == Spec => []BreakerTypeOK
<1>1. BreakerInv => BreakerTypeOK
  BY DEF BreakerInv
<1> QED
  BY <1>1, BreakerStart, BreakerStep, PTL DEF Spec

\* For any number of concurrent callers, the circuit is open exactly when the
\* count has reached the threshold, however late answers and resets interleave.
THEOREM CircuitOpens == Spec => []OpenAtThreshold
<1>1. BreakerInv => OpenAtThreshold
  BY DEF BreakerInv
<1> QED
  BY <1>1, BreakerStart, BreakerStep, PTL DEF Spec

\* The peer sees at most FailureThreshold + |Callers| - 1 failing calls before a
\* success or a reset.
THEOREM PeerIsSpared == Spec => []PeerSpared
<1>1. BreakerInv => PeerSpared
  BY DEF BreakerInv
<1> QED
  BY <1>1, BreakerStart, BreakerStep, PTL DEF Spec

=============================================================================
