------------------------- MODULE MCOutboundBreaker -------------------------
(* A small instance of OutboundBreaker: three concurrent calls.              *)
EXTENDS OutboundBreaker, TLC

CONSTANTS k1, k2, k3

ThreeCallers == {k1, k2, k3}

\* Callers are interchangeable.
Symmetry == Permutations(Callers)

=============================================================================
