--------------------------- MODULE MCIngestStore ---------------------------
(* Small instances of IngestStore: one source with two versions, which is    *)
(* all that a lineage needs, at one place.                                   *)
EXTENDS IngestStore, TLC

CONSTANTS p1, s1, a, b, j1, j2, j3, c1, c2

OnePlace == {p1}
OwnProfile == [p \in Places |-> p]
OneSource == {s1}
TwoContents == {a, b}
LongContent == {b}
TwoJobs == {j1, j2}
ThreeJobs == {j1, j2, j3}
OneClient == {c1}
TwoClients == {c1, c2}

\* Jobs are interchangeable, and so are clients; used in safety runs only.
Symmetry == Permutations(Jobs) \cup Permutations(Clients)

=============================================================================
