---------------------------- MODULE MCChangeWatch ----------------------------
(* Small instances of ChangeWatch: two watches, of which one matches both    *)
(* kinds of change and the other one kind, and two or three threads.         *)
EXTENDS ChangeWatch, TLC

CONSTANTS t1, t2, t3, x1, x2, g, h

TwoThreads == {t1, t2}
ThreeThreads == {t1, t2, t3}
TwoWatches == {x1, x2}
TwoChanges == {g, h}
SomeMatching == (x1 :> {g, h}) @@ (x2 :> {g})

\* Threads are interchangeable.
Symmetry == Permutations(Threads)

=============================================================================
