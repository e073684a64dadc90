--------------------------- MODULE MCJobDispatch ---------------------------
(* Small instances of JobDispatch: one job, its clients, and one thread more *)
(* than the registry should ever let run.                                    *)
EXTENDS JobDispatch

CONSTANTS j1, w1, w2, c1, c2

MCJobs == {j1}
TwoWorkers == {w1, w2}
TwoClients == {c1, c2}

=============================================================================
