----------------------------- MODULE MCJobQueue -----------------------------
(* Small instances of JobQueue for TLC.  Rows never interact, so one job and *)
(* two threads of each kind show every interleaving on a row.                *)
EXTENDS JobQueueLease

CONSTANTS j1, w1, w2, c1, c2

MCJobs == {j1}
OneWorker == {w1}
TwoWorkers == {w1, w2}
TwoClients == {c1, c2}

=============================================================================
