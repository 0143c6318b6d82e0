----------------------------- MODULE MCTaskPool -----------------------------
(* Instances of TaskPool for TLC. *)
EXTENDS TaskPool

CONSTANTS v1, v2, w1, w2, k1, k2

MCVMs == {v1, v2}
MCWorkers == {w1, w2}
TwoTasks == {k1, k2}

\* The tasks are alike, and so are the VMs.
MCTaskRuns == TaskRuns(k1)
MCDestroyReturns == DestroyReturns(v1)
=============================================================================
