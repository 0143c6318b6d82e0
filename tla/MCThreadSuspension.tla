------------------------- MODULE MCThreadSuspension -------------------------
(* Small instances of ThreadSuspension for TLC. *)
EXTENDS ThreadSuspension

CONSTANTS t1, t2, t3

MCThreads == {t1, t2, t3}

\* Every operation that a thread starts returns (SuspendAll, ResumeAll, WaitSuspension).
\* The specification treats all threads alike, so one of them stands for each.
MCOperationsReturn == OperationsReturn(t1)
=============================================================================
