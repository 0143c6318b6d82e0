------------------------ MODULE MCConcurrentSweeper ------------------------
(* Instances of ConcurrentSweeper for TLC. *)
EXTENDS ConcurrentSweeper, TLC

CONSTANTS r1, r2, w1, w2

MCRegions == {r1, r2}
MCSpaceOf == (r1 :> OLD_SPACE) @@ (r2 :> NON_MOVABLE)
MCWorkers == {w1, w2}
=============================================================================
