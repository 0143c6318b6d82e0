------------------------ MODULE MCConcurrentMarking ------------------------
(* Instances of ConcurrentMarking for TLC. *)
EXTENDS ConcurrentMarking, TLC

CONSTANTS o1, o2, w1, w2

TwoObjects == {o1, o2}
MCWorkers == {w1, w2}

MCSymmetry == Permutations(TwoObjects) \cup Permutations(MCWorkers)
=============================================================================
