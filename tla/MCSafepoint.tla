---------------------------- MODULE MCSafepoint ----------------------------
(* Instances of Safepoint for TLC. *)
EXTENDS Safepoint

CONSTANT n1

OneNotifier == {n1}
=============================================================================
