--------------------------- MODULE MCModuleEvaluation ---------------------------
(***************************************************************************)
(* ModuleEvaluation over every import graph of three modules: each requests *)
(* any of the other two, in any order, and has a top-level await or not.   *)
(***************************************************************************)
EXTENDS ModuleEvaluation

CONSTANTS m1, m2, m3

MCModules == {m1, m2, m3}

Requests == {q \in UNION {[1 .. n -> MCModules] : n \in 0 .. 2} : IsInjective(q)}

MCGraphs ==
    [requests : {f \in [MCModules -> Requests] : \A m \in MCModules : m \notin Range(f[m])},
     tla : SUBSET MCModules]
=================================================================================
