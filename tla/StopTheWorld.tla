---------------------------- MODULE StopTheWorld ----------------------------
(***************************************************************************)
(* What Runtime::SuspendAll and ResumeAll promise their callers            *)
(* (ecmascript/runtime.cpp, ecmascript/checkpoint/thread_state_transition.h)*)
(* An initiator closes the world: from then on no thread starts to run     *)
(* managed code, the ones that run it leave, and when none is left the     *)
(* initiator has the heap to itself until it reopens the world.            *)
(***************************************************************************)
CONSTANTS Threads, None

VARIABLES mutators,    \* threads that run managed code
          initiator,   \* the thread that is stopping the world
          phase        \* how far it has come

absVars == <<mutators, initiator, phase>>

Phases == {"open", "closing", "closed", "stopped"}

AbsTypeOK ==
    /\ mutators \in SUBSET Threads
    /\ initiator \in Threads \cup {None}
    /\ phase \in Phases

Init ==
    /\ mutators = {}
    /\ initiator = None
    /\ phase = "open"

Enter(t) ==
    /\ t \notin mutators /\ phase \in {"open", "closing"}
    /\ mutators' = mutators \cup {t}
    /\ UNCHANGED <<initiator, phase>>

Leave(t) ==
    /\ t \in mutators
    /\ mutators' = mutators \ {t}
    /\ UNCHANGED <<initiator, phase>>

Begin(t) ==
    /\ initiator = None /\ t \notin mutators
    /\ initiator' = t
    /\ phase' = "closing"
    /\ UNCHANGED mutators

Close ==
    /\ phase = "closing"
    /\ phase' = "closed"
    /\ UNCHANGED <<mutators, initiator>>

Stop ==
    /\ phase = "closed" /\ mutators = {}
    /\ phase' = "stopped"
    /\ UNCHANGED <<mutators, initiator>>

\* The world stays closed until every request has been taken back.
Restart ==
    /\ phase = "stopped"
    /\ phase' = "closed"
    /\ UNCHANGED <<mutators, initiator>>

Reopen ==
    /\ phase = "closed" /\ mutators = {}
    /\ phase' = "open"
    /\ initiator' = None
    /\ UNCHANGED mutators

Next ==
    \/ \E t \in Threads : Enter(t) \/ Leave(t) \/ Begin(t)
    \/ Close \/ Stop \/ Restart \/ Reopen

Spec == Init /\ [][Next]_absVars
=============================================================================
