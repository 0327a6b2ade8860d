---------------------------- MODULE SafeMotion ----------------------------
(***************************************************************************)
(* What a robot env server promises about motion, whatever its threads do  *)
(* (services/PROTOCOL.md, "Execution model" and "stop semantics"): one     *)
(* call moves the robot at a time, a step that has begun ends, and a call  *)
(* that was stopped, or that is over, never begins another step.           *)
(*                                                                         *)
(* RpcFacade and CodeRun implement this specification.                     *)
(***************************************************************************)
CONSTANTS Calls, NoCall

VARIABLES
    mover,   \* the call whose motion step is being made, or NoCall
    barred   \* the calls that may begin no further step

motionVars == <<mover, barred>>

Init == mover = NoCall /\ barred = {}

(* A call that is not barred begins a step while no other is moving.       *)
Begin(c) ==
    /\ mover = NoCall
    /\ c \notin barred
    /\ mover' = c
    /\ UNCHANGED barred

End ==
    /\ mover # NoCall
    /\ mover' = NoCall
    /\ UNCHANGED barred

(* A stop, or the end of a call, bars calls for good.                      *)
Bar(S) ==
    /\ barred' = barred \cup S
    /\ UNCHANGED mover

Next == (\E c \in Calls : Begin(c)) \/ End \/ (\E S \in SUBSET Calls : Bar(S))

Spec == Init /\ [][Next]_motionVars
=============================================================================
