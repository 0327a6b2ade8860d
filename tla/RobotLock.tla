----------------------------- MODULE RobotLock -----------------------------
(***************************************************************************)
(* The robot lock of a robot extension (`exclusive` and the tool wrapper   *)
(* in packages/embodied/src/robot.ts): one robot call at a time, the       *)
(* agent's or an operator's.                                               *)
(*                                                                         *)
(* Each call links a promise of its own into a chain and waits until every *)
(* link before it is released.  A link is released when its call ends, or  *)
(* when its caller gives up waiting; a released link holds nobody up, so   *)
(* `before` keeps only the others.                                         *)
(***************************************************************************)
CONSTANTS
    Callers,   \* who calls the robot, each one call at a time
    Nobody     \* no caller

ASSUME LockAssumption == Nobody \notin Callers

VARIABLES
    place,    \* place[c]: where the call of caller c is
    before,   \* before[c]: the links it waits for
    signal    \* the caller whose abort signal the robot's RPCs get

lockVars == <<place, before, signal>>

Place == {"away", "waiting", "running"}

LockTypeOK ==
    /\ place \in [Callers -> Place]
    /\ before \in [Callers -> SUBSET Callers]
    /\ signal \in Callers \cup {Nobody}

LockInit ==
    /\ place = [c \in Callers |-> "away"]
    /\ before = [c \in Callers |-> {}]
    /\ signal = Nobody

(* The calls robotCalls counts, which are those of the unreleased links.   *)
robotQueue == {c \in Callers : place[c] # "away"}

(* Mutant: the chain holds the calls that wait, not the one that runs.     *)
LinkToLine(c) ==
    before' = [before EXCEPT ![c] = {d \in robotQueue : place[d] = "waiting"}]

(* robotQueue = before.then(() => mine)                                    *)
Link(c) == before' = [before EXCEPT ![c] = robotQueue]

Release(c) == before' = [d \in Callers |-> before[d] \ {c}]

(* With the robot free the call runs at once, whatever its signal.         *)
Arrive(c) ==
    /\ place[c] = "away"
    /\ Link(c)
    /\ IF robotQueue = {}
         THEN place' = [place EXCEPT ![c] = "running"] /\ signal' = c
         ELSE place' = [place EXCEPT ![c] = "waiting"] /\ UNCHANGED signal

MyTurn(c) == place[c] = "waiting" /\ before[c] = {}

Turn(c) ==
    /\ MyTurn(c)
    /\ place' = [place EXCEPT ![c] = "running"]
    /\ signal' = c
    /\ UNCHANGED before

(* Mutant: who gives up does not release its link.                         *)
LeaveLinked(c) ==
    /\ place[c] = "waiting"
    /\ place' = [place EXCEPT ![c] = "away"]
    /\ UNCHANGED <<before, signal>>

(* A caller that waits gives up, or is refused when its turn comes.        *)
Leave(c) ==
    /\ place[c] = "waiting"
    /\ place' = [place EXCEPT ![c] = "away"]
    /\ Release(c)
    /\ UNCHANGED signal

(* The finally blocks of the call and of exclusive.                        *)
LetGo(c) ==
    /\ place[c] = "running"
    /\ place' = [place EXCEPT ![c] = "away"]
    /\ Release(c)
    /\ signal' = Nobody

LockNext == \E c \in Callers : Arrive(c) \/ Turn(c) \/ Leave(c) \/ LetGo(c)

LockSpec == LockInit /\ [][LockNext]_lockVars

---------------------------------------------------------------------------
(* Properties.                                                             *)

(* One robot call at a time, however calls arrive, leave the line and end, *)
(* and while it runs the robot's RPCs get the signal of its own caller:    *)
(* "neither overwrites the other's `signal`" (robot.ts:558-560).           *)
RunsAloneWithItsSignal ==
    \A c \in Callers :
        place[c] = "running" =>
            /\ signal = c
            /\ \A d \in Callers : place[d] = "running" => d = c
=============================================================================
