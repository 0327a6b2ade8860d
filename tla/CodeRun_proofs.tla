-------------------------- MODULE CodeRun_proofs --------------------------
(***************************************************************************)
(* Proofs about CodeRun, for every set of calls, of which any are programs,*)
(* and every number of stops.                                              *)
(***************************************************************************)
EXTENDS CodeRun, TLAPS

USE FacadeAssumption, CodeAssumption DEF FacadeAssumption, CodeAssumption

(* No call has seen a generation that is still to come. *)
ArrivalPast == \A c \in Calls : arrival[c] <= gen

(* A run is in progress only while its call is in its handler.             *)
RunInHandler ==
    \A c \in CodeCalls :
        /\ run[c] \notin {"none", "end"} => pc[c] = "running"
        /\ pc[c] \notin {"running", "done"} => run[c] = "none"
        /\ pc[c] = "done" => run[c] = "end"

(* A primitive lives within its run until it is abandoned; the watcher of  *)
(* an abandoned one goes through its states in this order.                 *)
PrimOwned ==
    \A c \in CodeCalls :
        /\ Alive(c) /\ run[c] # "prim" => watcher[c] = "joining"
        /\ watcher[c] \in {"halt", "stopping"} => run[c] = "prim"
        /\ watcher[c] \notin {"none", "halt", "stopping"} => run[c] \in {"killing", "after", "end"}

(* From the halt to its lifting, motion is halted.                         *)
Halting == {"stopping", "joining", "stop", "abort", "lift"}

HaltHeld == \A c \in CodeCalls : watcher[c] \in Halting => halt

(* At most one abandoned primitive is being dealt with, and a primitive    *)
(* that is not abandoned only runs when none is.                           *)
Watched(c) == watcher[c] \notin {"none", "gone"}

OneAbandoned ==
    \A c, d \in CodeCalls :
        Watched(d) /\ (Watched(c) \/ run[c] = "prim") => c = d

(* When a late step may have been counted.                                 *)
LateOnlyWhenStopped ==
    \A c \in Calls :
        /\ late[c] <= 1
        /\ ~StopHit(c) => late[c] = 0
        /\ pc[c] \in {"new", "admitted", "waiting", "entering", "moving"} => late[c] = 0
        /\ c \in CodeCalls => (prim[c] = "moving" => late[c] = 0)

(* A run's own stop is issued, or its timer is about to issue it.          *)
StopAccounted ==
    \A c \in CodeCalls :
        /\ timer[c] # "off" => run[c] # "none"
        /\ issued[c] => run[c] # "none" /\ (StopHit(c) \/ timer[c] = "fired")
        /\ run[c] = "end" /\ outcome[c] \in {"timeout", "abandoned"} => issued[c]

IInv ==
    /\ TypeOK
    /\ OneCallAtATime
    /\ ArrivalPast
    /\ RunInHandler
    /\ PrimOwned
    /\ HaltHeld
    /\ OneAbandoned
    /\ MotionExclusive
    /\ LateOnlyWhenStopped
    /\ StopAccounted

(* Raising one flag of a table of flags leaves a table of flags.          *)
LEMMA SetTrue ==
    ASSUME NEW S, NEW f \in [S -> BOOLEAN], NEW c
    PROVE  [f EXCEPT ![c] = TRUE] \in [S -> BOOLEAN]
  OBVIOUS

(* The invariant holds initially.                                          *)
LEMMA InitIInv == Init => IInv
<1> SUFFICES ASSUME Init PROVE IInv
  OBVIOUS
<1> USE DEF Init, FacadeInit
<1>1. TypeOK
  BY DEF TypeOK, FacadeTypeOK, PC, Down, Run, Child, Prim, Watcher, Timer, Outcome
<1>2. OneCallAtATime /\ ArrivalPast /\ RunInHandler /\ PrimOwned
  BY DEF OneCallAtATime, InHandler, ArrivalPast, RunInHandler, PrimOwned, Alive
<1>3. HaltHeld /\ OneAbandoned /\ MotionExclusive /\ LateOnlyWhenStopped /\ StopAccounted
  BY DEF HaltHeld, Halting, OneAbandoned, Watched, MotionExclusive, Movers,
         LateOnlyWhenStopped, StopAccounted
<1> QED
  BY <1>1, <1>2, <1>3 DEF IInv

(* Every step of a thread of facade and runner keeps the invariant.        *)
LEMMA StepIInv == IInv /\ [CodeRunNext]_vars => IInv'
<1> SUFFICES ASSUME IInv, [CodeRunNext]_vars PROVE IInv'
  OBVIOUS
<1> USE DEF IInv, TypeOK, FacadeTypeOK, PC, Down, Run, Child, Prim, Watcher, Timer, Outcome,
            OneCallAtATime, InHandler, Ended, ArrivalPast, RunInHandler, PrimOwned, Alive,
            HaltHeld, Halting, OneAbandoned, Watched, MotionExclusive, Movers,
            LateOnlyWhenStopped, StopAccounted, StopHit,
            Goto, Bump, RunGoto, EndRun, Abort
<1>1. ASSUME NEW c \in Calls, NEW e \in BOOLEAN, Admit(c, e), UNCHANGED codeVars PROVE IInv'
  BY <1>1 DEF Admit, codeVars
<1>2. ASSUME NEW c \in Calls, Arrive(c), UNCHANGED codeVars PROVE IInv'
  BY <1>2 DEF Arrive, codeVars
<1>3. ASSUME NEW c \in Calls, Enter(c), UNCHANGED codeVars PROVE IInv'
  BY <1>3 DEF Enter, codeVars
<1>4. ASSUME NEW c \in Calls, Start(c), UNCHANGED codeVars PROVE IInv'
  BY <1>4 DEF Start, codeVars
<1>5. ASSUME NEW c \in Calls \ CodeCalls, Poll(c), UNCHANGED codeVars PROVE IInv'
  BY <1>5 DEF Poll, codeVars, StopRequested
<1>6. ASSUME NEW c \in Calls \ CodeCalls, Move(c), UNCHANGED codeVars PROVE IInv'
  BY <1>6 DEF Move, codeVars
<1>7. ASSUME NEW c \in Calls \ CodeCalls, Return(c), UNCHANGED codeVars PROVE IInv'
  BY <1>7 DEF Return, codeVars
<1>8. ASSUME NEW c \in CodeCalls, RunCheck(c) PROVE IInv'
  BY <1>8 DEF RunCheck, facadeVars
<1>9. ASSUME NEW c \in CodeCalls, RunArm(c) PROVE IInv'
  <2>1. TypeOK'
    BY <1>9 DEF RunArm, facadeVars
  <2>2. OneCallAtATime' /\ ArrivalPast' /\ RunInHandler' /\ PrimOwned'
    BY <1>9 DEF RunArm, facadeVars
  <2>3. HaltHeld' /\ OneAbandoned' /\ MotionExclusive'
    BY <1>9 DEF RunArm, facadeVars
  <2>4. LateOnlyWhenStopped' /\ StopAccounted'
    BY <1>9 DEF RunArm, facadeVars
  <2> QED
    BY <2>1, <2>2, <2>3, <2>4
<1>10. ASSUME NEW c \in CodeCalls, RunSpawn(c) PROVE IInv'
  BY <1>10 DEF RunSpawn, facadeVars
<1>11. ASSUME NEW c \in CodeCalls, RunSetup(c) PROVE IInv'
  BY <1>11 DEF RunSetup, facadeVars
<1>12. ASSUME NEW c \in CodeCalls, ServeCheck(c) PROVE IInv'
  BY <1>12 DEF ServeCheck, facadeVars
<1>13. ASSUME NEW c \in CodeCalls, ServeIdle(c) PROVE IInv'
  BY <1>13 DEF ServeIdle, facadeVars
<1>14. ASSUME NEW c \in CodeCalls, ServeRefuse(c) PROVE IInv'
  <2>0. abort' \in BOOLEAN
    BY <1>14, Zenon DEF ServeRefuse, TypeOK
  <2>1. TypeOK'
    BY <1>14, <2>0 DEF ServeRefuse, facadeVars, Reply
  <2>2. OneCallAtATime' /\ ArrivalPast' /\ RunInHandler' /\ PrimOwned'
    BY <1>14 DEF ServeRefuse, facadeVars, Reply
  <2>3. HaltHeld' /\ OneAbandoned' /\ MotionExclusive'
    BY <1>14 DEF ServeRefuse, facadeVars, Reply
  <2>4. LateOnlyWhenStopped' /\ StopAccounted'
    BY <1>14 DEF ServeRefuse, facadeVars, Reply
  <2> QED
    BY <2>1, <2>2, <2>3, <2>4
<1>15. ASSUME NEW c \in CodeCalls, ServeInvoke(c) PROVE IInv'
  BY <1>15 DEF ServeInvoke, facadeVars, StopRequested
<1>16. ASSUME NEW c \in CodeCalls, Joined(c) PROVE IInv'
  BY <1>16 DEF Joined, facadeVars, Reply
<1>17. ASSUME NEW c \in CodeCalls, Abandon(c) PROVE IInv'
  BY <1>17 DEF Abandon, facadeVars
<1>18. ASSUME NEW c \in CodeCalls, AbandonHalt(c) PROVE IInv'
  BY <1>18 DEF AbandonHalt
<1>19. ASSUME NEW c \in CodeCalls, AbandonStop(c) PROVE IInv'
  BY <1>19 DEF AbandonStop
<1>20. ASSUME NEW c \in CodeCalls, RunKill(c) PROVE IInv'
  BY <1>20 DEF RunKill, facadeVars
<1>21. ASSUME NEW c \in CodeCalls, RunStop(c) PROVE IInv'
  <2>1. TypeOK'
    <3>1. child' \in [CodeCalls -> Child]
      BY <1>21 DEF RunStop
    <3>3. gen' \in Nat
      BY <1>21 DEF RunStop
    <3>4. issued' \in [CodeCalls -> BOOLEAN]
      <4>1. issued' = issued \/ issued' = [issued EXCEPT ![c] = TRUE]
        BY <1>21 DEF RunStop
      <4> QED
        BY <4>1, SetTrue
    <3>5. abort' \in BOOLEAN
      BY <1>21 DEF RunStop
    <3>2. run' \in [CodeCalls -> Run]
      BY <1>21 DEF RunStop
    <3> QED
      BY <1>21, <3>1, <3>2, <3>3, <3>4, <3>5 DEF RunStop
  <2>2. OneCallAtATime' /\ ArrivalPast' /\ RunInHandler' /\ PrimOwned'
    BY <1>21 DEF RunStop
  <2>3. HaltHeld' /\ OneAbandoned' /\ MotionExclusive'
    BY <1>21 DEF RunStop
  <2>4. LateOnlyWhenStopped' /\ StopAccounted'
    BY <1>21 DEF RunStop
  <2> QED
    BY <2>1, <2>2, <2>3, <2>4
<1>22. ASSUME NEW c \in CodeCalls, RunReturn(c) PROVE IInv'
  BY <1>22 DEF RunReturn, Return, codeVars
<1>23. ASSUME NEW c \in CodeCalls, PrimPoll(c) PROVE IInv'
  BY <1>23 DEF PrimPoll, facadeVars, StopRequested
<1>24. ASSUME NEW c \in CodeCalls, PrimMove(c) PROVE IInv'
  BY <1>24 DEF PrimMove
<1>25. ASSUME NEW c \in CodeCalls, PrimReturn(c) PROVE IInv'
  BY <1>25 DEF PrimReturn, facadeVars
<1>26. ASSUME NEW c \in CodeCalls, WatchStep(c) PROVE IInv'
  <2>1. CASE WatchJoin(c)
    BY <2>1 DEF WatchJoin, facadeVars
  <2>2. CASE WatchStop(c)
    BY <2>2 DEF WatchStop
  <2>3. CASE WatchAbort(c)
    <3>1. TypeOK'
      BY <2>3 DEF WatchAbort, facadeVars
    <3>2. OneCallAtATime' /\ ArrivalPast' /\ RunInHandler' /\ PrimOwned'
      BY <2>3 DEF WatchAbort, facadeVars
    <3>3. HaltHeld' /\ OneAbandoned' /\ MotionExclusive'
      BY <2>3 DEF WatchAbort, facadeVars
    <3>4. LateOnlyWhenStopped' /\ StopAccounted'
      BY <2>3 DEF WatchAbort, facadeVars
    <3> QED
      BY <3>1, <3>2, <3>3, <3>4
  <2>4. CASE WatchLift(c)
    <3>1. TypeOK'
      BY <2>4 DEF WatchLift
    <3>4. OneCallAtATime' /\ ArrivalPast' /\ RunInHandler'
      BY <2>4 DEF WatchLift
    <3>5. PrimOwned'
      BY <2>4 DEF WatchLift
    <3>2. HaltHeld' /\ OneAbandoned'
      BY <2>4 DEF WatchLift
    <3>3. MotionExclusive' /\ LateOnlyWhenStopped' /\ StopAccounted'
      BY <2>4 DEF WatchLift
    <3> QED
      BY <3>1, <3>2, <3>3, <3>4, <3>5
  <2> QED
    BY <1>26, <2>1, <2>2, <2>3, <2>4 DEF WatchStep
<1>27. ASSUME NEW c \in CodeCalls, TimerStep(c) PROVE IInv'
  <2>1. CASE Expire(c)
    BY <2>1 DEF Expire, facadeVars
  <2>2. CASE TimerWake(c)
    BY <2>2 DEF TimerWake, facadeVars
  <2>3. CASE TimerIssue(c)
    BY <2>3 DEF TimerIssue, facadeVars
  <2>4. CASE TimerStop(c)
    BY <2>4 DEF TimerStop
  <2> QED
    BY <1>27, <2>1, <2>2, <2>3, <2>4 DEF TimerStep
<1>28. ASSUME NEW c \in CodeCalls, ChildStep(c) PROVE IInv'
  BY <1>28 DEF ChildStep, facadeVars
<1>29. CASE ClientStop
  BY <1>29 DEF ClientStop, Stop
<1>31. CASE StopAbort
  BY <1>31 DEF StopAbort, facadeVars
<1>30. CASE UNCHANGED vars
  BY <1>30 DEF vars, facadeVars, codeVars
<1>32. CASE FacadeStep
  <2>1. Exclusive \in BOOLEAN
    BY DEF Exclusive
  <2> QED
    BY <1>1, <1>2, <1>3, <1>4, <1>5, <1>6, <1>7, <1>32, <2>1 DEF FacadeStep
<1> HIDE DEF IInv
<1> QED
  BY <1>8, <1>9, <1>10, <1>11, <1>12, <1>13, <1>14,
     <1>15, <1>16, <1>17, <1>18, <1>19, <1>20, <1>21, <1>22, <1>23, <1>24, <1>25, <1>26, <1>27,
     <1>28, <1>29, <1>30, <1>31, <1>32
  DEF CodeRunNext, CodeNext, RunStep, PrimStep

(* The invariant the results below rest on. *)
THEOREM CodeRunInvariant == CodeRunSpec => []IInv
<1>1. Init => IInv
  BY InitIInv
<1>2. IInv /\ [CodeRunNext]_vars => IInv'
  BY StepIInv
<1> QED
  BY <1>1, <1>2, PTL DEF CodeRunSpec

(* Every variable of the server and its runs keeps its type.               *)
THEOREM CodeRunTypeCorrect == CodeRunSpec => []TypeOK
<1>1. IInv => TypeOK
  BY DEF IInv
<1> QED
  BY <1>1, CodeRunInvariant, PTL

(* However many programs run after one another and whatever they leave     *)
(* behind, no two threads move the robot at once (CodeRunner._invoke and   *)
(* the facade's handlers).                                                 *)
THEOREM MotionExclusiveHolds == CodeRunSpec => []MotionExclusive
<1>1. IInv => MotionExclusive
  BY DEF IInv
<1> QED
  BY <1>1, CodeRunInvariant, PTL

(* Motion stays halted while an abandoned primitive runs                   *)
(* (CodeRunMixin._halt_for_abandoned, _release_abandoned).                 *)
THEOREM HaltCoversAbandonedHolds == CodeRunSpec => []HaltCoversAbandoned
<1>1. IInv => HaltCoversAbandoned
  BY DEF IInv, HaltCoversAbandoned, PrimOwned, HaltHeld, Halting
<1> QED
  BY <1>1, CodeRunInvariant, PTL

(* At most one step of a call, in its handler or its primitive, ends after *)
(* a stop.                                                                 *)
THEOREM CodeRunStopBoundsMotion == CodeRunSpec => []StopBoundsMotion
<1>1. IInv => StopBoundsMotion
  BY DEF IInv, StopBoundsMotion, LateOnlyWhenStopped
<1> QED
  BY <1>1, CodeRunInvariant, PTL

(* A run answered as timed out or abandoned has issued its stop, or its    *)
(* timer is about to (CodeRunner._issue_stop).                             *)
THEOREM TimeoutAnswerStopsHolds == CodeRunSpec => []TimeoutAnswerStops
<1>1. IInv => TimeoutAnswerStops
  BY DEF IInv, TimeoutAnswerStops, StopAccounted, RunInHandler
<1> QED
  BY <1>1, CodeRunInvariant, PTL

---------------------------------------------------------------------------
(* The refinement of SafeMotion.                                           *)

(* Whoever moves is the mover of SafeMotion, as motion is exclusive.       *)
LEMMA MoverIsMoving ==
    ASSUME MotionExclusive, NEW c \in Movers
    PROVE  CodeMover = c
<1>1. c \in Calls /\ \A d \in Movers : d = c
  BY DEF MotionExclusive, Movers
<1> QED
  BY <1>1 DEF CodeMover

(* The same in the next state.                                             *)
LEMMA MoverIsMovingNext ==
    ASSUME MotionExclusive', NEW c \in Movers'
    PROVE  CodeMover' = c
<1>1. c \in Calls /\ \A d \in Movers' : d = c
  BY DEF MotionExclusive, Movers
<1> QED
  BY <1>1 DEF CodeMover

(* A step that leaves the movers alone leaves the mover of SafeMotion.     *)
LEMMA SameMover ==
    ASSUME MotionExclusive, MotionExclusive', Movers' = Movers
    PROVE  CodeMover' = CodeMover
<1>1. CASE Movers = {}
  BY <1>1 DEF CodeMover
<1>2. CASE Movers # {}
  <2>1. PICK c \in Movers : TRUE
    BY <1>2
  <2> QED
    BY <2>1, MoverIsMoving, MoverIsMovingNext
<1> QED
  BY <1>1, <1>2

(* Nothing takes a call out of Barred. *)
LEMMA BarredGrows == IInv /\ [CodeRunNext]_vars => Barred \subseteq Barred'
<1> SUFFICES ASSUME IInv, [CodeRunNext]_vars, NEW d \in Barred PROVE d \in Barred'
  OBVIOUS
<1>0. TypeOK /\ ArrivalPast
  BY DEF IInv
<1> USE <1>0 DEF Barred, Received, TypeOK, FacadeTypeOK, ArrivalPast, Ended, StopHit, Goto, Bump
<1>1. ASSUME NEW c \in Calls, NEW e, Admit(c, e) \/ Arrive(c) \/ Enter(c) \/ Start(c)
      PROVE  d \in Barred'
  BY <1>1 DEF Admit, Arrive, Enter, Start
<1>2. ASSUME NEW c \in Calls, Poll(c) \/ Move(c) \/ Return(c) PROVE d \in Barred'
  BY <1>2 DEF Poll, Move, Return
<1>3. CASE FacadeStep
  BY <1>1, <1>2, <1>3 DEF FacadeStep
<1>4. ASSUME pc' = pc, arrival' = arrival, gen' \in {gen, gen + 1} PROVE d \in Barred'
  BY <1>4
<1>5. ASSUME NEW c \in CodeCalls, RunStep(c) PROVE d \in Barred'
  <2>1. CASE RunReturn(c)
    BY <2>1, <1>2 DEF RunReturn
  <2>2. CASE ~RunReturn(c)
    BY <1>5, <2>2, <1>4
       DEF RunStep, RunCheck, RunArm, RunSpawn, RunSetup, ServeCheck, ServeIdle, ServeRefuse,
           ServeInvoke, Joined, Abandon, AbandonHalt, AbandonStop, RunKill, RunStop, facadeVars
  <2> QED
    BY <2>1, <2>2
<1>6. ASSUME NEW c \in CodeCalls, PrimStep(c) \/ WatchStep(c) \/ TimerStep(c) \/ ChildStep(c)
      PROVE  d \in Barred'
  BY <1>6, <1>4
     DEF PrimStep, PrimPoll, PrimMove, PrimReturn, WatchStep, WatchJoin, WatchStop, WatchAbort,
         WatchLift, TimerStep, Expire, TimerWake, TimerIssue, TimerStop, ChildStep, facadeVars
<1>7. CASE ClientStop \/ StopAbort \/ UNCHANGED vars
  BY <1>7, <1>4 DEF ClientStop, Stop, StopAbort, facadeVars, vars
<1> QED
  BY <1>3, <1>5, <1>6, <1>7 DEF CodeRunNext, CodeNext

(* A step that begins and ends no motion step only bars calls.             *)
LEMMA OnlyBars ==
    ASSUME IInv, IInv', [CodeRunNext]_vars, Movers' = Movers
    PROVE  CodeMotion!Next
<1>1. Barred' \ Barred \in SUBSET Calls
  BY DEF Barred, Received
<1>2. CodeMover' = CodeMover
  BY SameMover DEF IInv
<1>3. Barred' = Barred \cup (Barred' \ Barred)
  BY BarredGrows
<1>4. CodeMotion!Bar(Barred' \ Barred)
  BY <1>2, <1>3 DEF CodeMotion!Bar
<1> QED
  BY <1>1, <1>4 DEF CodeMotion!Next

(* A step begins only while nothing else moves, for a call not barred.     *)
LEMMA BeginRefines ==
    ASSUME MotionExclusive', Movers = {}, NEW c \in Calls, Movers' = {c},
           c \notin Barred, Barred' = Barred
    PROVE  CodeMotion!Next
<1>1. CodeMover = NoCall
  BY DEF CodeMover
<1>2. CodeMover' = c
  BY MoverIsMovingNext
<1> QED
  BY <1>1, <1>2 DEF CodeMotion!Begin, CodeMotion!Next

(* The only mover ends its step: SafeMotion's End.                         *)
LEMMA EndRefines ==
    ASSUME MotionExclusive, NEW c \in Calls, Movers = {c}, Movers' = {}, Barred' = Barred
    PROVE  CodeMotion!Next
<1>1. CodeMover = c
  BY MoverIsMoving
<1>2. CodeMover' = NoCall
  BY DEF CodeMover
<1> QED
  BY <1>1, <1>2 DEF CodeMotion!End, CodeMotion!Next

(* The initial states are those of SafeMotion.                             *)
LEMMA InitRefines == Init => CodeMotion!Init
  BY DEF Init, FacadeInit, CodeMotion!Init, CodeMover, Movers, Barred, Received

(* While motion is not halted, a live primitive is its run's, so its call  *)
(* holds the lock: nothing else is in a handler and no other primitive is. *)
LEMMA UnhaltedPrim ==
    ASSUME IInv, ~halt, NEW c \in CodeCalls, Alive(c)
    PROVE  run[c] = "prim" /\ pc[c] = "running" /\ active = c
<1>1. watcher[c] # "joining"
  BY DEF IInv, HaltHeld, Halting
<1>2. run[c] = "prim"
  BY <1>1 DEF IInv, PrimOwned
<1>3. pc[c] = "running"
  BY <1>2 DEF IInv, RunInHandler
<1> QED
  BY <1>2, <1>3 DEF IInv, OneCallAtATime, InHandler

(* Every step is a step of SafeMotion, or a stutter.                       *)
LEMMA StepRefines ==
    IInv /\ IInv' /\ [CodeRunNext]_vars => [CodeMotion!Next]_(CodeMotion!motionVars)
<1> SUFFICES ASSUME IInv, IInv', [CodeRunNext]_vars PROVE CodeMotion!Next
  OBVIOUS
<1>0. TypeOK /\ OneCallAtATime /\ MotionExclusive /\ MotionExclusive' /\ RunInHandler
  BY DEF IInv
<1>1. ASSUME NEW c \in Calls \ CodeCalls, Poll(c), UNCHANGED codeVars PROVE CodeMotion!Next
  <2>1. ~halt /\ active = c /\ ~StopHit(c)
    BY <1>0, <1>1 DEF Poll, StopRequested, OneCallAtATime, InHandler
  <2>2. Movers = {}
    <3>1. \A d \in CodeCalls : ~Alive(d)
      BY <2>1, <1>1, UnhaltedPrim
    <3>2. \A d \in Calls : pc[d] # "moving"
      BY <1>0, <1>1, <2>1 DEF OneCallAtATime, InHandler, Poll
    <3> QED
      BY <3>1, <3>2 DEF Movers, Alive
  <2>3. Movers' = {c}
    BY <1>0, <1>1, <2>2 DEF Poll, Goto, codeVars, Movers, TypeOK, FacadeTypeOK
  <2>4. c \notin Barred /\ Barred' = Barred
    BY <1>0, <1>1, <2>1 DEF Poll, Goto, Barred, Received, Ended, StopHit, TypeOK, FacadeTypeOK
  <2> QED
    BY <1>0, <2>2, <2>3, <2>4, BeginRefines
<1>2. ASSUME NEW c \in Calls \ CodeCalls, Move(c), UNCHANGED codeVars PROVE CodeMotion!Next
  <2>1. c \in Movers
    BY <1>2 DEF Move, Movers
  <2>2. Movers = {c}
    BY <2>1, <1>0 DEF MotionExclusive
  <2>3. Movers' = {}
    BY <1>0, <1>2, <2>2 DEF Move, Goto, codeVars, Movers, TypeOK, FacadeTypeOK
  <2>4. Barred' = Barred
    BY <1>0, <1>2 DEF Move, Goto, Barred, Received, Ended, StopHit, TypeOK, FacadeTypeOK
  <2> QED
    BY <1>0, <2>2, <2>3, <2>4, EndRefines
<1>3. ASSUME NEW c \in CodeCalls, PrimPoll(c) PROVE CodeMotion!Next
  <2>1. ~halt
    BY <1>3 DEF PrimPoll, StopRequested
  <2>2. pc[c] = "running" /\ active = c
    BY <1>3, <2>1, UnhaltedPrim DEF PrimPoll, Alive
  <2>3. ~StopHit(c)
    BY <1>3, <2>2 DEF PrimPoll, StopRequested
  <2>4. Movers = {}
    <3>1. \A d \in CodeCalls : Alive(d) => d = c
      BY <2>1, <2>2, UnhaltedPrim
    <3>2. \A d \in Calls : pc[d] # "moving"
      BY <1>0, <2>2 DEF OneCallAtATime, InHandler
    <3> QED
      BY <1>3, <3>1, <3>2 DEF Movers, Alive, PrimPoll
  <2>5. Movers' = {c}
    BY <1>0, <1>3, <2>4 DEF PrimPoll, facadeVars, Movers, TypeOK
  <2>6. c \notin Barred /\ Barred' = Barred
    BY <1>3, <2>2, <2>3 DEF PrimPoll, facadeVars, Barred, Received, Ended, StopHit
  <2> QED
    BY <1>0, <2>4, <2>5, <2>6, BeginRefines
<1>4. ASSUME NEW c \in CodeCalls, PrimMove(c) PROVE CodeMotion!Next
  <2>1. c \in Movers
    BY <1>4 DEF PrimMove, Movers
  <2>2. Movers = {c}
    BY <2>1, <1>0 DEF MotionExclusive
  <2>3. Movers' = {}
    <3>1. run[c] # "none"
      BY <1>4 DEF IInv, PrimOwned, Alive, PrimMove
    <3>2. pc[c] # "moving"
      BY <1>0, <3>1 DEF RunInHandler
    <3>3. \A d \in Calls : pc[d] # "moving"
      BY <2>2, <3>2 DEF Movers
    <3>4. \A d \in CodeCalls : prim'[d] # "moving"
      BY <1>0, <1>4, <2>2 DEF PrimMove, Movers, TypeOK
    <3> QED
      BY <1>4, <3>3, <3>4 DEF PrimMove, Movers
  <2>4. Barred' = Barred
    BY <1>4 DEF PrimMove, Barred, Received, Ended, StopHit
  <2> QED
    BY <1>0, <2>2, <2>3, <2>4, EndRefines
<1>5. ASSUME NEW c \in Calls, NEW e,
             \/ Admit(c, e) \/ Arrive(c) \/ Enter(c) \/ Start(c)
             \/ c \notin CodeCalls /\ Return(c),
             UNCHANGED codeVars
      PROVE  CodeMotion!Next
  <2>1. Movers' = Movers
    BY <1>0, <1>5 DEF Admit, Arrive, Enter, Start, Return, Goto, codeVars, Movers,
                      TypeOK, FacadeTypeOK
  <2> QED
    BY <2>1, OnlyBars
<1>6. ASSUME pc' = pc, \A c \in CodeCalls : prim'[c] = "moving" <=> prim[c] = "moving"
      PROVE  CodeMotion!Next
  <2>1. Movers' = Movers
    BY <1>6 DEF Movers
  <2> QED
    BY <2>1, OnlyBars
<1>7. ASSUME NEW c \in CodeCalls, RunStep(c) PROVE CodeMotion!Next
  <2>1. CASE RunReturn(c)
    <3>1. Movers' = Movers
      BY <1>0, <2>1 DEF RunReturn, Return, Goto, codeVars, Movers, TypeOK, FacadeTypeOK
    <3> QED
      BY <3>1, OnlyBars
  <2>2. CASE ServeInvoke(c) \/ Joined(c)
    <3>1. prim[c] # "moving"
      <4>1. CASE Joined(c)
        BY <4>1 DEF Joined
      <4>2. CASE ServeInvoke(c)
        <5>1. run[c] = "polling" /\ ~halt
          BY <4>2 DEF ServeInvoke, StopRequested
        <5> QED
          BY <5>1, UnhaltedPrim DEF Alive
      <4> QED
        BY <2>2, <4>1, <4>2
    <3> QED
      BY <1>0, <1>6, <2>2, <3>1 DEF ServeInvoke, Joined, facadeVars, TypeOK
  <2>3. CASE ~(RunReturn(c) \/ ServeInvoke(c) \/ Joined(c))
    BY <1>6, <1>7, <2>3
       DEF RunStep, RunCheck, RunArm, RunSpawn, RunSetup, ServeCheck, ServeIdle, ServeRefuse,
           Abandon, AbandonHalt, AbandonStop, RunKill, RunStop, facadeVars
  <2> QED
    BY <2>1, <2>2, <2>3
<1>8. ASSUME NEW c \in CodeCalls,
             PrimReturn(c) \/ WatchStep(c) \/ TimerStep(c) \/ ChildStep(c)
      PROVE  CodeMotion!Next
  BY <1>0, <1>6, <1>8
     DEF PrimReturn, WatchStep, WatchJoin, WatchStop, WatchAbort, WatchLift, TimerStep, Expire,
         TimerWake, TimerIssue, TimerStop, ChildStep, facadeVars, TypeOK
<1>9. CASE ClientStop \/ StopAbort \/ UNCHANGED vars
  BY <1>6, <1>9 DEF ClientStop, Stop, StopAbort, facadeVars, vars, codeVars
<1> QED
  BY <1>1, <1>2, <1>3, <1>4, <1>5, <1>7, <1>8, <1>9
     DEF CodeRunNext, FacadeStep, CodeNext, PrimStep

(* A server that runs programs implements SafeMotion too.                  *)
THEOREM CodeRunRefinesSafeMotion == CodeRunSpec => CodeRunImplementsSafeMotion
<1>1. Init => CodeMotion!Init
  BY InitRefines
<1>2. IInv /\ IInv' /\ [CodeRunNext]_vars => [CodeMotion!Next]_(CodeMotion!motionVars)
  BY StepRefines
<1> QED
  BY <1>1, <1>2, CodeRunInvariant, PTL
     DEF CodeRunSpec, CodeRunImplementsSafeMotion, CodeMotion!Spec
=============================================================================
