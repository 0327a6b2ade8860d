------------------------- MODULE RpcFacade_proofs -------------------------
(***************************************************************************)
(* Proofs about RpcFacade, for every set of calls and every number of      *)
(* stops.                                                                  *)
(***************************************************************************)
EXTENDS RpcFacade, TLAPS

(* No call has seen a generation that is still to come. *)
ArrivalPast == \A c \in Calls : arrival[c] <= gen

(* When a late step may have been counted: only for a call in its handler  *)
(* (between two steps) or over, and only after a stop.                     *)
LateOnlyWhenStopped ==
    \A c \in Calls :
        /\ late[c] <= 1
        /\ ~StopHit(c) => late[c] = 0
        /\ pc[c] \in {"new", "admitted", "waiting", "entering", "moving"} => late[c] = 0

IInv == FacadeTypeOK /\ OneCallAtATime /\ ArrivalPast /\ LateOnlyWhenStopped

USE FacadeAssumption DEF FacadeAssumption

(* The invariant holds initially.                                          *)
LEMMA InitIInv == FacadeInit => IInv
<1> SUFFICES ASSUME FacadeInit PROVE IInv
  OBVIOUS
<1> USE DEF FacadeInit
<1>1. FacadeTypeOK
  BY DEF FacadeTypeOK, PC, Down
<1>2. OneCallAtATime
  BY DEF OneCallAtATime, InHandler
<1>3. ArrivalPast /\ LateOnlyWhenStopped
  BY DEF ArrivalPast, LateOnlyWhenStopped
<1> QED
  BY <1>1, <1>2, <1>3 DEF IInv

(* Every step of a call, a stop and the process keeps the invariant.       *)
LEMMA StepIInv == IInv /\ [Next]_facadeVars => IInv'
<1> SUFFICES ASSUME IInv, [Next]_facadeVars PROVE IInv'
  OBVIOUS
<1> USE DEF IInv, FacadeTypeOK, OneCallAtATime, ArrivalPast, LateOnlyWhenStopped,
            PC, Down, InHandler, Ended, StopHit, Goto, Bump
<1>1. ASSUME NEW c \in Calls, Admit(c, FALSE) PROVE IInv'
  BY <1>1 DEF Admit
<1>2. ASSUME NEW c \in Calls, Arrive(c) PROVE IInv'
  BY <1>2 DEF Arrive
<1>3. ASSUME NEW c \in Calls, Enter(c) PROVE IInv'
  BY <1>3 DEF Enter
<1>4. ASSUME NEW c \in Calls, Start(c) PROVE IInv'
  BY <1>4 DEF Start
<1>5. ASSUME NEW c \in Calls, Poll(c) PROVE IInv'
  BY <1>5 DEF Poll, StopRequested
<1>6. ASSUME NEW c \in Calls, Move(c) PROVE IInv'
  BY <1>6 DEF Move
<1>7. ASSUME NEW c \in Calls, Return(c) PROVE IInv'
  BY <1>7 DEF Return
<1>8. CASE Stop
  BY <1>8 DEF Stop
<1>9. CASE ProcessStep
  BY <1>9 DEF ProcessStep, AskShutdown, Shutdown, ParentDeath, Exit
<1>10. CASE UNCHANGED facadeVars
  BY <1>10 DEF facadeVars
<1> QED
  BY <1>1, <1>2, <1>3, <1>4, <1>5, <1>6, <1>7, <1>8, <1>9, <1>10 DEF Next, CallStep

(* The invariant everything below rests on holds in every reachable state. *)
THEOREM FacadeInvariant == Spec => []IInv
<1>1. FacadeInit => IInv
  BY InitIInv
<1>2. IInv /\ [Next]_facadeVars => IInv'
  BY StepIInv
<1> QED
  BY <1>1, <1>2, PTL DEF Spec

(* Every variable keeps its type (RpcFacade.__init__ and every assignment  *)
(* to what it declares).                                                   *)
THEOREM FacadeTypeCorrect == Spec => []FacadeTypeOK
<1>1. IInv => FacadeTypeOK
  BY DEF IInv
<1> QED
  BY <1>1, FacadeInvariant, PTL

(* Business calls run one at a time, whichever threads race for the lock   *)
(* (RpcFacade._run_call).                                                  *)
THEOREM OneCallAtATimeHolds == Spec => []OneCallAtATime
<1>1. IInv => OneCallAtATime
  BY DEF IInv
<1> QED
  BY <1>1, FacadeInvariant, PTL

(* However many stops come, and wherever they find a call, at most the     *)
(* step in progress ends after them (RpcFacade.stop_requested).            *)
THEOREM StopBoundsMotionHolds == Spec => []StopBoundsMotion
<1>1. IInv => StopBoundsMotion
  BY DEF IInv, StopBoundsMotion, LateOnlyWhenStopped
<1> QED
  BY <1>1, FacadeInvariant, PTL

---------------------------------------------------------------------------
(* The refinement of SafeMotion.                                           *)

(* Mover is the call that is moving, when one is.                          *)
LEMMA MoverIsMoving ==
    ASSUME OneCallAtATime, NEW c \in Calls, pc[c] = "moving"
    PROVE  Mover = c
<1>1. \A d \in Calls : pc[d] = "moving" => d = c
  BY DEF OneCallAtATime, InHandler
<1> QED
  BY <1>1 DEF Mover

(* The same in the next state.                                             *)
LEMMA MoverIsMovingNext ==
    ASSUME OneCallAtATime', NEW c \in Calls, pc'[c] = "moving"
    PROVE  Mover' = c
<1>1. \A d \in Calls : pc'[d] = "moving" => d = c
  BY DEF OneCallAtATime, InHandler
<1> QED
  BY <1>1 DEF Mover

(* A step that starts and ends no motion step leaves the mover alone.      *)
LEMMA SameMover ==
    ASSUME OneCallAtATime, OneCallAtATime',
           \A c \in Calls : pc'[c] = "moving" <=> pc[c] = "moving"
    PROVE  Mover' = Mover
<1>1. CASE \E c \in Calls : pc[c] = "moving"
  BY <1>1, MoverIsMoving, MoverIsMovingNext
<1>2. CASE ~ \E c \in Calls : pc[c] = "moving"
  BY <1>2 DEF Mover
<1> QED
  BY <1>1, <1>2

(* Nothing takes a call out of Barred: generations only grow, and a call   *)
(* that is over stays over.                                                *)
LEMMA BarredGrows == IInv /\ [Next]_facadeVars => Barred \subseteq Barred'
<1> SUFFICES ASSUME IInv, [Next]_facadeVars, NEW d \in Barred PROVE d \in Barred'
  OBVIOUS
<1> USE DEF Barred, Received, IInv, FacadeTypeOK, ArrivalPast, Ended, StopHit, Goto, Bump
<1>1. ASSUME NEW c \in Calls, CallStep(c) PROVE d \in Barred'
  BY <1>1 DEF CallStep, Admit, Arrive, Enter, Start, Poll, Move, Return
<1>2. CASE Stop
  BY <1>2 DEF Stop
<1>3. CASE ProcessStep
  BY <1>3 DEF ProcessStep, AskShutdown, Shutdown, ParentDeath, Exit
<1>4. CASE UNCHANGED facadeVars
  BY <1>4 DEF facadeVars
<1> QED
  BY <1>1, <1>2, <1>3, <1>4 DEF Next

(* So such a step only bars calls, in SafeMotion's terms.                  *)
LEMMA OnlyBars ==
    ASSUME Mover' = Mover, Barred \subseteq Barred'
    PROVE  Motion!Next
<1>1. Barred' \ Barred \in SUBSET Calls
  BY DEF Barred, Received
<1>2. Motion!Bar(Barred' \ Barred)
  BY DEF Motion!Bar
<1> QED
  BY <1>1, <1>2 DEF Motion!Next

(* The initial states are those of SafeMotion.                             *)
LEMMA InitRefines == FacadeInit => Motion!Init
  BY DEF FacadeInit, Motion!Init, Mover, Barred, Received

(* Every step is a step of SafeMotion, or a stutter.                       *)
LEMMA StepRefines ==
    IInv /\ IInv' /\ [Next]_facadeVars => [Motion!Next]_(Motion!motionVars)
<1> SUFFICES ASSUME IInv, IInv', [Next]_facadeVars
             PROVE  Motion!Next \/ UNCHANGED <<Mover, Barred>>
  BY DEF Motion!motionVars
<1> USE DEF IInv, FacadeTypeOK, Goto
<1>0. Barred \subseteq Barred'
  BY BarredGrows
<1>1. ASSUME NEW c \in Calls, Poll(c) PROVE Motion!Begin(c)
  <2>1. \A d \in Calls : pc[d] # "moving"
    BY <1>1 DEF Poll, OneCallAtATime, InHandler
  <2>2. Mover = NoCall
    BY <2>1 DEF Mover
  <2>3. Mover' = c
    BY <1>1, MoverIsMovingNext DEF Poll
  <2>4. c \notin Barred
    BY <1>1 DEF Poll, Barred, Ended, StopRequested, OneCallAtATime, InHandler
  <2>5. Barred' = Barred
    BY <1>1 DEF Poll, Barred, Received, Ended, StopHit
  <2> QED
    BY <2>2, <2>3, <2>4, <2>5 DEF Motion!Begin
<1>2. ASSUME NEW c \in Calls, Move(c) PROVE Motion!End
  <2>1. Mover = c
    BY <1>2, MoverIsMoving DEF Move
  <2>2. \A d \in Calls : pc'[d] # "moving"
    BY <1>2 DEF Move, OneCallAtATime, InHandler
  <2>3. Mover' = NoCall
    BY <2>2 DEF Mover
  <2>4. Barred' = Barred
    BY <1>2 DEF Move, Barred, Received, Ended, StopHit
  <2> QED
    BY <2>1, <2>3, <2>4 DEF Motion!End
<1>3. ASSUME NEW c \in Calls,
             Admit(c, FALSE) \/ Arrive(c) \/ Enter(c) \/ Start(c) \/ Return(c)
      PROVE  Motion!Next
  <2>1. \A d \in Calls : pc'[d] = "moving" <=> pc[d] = "moving"
    BY <1>3 DEF Admit, Arrive, Enter, Start, Return
  <2> QED
    BY <2>1, <1>0, SameMover, OnlyBars
<1>4. CASE Stop \/ ProcessStep \/ UNCHANGED facadeVars
  <2>1. pc' = pc
    BY <1>4 DEF Stop, ProcessStep, AskShutdown, Shutdown, ParentDeath, Exit, facadeVars
  <2> QED
    BY <2>1, <1>0, SameMover, OnlyBars
<1> QED
  BY <1>1, <1>2, <1>3, <1>4 DEF Next, CallStep, Motion!Next

(* The facade implements SafeMotion: no two calls move the robot at once,  *)
(* and a stopped or answered call begins no step.                          *)
THEOREM FacadeImplementsSafeMotion == Spec => ImplementsSafeMotion
<1>1. FacadeInit => Motion!Init
  BY InitRefines
<1>2. IInv /\ IInv' /\ [Next]_facadeVars => [Motion!Next]_(Motion!motionVars)
  BY StepRefines
<1> QED
  BY <1>1, <1>2, FacadeInvariant, PTL DEF Spec, ImplementsSafeMotion, Motion!Spec
=============================================================================
