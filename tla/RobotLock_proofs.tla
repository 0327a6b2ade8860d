-------------------------- MODULE RobotLock_proofs --------------------------
(***************************************************************************)
(* The robot lock excludes, for any set of callers: one robot call runs at *)
(* a time, under the signal of its own caller.                             *)
(*                                                                         *)
(* Exclusion is not inductive by itself.  It rests on the chain: of any    *)
(* two calls with a link one waits for the other (Ordered), and a call     *)
(* that runs waits for nobody (RunsFree).                                  *)
(***************************************************************************)
EXTENDS RobotLock, TLAPS

Linked == \A d \in Callers : before[d] \subseteq robotQueue \ {d}

Ordered == \A c, d \in robotQueue : c # d => c \in before[d] \/ d \in before[c]

RunsFree == \A c \in Callers : place[c] = "running" => before[c] = {} /\ signal = c

LockInv == LockTypeOK /\ Linked /\ Ordered /\ RunsFree

(* The chain excludes.                                                     *)
LEMMA ChainExcludes == LockInv => RunsAloneWithItsSignal
<1> SUFFICES ASSUME LockInv, NEW c \in Callers, place[c] = "running"
             PROVE  signal = c /\ \A d \in Callers : place[d] = "running" => d = c
    BY DEF RunsAloneWithItsSignal
<1>1. signal = c /\ before[c] = {}
    BY DEF LockInv, RunsFree
<1>2. ASSUME NEW d \in Callers, place[d] = "running"
      PROVE  d = c
    <2>1. before[d] = {}
        BY <1>2 DEF LockInv, RunsFree
    <2>2. c \in robotQueue /\ d \in robotQueue
        BY <1>2 DEF robotQueue
    <2> QED BY <1>1, <2>1, <2>2 DEF LockInv, Ordered
<1> QED BY <1>1, <1>2

LEMMA LockInvInit == LockInit => LockInv
BY DEF LockInit, LockInv, LockTypeOK, Place, Linked, Ordered, RunsFree, robotQueue

(* A call that arrives waits for every link there is.                      *)
LEMMA ArriveKeeps ==
    ASSUME LockInv, NEW c \in Callers, Arrive(c)
    PROVE  LockInv'
<1> USE DEF LockInv
<1>0. robotQueue \subseteq Callers /\ c \notin robotQueue
    BY DEF Arrive, robotQueue
<1>1. /\ before' = [before EXCEPT ![c] = robotQueue]
      /\ \/ /\ robotQueue = {}
            /\ place' = [place EXCEPT ![c] = "running"] /\ signal' = c
         \/ place' = [place EXCEPT ![c] = "waiting"] /\ UNCHANGED signal
    BY DEF Arrive, Link
<1>2. LockTypeOK'
    BY <1>0, <1>1 DEF LockTypeOK, Place
<1>3. robotQueue' = robotQueue \cup {c}
    BY <1>1 DEF robotQueue, LockTypeOK
<1>4. Linked'
    BY <1>0, <1>1, <1>3 DEF Linked, LockTypeOK
<1>5. Ordered'
    BY <1>0, <1>1, <1>3 DEF Ordered, LockTypeOK
<1>6. RunsFree'
    <2> SUFFICES ASSUME NEW d \in Callers, place'[d] = "running"
                 PROVE  before'[d] = {} /\ signal' = d
        BY DEF RunsFree
    <2>1. CASE d = c
        BY <1>1, <2>1 DEF LockTypeOK
    <2>2. CASE d # c
        <3>1. place[d] = "running" /\ d \in robotQueue
            BY <1>1, <2>2 DEF LockTypeOK, robotQueue
        <3> QED BY <1>1, <2>2, <3>1 DEF RunsFree, LockTypeOK
    <2> QED BY <2>1, <2>2
<1> QED BY <1>2, <1>4, <1>5, <1>6

(* Whose turn it is waits for nobody, so nobody runs.                      *)
LEMMA TurnKeeps ==
    ASSUME LockInv, NEW c \in Callers, Turn(c)
    PROVE  LockInv'
<1> USE DEF LockInv
<1>1. /\ place[c] = "waiting" /\ before[c] = {}
      /\ place' = [place EXCEPT ![c] = "running"] /\ signal' = c /\ before' = before
    BY DEF Turn, MyTurn
<1>2. LockTypeOK' /\ robotQueue' = robotQueue
    BY <1>1 DEF LockTypeOK, Place, robotQueue
<1>3. Linked' /\ Ordered'
    BY <1>1, <1>2 DEF Linked, Ordered
<1>4. ASSUME NEW d \in Callers, place[d] = "running"
      PROVE  FALSE
    <2>1. before[d] = {} /\ d # c /\ d \in robotQueue /\ c \in robotQueue
        BY <1>1, <1>4 DEF RunsFree, robotQueue
    <2> QED BY <1>1, <2>1 DEF Ordered
<1>5. RunsFree'
    BY <1>1, <1>4 DEF RunsFree, LockTypeOK
<1> QED BY <1>2, <1>3, <1>5

(* A released link holds nobody up, and orders nobody.                     *)
LEMMA GoneKeeps ==
    ASSUME LockInv, NEW c \in Callers, Leave(c) \/ LetGo(c)
    PROVE  LockInv'
<1> USE DEF LockInv
<1>1. /\ place' = [place EXCEPT ![c] = "away"]
      /\ before' = [d \in Callers |-> before[d] \ {c}]
      /\ place[c] = "running" \/ signal' = signal
      /\ signal' \in {signal, Nobody}
    BY DEF Leave, LetGo, Release
<1>2. LockTypeOK' /\ robotQueue' = robotQueue \ {c}
    BY <1>1 DEF LockTypeOK, Place, robotQueue
<1>3. Linked'
    BY <1>1, <1>2 DEF Linked, LockTypeOK
<1>4. Ordered'
    <2> SUFFICES ASSUME NEW d \in robotQueue', NEW e \in robotQueue', d # e
                 PROVE  d \in before'[e] \/ e \in before'[d]
        BY DEF Ordered
    <2>1. d \in Callers /\ e \in Callers /\ d # c /\ e # c
        BY <1>2 DEF robotQueue
    <2>2. d \in before[e] \/ e \in before[d]
        BY <1>2 DEF Ordered
    <2> QED BY <1>1, <2>1, <2>2
<1>5. RunsFree'
    <2> SUFFICES ASSUME NEW d \in Callers, place'[d] = "running"
                 PROVE  before'[d] = {} /\ signal' = d
        BY DEF RunsFree
    <2>1. d # c /\ place[d] = "running"
        BY <1>1 DEF LockTypeOK
    <2>2. place[c] # "running"
        BY <2>1, ChainExcludes DEF RunsAloneWithItsSignal
    <2> QED BY <1>1, <2>1, <2>2 DEF RunsFree
<1> QED BY <1>2, <1>3, <1>4, <1>5

(* The chain's invariant holds, whatever calls arrive, leave the line and  *)
(* end in whatever order.                                                  *)
LEMMA LockInvariant == LockSpec => []LockInv
<1>1. LockInit => LockInv
    BY LockInvInit
<1>2. LockInv /\ [LockNext]_lockVars => LockInv'
    <2> SUFFICES ASSUME LockInv, [LockNext]_lockVars
                 PROVE  LockInv'
        OBVIOUS
    <2>1. CASE UNCHANGED lockVars
        BY <2>1 DEF lockVars, LockInv, LockTypeOK, Linked, Ordered, RunsFree, robotQueue
    <2>2. CASE LockNext
        <3> PICK c \in Callers : Arrive(c) \/ Turn(c) \/ Leave(c) \/ LetGo(c)
            BY <2>2 DEF LockNext
        <3> QED BY ArriveKeeps, TurnKeeps, GoneKeeps
    <2> QED BY <2>1, <2>2
<1> QED BY <1>1, <1>2, PTL DEF LockSpec

(* One robot call runs at a time, and the robot's RPCs get the abort       *)
(* signal of the caller that runs, whatever calls arrive, leave the line   *)
(* and end in whatever order (exclusive() and `signal`, robot.ts:558-647). *)
THEOREM LockExcludes == LockSpec => []RunsAloneWithItsSignal
BY LockInvariant, ChainExcludes, PTL

(* The lock's variables keep their types.                                  *)
LEMMA LockTypeCorrect == LockSpec => []LockTypeOK
<1>1. LockInv => LockTypeOK
    BY DEF LockInv
<1> QED BY <1>1, LockInvariant, PTL
=============================================================================
