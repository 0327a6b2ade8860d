------------------------- MODULE RobotEpisode_proofs -------------------------
(***************************************************************************)
(* Theorems about an episode: it uses the robot lock as RobotLock says     *)
(* (EpisodeUsesLock), and the invariants below hold for any budget, any    *)
(* number of operator steps and any replies.                               *)
(***************************************************************************)
EXTENDS RobotEpisode, RobotLock_proofs

(* Every step of an episode is a step of the robot lock or leaves it alone:*)
(* its callers are the agent's tool calls and the operator's manual ones.  *)
THEOREM EpisodeUsesLock == Spec => LockSpec
<1>1. Init => LockInit
    BY DEF Init
<1>2. [Next]_vars => [LockNext]_lockVars
    <2> SUFFICES ASSUME [Next]_vars
                 PROVE  [LockNext]_lockVars
        OBVIOUS
    <2>0. Agent \in Callers /\ Operator \in Callers
        BY EpisodeAssumption
    <2>1. CASE UNCHANGED vars
        BY <2>1 DEF vars
    <2>2. CASE \/ SessionStart \/ ServerExit \/ Shutdown \/ ServerStops \/ TimePasses
               \/ Deadline \/ UserAborts \/ Prompt \/ Reply
               \/ (\E kind \in ReplyKind : LastReply(kind))
        BY <2>2 DEF SessionStart, ServerExit, Shutdown, ServerStops, TimePasses, Deadline,
                    UserAborts, Prompt, Reply, LastReply
    <2>3. CASE \/ NoSuchCall \/ CallFinish \/ CallMove \/ GateWaits \/ GateOpens
               \/ GateAborted \/ Settle \/ BatchEnd \/ AgentEnd
        BY <2>3 DEF NoSuchCall, CallFinish, CallMove, GateWaits, GateOpens, GateAborted,
                    Settle, BatchEnd, AgentEnd
    <2>4. CASE EnterRobot \/ AgentTurn \/ AgentGivesUp \/ AgentCallEnds
        BY <2>0, <2>4 DEF EnterRobot, AgentTurn, AgentGivesUp, AgentCallEnds, LockNext
    <2>5. CASE \/ OperatorTakes \/ OperatorHandsBack \/ BatchBegin \/ BatchStops
               \/ UnitChecked \/ UnitBegins \/ UnitEnds \/ OperatorDone
        BY <2>5 DEF OperatorTakes, OperatorHandsBack, BatchBegin, BatchStops, UnitChecked,
                    UnitBegins, UnitEnds, OperatorDone
    <2>6. CASE ManualBegin \/ ManualTurn \/ ManualGivesUp \/ ManualEnds
        BY <2>0, <2>6 DEF ManualBegin, ManualTurn, ManualGivesUp, ManualEnds, LockNext
    <2> QED BY <2>1, <2>2, <2>3, <2>4, <2>5, <2>6 DEF Next, AgentStep, OperatorStep
<1> QED BY <1>1, <1>2, PTL DEF Spec, LockSpec

(* In every episode one robot call runs at a time, with its own signal.    *)
THEOREM EpisodeRunsAlone == Spec => []RunsAloneWithItsSignal
BY EpisodeUsesLock, LockExcludes, PTL

---------------------------------------------------------------------------
(* Who drives.  The three properties of the takeover rest on DriveInv.     *)

Plain ==
    /\ place \in [Callers -> Place]
    /\ generation \in Nat /\ informed \in Nat /\ observed \in Nat

(* The lock and the takeover know the same calls as the actors.            *)
Who ==
    /\ agent = "robot" <=> place[Agent] # "away"
    /\ place[Operator] # "away" => hand = "manual"
    /\ operating <=> hand # "none"

(* Past the gate the agent's call is marked, so that nobody takes the      *)
(* robot under it, and while the operator acts none is past the gate.      *)
Gate ==
    /\ units /\ agent \in {"entry", "robot"} => busy
    /\ busy => mode # "human"
    /\ units /\ hand # "none" => agent \notin {"entry", "robot"}
    /\ hand \in {"batch", "looking", "unit"} => units
    /\ parked => Held /\ agent = "gate" /\ aborted = "no"

(* Generations count the operator's steps, so equal generations mean the   *)
(* agent has seen them all, and a call past the gate was decided on them.  *)
Sight ==
    /\ moves = generation
    /\ informed <= generation /\ observed <= generation
    /\ informed = generation => shown = moves
    /\ observed = generation => shown = moves /\ basis = moves
    /\ units /\ agent \in {"entry", "robot"} => observed = generation

DriveInv == Plain /\ Who /\ Gate /\ Sight

(* What a step of the operator does to the facts of DriveInv: it counts,   *)
(* for the takeover and in the history, or neither.                        *)
Moves == generation' = generation + 1 /\ moves' = moves + 1
Still == generation' = generation /\ moves' = moves
Rest ==
    /\ mode' = mode /\ operating' = operating /\ busy' = busy /\ parked' = parked
    /\ agent' = agent /\ units' = units /\ aborted' = aborted
    /\ observed' = observed /\ informed' = informed
    /\ shown' = shown /\ basis' = basis

(* The end of a manual call, for DriveInv.                                 *)
LEMMA ManualEffect ==
    ASSUME ManualEnds
    PROVE  /\ hand = "manual" /\ hand' = "over"
           /\ place' = [place EXCEPT ![Operator] = "away"]
           /\ Rest
           /\ Moves \/ Still
<1>1. hand = "manual" /\ hand' = "over" /\ place' = [place EXCEPT ![Operator] = "away"]
    BY DEF ManualEnds, LetGo
<1>2. agent' = agent /\ units' = units /\ aborted' = aborted /\ shown' = shown /\ basis' = basis
    BY DEF ManualEnds, loopVars
<1>3. PICK ok \in BOOLEAN : IF ok THEN HumanStep /\ moves' = moves + 1
                                  ELSE UNCHANGED <<takeoverVars, moves>>
    BY DEF ManualEnds
<1>4. CASE ok
    BY <1>1, <1>2, <1>3, <1>4 DEF HumanStep, driver, Rest, Moves
<1>5. CASE ~ok
    BY <1>1, <1>2, <1>3, <1>5 DEF takeoverVars, driver, steps, Rest, Still
<1> QED BY <1>1, <1>4, <1>5

(* The end of a teleop unit, for DriveInv.                                 *)
LEMMA UnitEffect ==
    ASSUME UnitEnds
    PROVE  /\ hand = "unit" /\ hand' \in {"batch", "over"}
           /\ place' = place
           /\ Rest
           /\ Moves \/ Still
<1>1. hand = "unit" /\ hand' \in {"batch", "over"} /\ place' = place
    BY DEF UnitEnds, lockVars
<1>2. agent' = agent /\ units' = units /\ aborted' = aborted /\ shown' = shown /\ basis' = basis
    BY DEF UnitEnds, loopVars, robotVars
<1>3. PICK ok \in BOOLEAN : IF ok THEN HumanStep /\ moves' = moves + 1
                                  ELSE UNCHANGED <<takeoverVars, moves>>
    BY DEF UnitEnds
<1>4. CASE ok
    BY <1>1, <1>2, <1>3, <1>4 DEF HumanStep, driver, Rest, Moves
<1>5. CASE ~ok
    BY <1>1, <1>2, <1>3, <1>5 DEF takeoverVars, driver, steps, Rest, Still
<1> QED BY <1>1, <1>4, <1>5

(* Every step keeps DriveInv.                                              *)
LEMMA DriveStep == DriveInv /\ Next => DriveInv'
<1> SUFFICES ASSUME DriveInv, Next PROVE DriveInv' OBVIOUS
<1>0. Agent \in Callers /\ Operator \in Callers /\ Agent # Operator
        BY EpisodeAssumption
<1> USE <1>0 DEF DriveInv, Plain, Who, Gate, Sight, Place
<1> USE DEF lockVars, takeoverVars, driver, steps, episodeVars, robotVars, loopVars, sightVars,
            Abort, Request, Decide, Take, HandBack, Begin, End, HumanStep, Seen, Park, Pass,
            Done, Held, Stale, ItsResultSeen, Arrive, MyTurn, Turn, Leave, LetGo,
            OperatorMayAct
<1>1. CASE SessionStart
    BY <1>1, SMTT(30) DEF SessionStart
<1>2. CASE ServerExit
    BY <1>2, SMTT(30) DEF ServerExit
<1>3. CASE Shutdown
    BY <1>3, SMTT(30) DEF Shutdown
<1>4. CASE ServerStops
    BY <1>4, SMTT(30) DEF ServerStops
<1>5. CASE TimePasses
    BY <1>5, SMTT(30) DEF TimePasses
<1>6. CASE Deadline
    BY <1>6, SMTT(30) DEF Deadline
<1>7. CASE UserAborts
    BY <1>7, SMTT(30) DEF UserAborts
<1>8. CASE Prompt
    BY <1>8, SMTT(30) DEF Prompt
<1>9. CASE Reply
    BY <1>9, SMTT(30) DEF Reply
<1>10. CASE NoSuchCall
    BY <1>10, SMTT(30) DEF NoSuchCall, InBatch
<1>11. CASE CallFinish
    BY <1>11, SMTT(30) DEF CallFinish, InBatch
<1>12. CASE CallMove
    BY <1>12, SMTT(30) DEF CallMove, InBatch
<1>13. CASE GateWaits
    BY <1>13, SMTT(30) DEF GateWaits
<1>14. CASE GateOpens
    BY <1>14, SMTT(30) DEF GateOpens
<1>15. CASE GateAborted
    BY <1>15, SMTT(30) DEF GateAborted
<1>16. CASE EnterRobot
    BY <1>16, SMTT(30) DEF EnterRobot
<1>17. CASE AgentTurn
    BY <1>17, SMTT(30) DEF AgentTurn
<1>18. CASE AgentGivesUp
    BY <1>18, SMTT(30) DEF AgentGivesUp
<1>19. CASE AgentCallEnds
    BY <1>19, SMTT(30) DEF AgentCallEnds
<1>20. CASE Settle
    BY <1>20, SMTT(30) DEF Settle
<1>21. CASE BatchEnd
    BY <1>21, SMTT(30) DEF BatchEnd
<1>22. CASE AgentEnd
    BY <1>22, SMTT(30) DEF AgentEnd
<1>23. CASE OperatorTakes
    BY <1>23, SMTT(30) DEF OperatorTakes
<1>24. CASE OperatorHandsBack
    BY <1>24, SMTT(30) DEF OperatorHandsBack
<1>25. CASE ManualBegin
    BY <1>25, SMTT(30) DEF ManualBegin
<1>26. CASE ManualGivesUp
    BY <1>26, SMTT(30) DEF ManualGivesUp
<1>27. CASE BatchBegin
    BY <1>27, SMTT(30) DEF BatchBegin
<1>28. CASE BatchStops
    BY <1>28, SMTT(30) DEF BatchStops
<1>29. CASE ManualTurn
    BY <1>29, SMTT(30) DEF ManualTurn
<1>30. CASE ManualEnds
    <2>1. /\ hand = "manual" /\ hand' = "over"
          /\ place' = [place EXCEPT ![Operator] = "away"] /\ Rest /\ (Moves \/ Still)
        BY <1>30, ManualEffect
    <2>2. Plain' /\ Who' /\ Gate'
        BY <2>1, SMTT(30) DEF Rest, Moves, Still
    <2>3. Sight'
        BY <2>1, SMTT(30) DEF Rest, Moves, Still
    <2> QED BY <2>2, <2>3
<1>31. CASE UnitBegins
    BY <1>31, SMTT(30) DEF UnitBegins
<1>32. CASE UnitEnds
    <2>1. /\ hand = "unit" /\ hand' \in {"batch", "over"}
          /\ place' = place /\ Rest /\ (Moves \/ Still)
        BY <1>32, UnitEffect
    <2>2. Plain' /\ Who' /\ Gate'
        BY <2>1, SMTT(30) DEF Rest, Moves, Still
    <2>3. Sight'
        BY <2>1, SMTT(30) DEF Rest, Moves, Still
    <2> QED BY <2>2, <2>3
<1>33. CASE OperatorDone
    BY <1>33, SMTT(30) DEF OperatorDone
<1>34. CASE \E kind \in ReplyKind : LastReply(kind)
    BY <1>34, SMTT(30) DEF LastReply
<1>35. CASE UnitChecked
    BY <1>35, SMTT(30) DEF UnitChecked
<1> QED BY <1>1, <1>2, <1>3, <1>4, <1>5, <1>6, <1>7, <1>8, <1>9, <1>10, <1>11, <1>12,
        <1>13, <1>14, <1>15, <1>16, <1>17, <1>18, <1>19, <1>20, <1>21, <1>22, <1>23,
        <1>24, <1>25, <1>26, <1>27, <1>28, <1>29, <1>30, <1>31, <1>32, <1>33, <1>34,
        <1>35 DEF
        Next, AgentStep, OperatorStep

(* An episode begins with DriveInv.                                        *)
LEMMA DriveInit == Init => DriveInv
BY EpisodeAssumption
DEF Init, LockInit, TakeoverInit, DriveInv, Plain, Who, Gate, Sight, Place

(* A stutter keeps DriveInv.                                               *)
LEMMA DriveStutter == DriveInv /\ UNCHANGED vars => DriveInv'
BY DEF vars, lockVars, takeoverVars, driver, steps, episodeVars, robotVars, loopVars, sightVars,
    DriveInv, Plain, Who, Gate, Sight, Held

(* DriveInv holds in every episode.                                        *)
THEOREM DriveInvariant == Spec => []DriveInv
BY DriveInit, DriveStep, DriveStutter, PTL DEF Spec

(* A teleop unit or its look, which take no lock, never run beside a robot *)
(* call: the agent's needs Gate, the operator's own manual call is ruled out by Who.    *)
THEOREM OneDriverHolds == Spec => []OneDriver
<1>1. DriveInv => OneDriver
    <2> SUFFICES ASSUME DriveInv, hand \in {"looking", "unit"}
                 PROVE  \A c \in Callers : place[c] # "running"
        BY DEF OneDriver
    <2>1. place[Operator] # "running"
        BY DEF DriveInv, Who
    <2>2. place[Agent] # "running"
        BY DEF DriveInv, Who, Gate
    <2> QED BY <2>1, <2>2, EpisodeAssumption
<1> QED BY <1>1, DriveInvariant, PTL

(* With units mounted the agent acts on no request older than the          *)
(* operator's last step.                                                   *)
THEOREM AgentActsOnWhatItSawHolds == Spec => []AgentActsOnWhatItSaw
<1>1. DriveInv => AgentActsOnWhatItSaw
    BY DEF DriveInv, Who, Sight, AgentActsOnWhatItSaw
<1> QED BY <1>1, DriveInvariant, PTL

(* A call parked at the gate always has a release or an end to wake it.    *)
THEOREM NoLostWakeupHolds == Spec => []NoLostWakeup
<1>1. DriveInv => NoLostWakeup
    BY DEF DriveInv, Gate, NoLostWakeup
<1> QED BY <1>1, DriveInvariant, PTL

---------------------------------------------------------------------------
(* The result.  OneResult rests on ResultInv.                               *)

(* The extension owns the server until the shutdown, so until then a       *)
(* broken robot is the robot's fault; the shutdown misses no result.       *)
Kept ==
    /\ start \in {"starting", "ready", "failed"} /\ broken \in BOOLEAN
    /\ ran \in BOOLEAN /\ fault \in BOOLEAN /\ owned \in BOOLEAN
    /\ start = "failed" => fault
    /\ broken => fault \/ life # "open"
    /\ ran => start = "ready"
    /\ results # <<>> => start = "failed" \/ ran
    /\ life # "open" => start # "starting" /\ (start = "failed" \/ ran => results # <<>>)

One ==
    \/ results = <<>>
    \/ \E r : results = <<r>> /\ (r.env_error => r.faulty)

ResultInv == (life = "open" => owned) /\ Kept /\ One

Reportable == start = "failed" \/ (start = "ready" /\ ran)

(* A report adds the result if there is none, and blames the robot rightly.*)
LEMMA ReportOne ==
    ASSUME ResultInv, NEW when, Report(when)
    PROVE  One' /\ (results' # <<>> <=> results # <<>> \/ Reportable)
<1>1. CASE results = <<>> /\ Reportable
    <2> DEFINE r == ItsResult(when)
    <2>1. results' = <<r>>
        BY <1>1 DEF Report, Reportable
    <2>2. life = "open"
        BY <1>1, Zenon DEF ResultInv, Kept, Reportable
    <2>3. r.env_error => r.faulty
        <3>1. r.env_error = (start = "failed" \/ broken) /\ r.faulty = fault
            BY DEF ItsResult
        <3>2. start = "failed" \/ broken => fault
            BY <2>2, Zenon DEF ResultInv, Kept
        <3> QED BY <3>1, <3>2, Zenon
    <2> HIDE DEF r
    <2> QED BY <1>1, <2>1, <2>3 DEF One
<1>2. CASE ~(results = <<>> /\ Reportable)
    <2>1. results' = results
        BY <1>2 DEF Report, Reportable
    <2>2. One'
        BY <2>1 DEF One, ResultInv
    <2> QED BY <1>2, <2>1, <2>2
<1> QED BY <1>1, <1>2

(* What a robot call may do to the robot: nothing, or show it broken.      *)
RobotFine == broken' = broken /\ fault' = fault
RobotFails == broken' = TRUE /\ fault' = (fault \/ owned)

(* The end of a robot call, the agent's or the operator's, for ResultInv.  *)
LEMMA CallEffect ==
    ASSUME AgentCallEnds \/ ManualEnds
    PROVE  /\ start' = start /\ owned' = owned /\ ran' = ran
           /\ life' = life /\ results' = results
           /\ RobotFine \/ RobotFails
<1>1. /\ start' = start /\ owned' = owned /\ ran' = ran
      /\ life' = life /\ results' = results
    BY DEF AgentCallEnds, ManualEnds, resultVars
<1>2. CASE AgentCallEnds
    <2>1. \/ UNCHANGED <<overVars, broken, fault>>
          \/ UNCHANGED <<overVars, broken, fault, shown>>
          \/ Fail
        BY <1>2, Zenon DEF AgentCallEnds
    <2> QED BY <1>1, <2>1 DEF Fail, RobotFine, RobotFails
<1>3. CASE ManualEnds
    <2>1. UNCHANGED <<overVars, broken, fault>> \/ Fail
        BY <1>3, Zenon DEF ManualEnds
    <2> QED BY <1>1, <2>1 DEF Fail, RobotFine, RobotFails
<1> QED BY <1>2, <1>3

(* The steps that move ResultInv: a start, the end of a call, a report.    *)
LEMMA ResultMoves ==
    ASSUME ResultInv,
           AgentCallEnds \/ ManualEnds \/ AgentEnd \/ Shutdown
               \/ SessionStart \/ ServerExit
    PROVE  ResultInv'
<1>1. CASE AgentCallEnds \/ ManualEnds
    <2>1. /\ start' = start /\ owned' = owned /\ ran' = ran
          /\ life' = life /\ results' = results
          /\ RobotFine \/ RobotFails
        BY <1>1, CallEffect
    <2>2. One'
        BY <2>1 DEF ResultInv, One
    <2>3. CASE RobotFine
        BY <2>1, <2>2, <2>3, Zenon DEF RobotFine, ResultInv, Kept
    <2>4. CASE RobotFails
        BY <2>1, <2>2, <2>4, SMT DEF RobotFails, ResultInv, Kept
    <2> QED BY <2>1, <2>3, <2>4
<1>2. CASE AgentEnd
    <2>1. /\ life' = life /\ start' = start /\ RobotFine
          /\ ran' = ran /\ owned' = owned
          /\ results' = results \/ Report("agent_end")
        BY <1>2 DEF AgentEnd, robotVars, RobotFine
    <2>2. /\ One'
          /\ \/ results' # <<>> <=> results # <<>>
             \/ results' # <<>> <=> results # <<>> \/ Reportable
        BY <2>1, ReportOne DEF ResultInv, One
    <2>3. /\ results' # <<>> => start = "failed" \/ ran
          /\ life' # "open" => (start = "failed" \/ ran => results' # <<>>)
        BY <2>1, <2>2, Zenon DEF ResultInv, Kept, Reportable
    <2> QED BY <2>1, <2>2, <2>3, Zenon DEF ResultInv, Kept, RobotFine
<1>3. CASE Shutdown
    <2>1. /\ life = "open" /\ life' = "closing" /\ start # "starting"
          /\ Report("shutdown")
          /\ start' = start /\ RobotFine /\ ran' = ran /\ owned' = FALSE
        BY <1>3 DEF Shutdown, RobotFine
    <2>2. One' /\ (results' # <<>> <=> results # <<>> \/ Reportable)
        BY <2>1, ReportOne
    <2>3. results' # <<>> <=> start = "failed" \/ ran
        BY <2>1, <2>2, Zenon DEF ResultInv, Kept, Reportable
    <2>4. life' # "open" /\ owned' \in BOOLEAN
        BY <2>1
    <2> QED BY <2>1, <2>2, <2>3, <2>4, Zenon DEF ResultInv, Kept, RobotFine
<1>4. CASE SessionStart
    <2>1. /\ start = "starting" /\ life' = "open" /\ owned' = owned /\ broken' = broken
          /\ ran' = ran /\ results' = results
          /\ \/ start' = "ready" /\ fault' = fault
             \/ start' = "failed" /\ fault' = TRUE
        BY <1>4 DEF SessionStart, resultVars
    <2>2. One'
        BY <2>1 DEF ResultInv, One
    <2>3. CASE start' = "ready" /\ fault' = fault
        BY <2>1, <2>2, <2>3, SMT DEF ResultInv, Kept
    <2>4. CASE start' = "failed" /\ fault' = TRUE
        BY <2>1, <2>2, <2>4, SMT DEF ResultInv, Kept
    <2> QED BY <2>1, <2>3, <2>4
<1>5. CASE ServerExit
    <2>1. /\ start' = start /\ owned' = owned /\ ran' = ran
          /\ life' = life /\ results' = results
          /\ RobotFails
        BY <1>5 DEF ServerExit, Fail, RobotFails, resultVars
    <2>2. One'
        BY <2>1 DEF ResultInv, One
    <2> QED BY <2>1, <2>2, SMT DEF RobotFails, ResultInv, Kept
<1> QED BY <1>1, <1>2, <1>3, <1>4, <1>5

(* Every step keeps ResultInv.                                             *)
LEMMA ResultStep == ResultInv /\ Next => ResultInv'
<1> SUFFICES ASSUME ResultInv, Next PROVE ResultInv' OBVIOUS
<1>1. CASE AgentCallEnds \/ ManualEnds \/ AgentEnd \/ Shutdown
          \/ SessionStart \/ ServerExit
    BY <1>1, ResultMoves
<1> USE DEF ResultInv, Kept, One, robotVars, resultVars, episodeVars
<1>2. CASE ServerStops
    BY <1>2, SMTT(30) DEF ServerStops
<1>3. CASE TimePasses
    BY <1>3, SMTT(30) DEF TimePasses
<1>4. CASE Deadline
    BY <1>4, SMTT(30) DEF Deadline
<1>5. CASE UserAborts
    BY <1>5, SMTT(30) DEF UserAborts
<1>6. CASE Prompt
    BY <1>6, SMTT(30) DEF Prompt
<1>7. CASE Reply
    BY <1>7, SMTT(30) DEF Reply
<1>8. CASE NoSuchCall
    BY <1>8, SMTT(30) DEF NoSuchCall
<1>9. CASE CallFinish
    BY <1>9, SMTT(30) DEF CallFinish
<1>10. CASE CallMove
    BY <1>10, SMTT(30) DEF CallMove
<1>11. CASE GateWaits
    BY <1>11, SMTT(30) DEF GateWaits
<1>12. CASE GateOpens
    BY <1>12, SMTT(30) DEF GateOpens
<1>13. CASE GateAborted
    BY <1>13, SMTT(30) DEF GateAborted
<1>14. CASE EnterRobot
    BY <1>14, SMTT(30) DEF EnterRobot
<1>15. CASE AgentTurn
    BY <1>15, SMTT(30) DEF AgentTurn
<1>16. CASE AgentGivesUp
    BY <1>16, SMTT(30) DEF AgentGivesUp
<1>17. CASE Settle
    BY <1>17, SMTT(30) DEF Settle
<1>18. CASE BatchEnd
    BY <1>18, SMTT(30) DEF BatchEnd
<1>19. CASE OperatorTakes
    BY <1>19, SMTT(30) DEF OperatorTakes
<1>20. CASE OperatorHandsBack
    BY <1>20, SMTT(30) DEF OperatorHandsBack
<1>21. CASE ManualBegin
    BY <1>21, SMTT(30) DEF ManualBegin
<1>22. CASE ManualGivesUp
    BY <1>22, SMTT(30) DEF ManualGivesUp
<1>23. CASE BatchBegin
    BY <1>23, SMTT(30) DEF BatchBegin
<1>24. CASE BatchStops
    BY <1>24, SMTT(30) DEF BatchStops
<1>25. CASE ManualTurn
    BY <1>25, SMTT(30) DEF ManualTurn
<1>26. CASE UnitBegins
    BY <1>26, SMTT(30) DEF UnitBegins
<1>27. CASE UnitEnds
    BY <1>27, SMTT(30) DEF UnitEnds
<1>28. CASE OperatorDone
    BY <1>28, SMTT(30) DEF OperatorDone
<1>29. CASE \E kind \in ReplyKind : LastReply(kind)
    BY <1>29, SMTT(30) DEF LastReply
<1>30. CASE UnitChecked
    BY <1>30, SMTT(30) DEF UnitChecked
<1> QED BY <1>1, <1>2, <1>3, <1>4, <1>5, <1>6, <1>7, <1>8, <1>9, <1>10, <1>11, <1>12,
        <1>13, <1>14, <1>15, <1>16, <1>17, <1>18, <1>19, <1>20, <1>21, <1>22, <1>23,
        <1>24, <1>25, <1>26, <1>27, <1>28, <1>29, <1>30 DEF Next, AgentStep, OperatorStep

(* An episode begins with ResultInv, and a stutter keeps it.               *)
LEMMA ResultStart == (Init => ResultInv) /\ (ResultInv /\ UNCHANGED vars => ResultInv')
<1>1. Init => ResultInv
    BY DEF Init, ResultInv, Kept, One
<1>2. ASSUME ResultInv, UNCHANGED vars PROVE ResultInv'
    BY <1>2 DEF vars, episodeVars, robotVars, resultVars, ResultInv, Kept, One
<1> QED BY <1>1, <1>2

(* ResultInv holds in every episode.                                       *)
THEOREM ResultInvariant == Spec => []ResultInv
BY ResultStart, ResultStep, PTL DEF Spec

(* One result at most, and at the shutdown exactly one for an episode that *)
(* had an agent run or failed to start, and none without; and it does not  *)
(* blame the robot for what the shutdown did to it.                        *)
THEOREM OneResultHolds == Spec => []OneResult
<1>1. ASSUME ResultInv PROVE OneResult
    <2>1. CASE results = <<>>
        BY <1>1, <2>1 DEF ResultInv, Kept, OneResult
    <2>2. ASSUME NEW r, results = <<r>>, r.env_error => r.faulty
          PROVE  OneResult
        <3>1. Len(results) = 1 /\ results # <<>> /\ DOMAIN results = {1} /\ results[1] = r
            BY <2>2
        <3>2. \A i \in DOMAIN results : results[i].env_error => results[i].faulty
            BY <2>2, <3>1
        <3> QED BY <1>1, <3>1, <3>2, SMT DEF ResultInv, Kept, OneResult
    <2> QED BY <1>1, <2>1, <2>2 DEF ResultInv, One
<1> QED BY <1>1, ResultInvariant, PTL

---------------------------------------------------------------------------
(* What an episode's state looks like, and the results it reports.  One    *)
(* invariant of parts, each kept by every step; CountsInv needs DriveInv.  *)

(* The flags, in groups.                                                   *)
RobotFlags ==
    /\ units \in BOOLEAN /\ owned \in BOOLEAN /\ up \in BOOLEAN
    /\ broken \in BOOLEAN /\ fault \in BOOLEAN
EndFlags ==
    /\ ended \in BOOLEAN /\ ran \in BOOLEAN
    /\ late \in BOOLEAN /\ timedOut \in BOOLEAN
LoopFlags ==
    /\ plannerError \in BOOLEAN /\ cut \in BOOLEAN
    /\ allEnd \in BOOLEAN /\ finishing \in BOOLEAN
DriverFlags ==
    /\ operating \in BOOLEAN /\ handBack \in BOOLEAN
    /\ busy \in BOOLEAN /\ parked \in BOOLEAN

(* The states of the session, of the run and of the actors.                *)
NamesOK ==
    /\ start \in {"starting", "ready", "failed"}
    /\ outOfBudget \in {"none", "turns", "time"}
    /\ deadline \in {"none", "armed", "off"}
    /\ life \in {"open", "closing"}
    /\ agent \in AgentState
    /\ aborted \in {"no", "user", "time"}
    /\ hand \in {"none", "manual", "batch", "looking", "unit", "over"}
    /\ mode \in {"agent", "requested", "human"}

(* The budget that ended the episode, the timer, and the abort it sends:   *)
(* only a reply after the timer ended the episode is cut off by it, and    *)
(* no such reply is the planner's failure.                                 *)
ClockInv ==
    /\ outOfBudget # "none" => ended
    /\ timedOut => outOfBudget = "time" /\ deadline = "off"
    /\ deadline = "none" <=> ~ran /\ life = "open"
    /\ aborted = "time" => timedOut
    /\ cut => timedOut /\ ~plannerError

(* The takeover marks a call only with units, and only past its gate.      *)
BusyInv ==
    /\ busy => units /\ agent \in {"entry", "robot", "settling"}
    /\ agent = "gate" => units

(* A call under way is the first of the batch.                             *)
CallsInv ==
    /\ todo \in Seq(Tools)
    /\ agent \in {"gate", "entry", "robot", "settling"} => todo # <<>>

(* The counters stay within their bounds.                                  *)
CountsInv ==
    /\ turns \in 0 .. MaxTurns
    /\ generation \in 0 .. MaxSteps /\ informed \in 0 .. MaxSteps /\ observed \in 0 .. MaxSteps
    /\ moves \in 0 .. MaxSteps /\ shown \in 0 .. MaxSteps /\ basis \in 0 .. MaxSteps

(* A result is fair to the planner: a reply the limit cut off counts as    *)
(* the budget's end, not as the planner's failure.                         *)
Fair(r) == r.cut => ~r.planner_error /\ r.budget = "time"

ResultsInv == results \in Seq(Result) /\ \A i \in DOMAIN results : Fair(results[i])

Flags == RobotFlags /\ EndFlags /\ LoopFlags /\ DriverFlags

EpisodeInv ==
    Flags /\ NamesOK /\ ClockInv /\ BusyInv /\ CallsInv /\ CountsInv /\ ResultsInv

(* The groups of steps: each changes little of the state.                  *)
SessionMoves == SessionStart \/ ServerExit \/ Shutdown \/ ServerStops
ClockMoves == TimePasses \/ Deadline \/ UserAborts
RunMoves ==
    \/ Prompt \/ Reply \/ (\E kind \in ReplyKind : LastReply(kind)) \/ AgentEnd \/ BatchEnd
CallMoves ==
    \/ NoSuchCall \/ CallFinish \/ CallMove \/ GateWaits \/ GateOpens \/ GateAborted
RobotMoves == EnterRobot \/ AgentTurn \/ AgentGivesUp \/ AgentCallEnds \/ Settle
OperatorMoves ==
    \/ OperatorTakes \/ OperatorHandsBack
    \/ ManualBegin \/ ManualGivesUp \/ BatchBegin \/ BatchStops \/ OperatorStep

(* The groups are all the steps.                                           *)
LEMMA NextMoves ==
    Next <=> \/ SessionMoves \/ ClockMoves \/ RunMoves \/ CallMoves \/ RobotMoves
             \/ OperatorMoves
BY DEF Next, AgentStep, SessionMoves, ClockMoves, RunMoves, CallMoves, RobotMoves, OperatorMoves

(* Every step keeps the flags of the robot.                                *)
LEMMA RobotFlagsStep == RobotFlags /\ [Next]_vars => RobotFlags'
<1> SUFFICES ASSUME RobotFlags, [Next]_vars PROVE RobotFlags' OBVIOUS
<1> USE DEF RobotFlags, robotVars, overVars, clockVars, loopVars, resultVars, episodeVars,
            sightVars, takeoverVars, driver, steps
<1>1. CASE SessionMoves
    BY <1>1, Zenon DEF SessionMoves, SessionStart, ServerExit, Shutdown, ServerStops, Fail, HandBack
<1>2. CASE ClockMoves
    BY <1>2, Zenon DEF ClockMoves, TimePasses, Deadline, UserAborts, Abort
<1>3. CASE RunMoves
    BY <1>3, Zenon DEF RunMoves, Prompt, Reply, LastReply, AgentEnd, BatchEnd, Request, Decide, HandBack,
        PlannersError
<1>4. CASE CallMoves
    BY <1>4, Zenon DEF CallMoves, NoSuchCall, CallFinish, CallMove, GateWaits, GateOpens, GateAborted,
        CheckBudgets, Park, Pass
<1>5. CASE RobotMoves
    BY <1>5, Zenon DEF RobotMoves, EnterRobot, AgentTurn, AgentGivesUp, AgentCallEnds, Settle,
        ItsResultSeen, Seen, Fail, Done
<1>6. CASE OperatorMoves
    BY <1>6, Zenon DEF OperatorMoves, OperatorTakes, OperatorHandsBack, ManualBegin, ManualGivesUp,
        BatchBegin, BatchStops, OperatorStep, ManualTurn, ManualEnds, UnitChecked, UnitBegins,
        UnitEnds, OperatorDone, Take, HandBack, CheckBudgets, Begin, HumanStep, Fail, End
<1>7. CASE UNCHANGED vars
    BY <1>7, Zenon DEF vars
<1> HIDE DEF RobotFlags
<1> QED BY <1>1, <1>2, <1>3, <1>4, <1>5, <1>6, <1>7, NextMoves

(* Every step keeps the flags of the episode's end.                        *)
LEMMA EndFlagsStep == EndFlags /\ [Next]_vars => EndFlags'
<1> SUFFICES ASSUME EndFlags, [Next]_vars PROVE EndFlags' OBVIOUS
<1> USE DEF EndFlags, robotVars, overVars, clockVars, loopVars, resultVars, episodeVars,
            sightVars, takeoverVars, driver, steps
<1>1. CASE SessionMoves
    BY <1>1, Zenon DEF SessionMoves, SessionStart, ServerExit, Shutdown, ServerStops, Fail, HandBack
<1>2. CASE ClockMoves
    BY <1>2, Zenon DEF ClockMoves, TimePasses, Deadline, UserAborts, Abort
<1>3. CASE RunMoves
    BY <1>3, Zenon DEF RunMoves, Prompt, Reply, LastReply, AgentEnd, BatchEnd, Request, Decide, HandBack,
        PlannersError
<1>4. CASE CallMoves
    BY <1>4, Zenon DEF CallMoves, NoSuchCall, CallFinish, CallMove, GateWaits, GateOpens, GateAborted,
        CheckBudgets, Park, Pass
<1>5. CASE RobotMoves
    BY <1>5, Zenon DEF RobotMoves, EnterRobot, AgentTurn, AgentGivesUp, AgentCallEnds, Settle,
        ItsResultSeen, Seen, Fail, Done
<1>6. CASE OperatorMoves
    BY <1>6, Zenon DEF OperatorMoves, OperatorTakes, OperatorHandsBack, ManualBegin, ManualGivesUp,
        BatchBegin, BatchStops, OperatorStep, ManualTurn, ManualEnds, UnitChecked, UnitBegins,
        UnitEnds, OperatorDone, Take, HandBack, CheckBudgets, Begin, HumanStep, Fail, End
<1>7. CASE UNCHANGED vars
    BY <1>7, Zenon DEF vars
<1> HIDE DEF EndFlags
<1> QED BY <1>1, <1>2, <1>3, <1>4, <1>5, <1>6, <1>7, NextMoves

(* Every step keeps the flags of the run.                                  *)
LEMMA LoopFlagsStep == LoopFlags /\ [Next]_vars => LoopFlags'
<1> SUFFICES ASSUME LoopFlags, [Next]_vars PROVE LoopFlags' OBVIOUS
<1> USE DEF LoopFlags, robotVars, overVars, clockVars, loopVars, resultVars, episodeVars,
            sightVars, takeoverVars, driver, steps
<1>1. CASE SessionMoves
    BY <1>1, Zenon DEF SessionMoves, SessionStart, ServerExit, Shutdown, ServerStops, Fail, HandBack
<1>2. CASE ClockMoves
    BY <1>2, Zenon DEF ClockMoves, TimePasses, Deadline, UserAborts, Abort
<1>3. CASE RunMoves
    BY <1>3, Zenon DEF RunMoves, Prompt, Reply, LastReply, AgentEnd, BatchEnd, Request, Decide, HandBack,
        PlannersError
<1>4. CASE CallMoves
    BY <1>4, Zenon DEF CallMoves, NoSuchCall, CallFinish, CallMove, GateWaits, GateOpens, GateAborted,
        CheckBudgets, Park, Pass
<1>5. CASE RobotMoves
    BY <1>5, Zenon DEF RobotMoves, EnterRobot, AgentTurn, AgentGivesUp, AgentCallEnds, Settle,
        ItsResultSeen, Seen, Fail, Done
<1>6. CASE OperatorMoves
    BY <1>6, Zenon DEF OperatorMoves, OperatorTakes, OperatorHandsBack, ManualBegin, ManualGivesUp,
        BatchBegin, BatchStops, OperatorStep, ManualTurn, ManualEnds, UnitChecked, UnitBegins,
        UnitEnds, OperatorDone, Take, HandBack, CheckBudgets, Begin, HumanStep, Fail, End
<1>7. CASE UNCHANGED vars
    BY <1>7, Zenon DEF vars
<1> HIDE DEF LoopFlags
<1> QED BY <1>1, <1>2, <1>3, <1>4, <1>5, <1>6, <1>7, NextMoves

(* Every step keeps the flags of the takeover.                             *)
LEMMA DriverFlagsStep == DriverFlags /\ [Next]_vars => DriverFlags'
<1> SUFFICES ASSUME DriverFlags, [Next]_vars PROVE DriverFlags' OBVIOUS
<1> USE DEF DriverFlags, robotVars, overVars, clockVars, loopVars, resultVars, episodeVars,
            sightVars, takeoverVars, driver, steps
<1>1. CASE SessionMoves
    BY <1>1, Zenon DEF SessionMoves, SessionStart, ServerExit, Shutdown, ServerStops, Fail, HandBack
<1>2. CASE ClockMoves
    BY <1>2, Zenon DEF ClockMoves, TimePasses, Deadline, UserAborts, Abort
<1>3. CASE RunMoves
    BY <1>3, Zenon DEF RunMoves, Prompt, Reply, LastReply, AgentEnd, BatchEnd, Request, Decide, HandBack,
        PlannersError
<1>4. CASE CallMoves
    BY <1>4, Zenon DEF CallMoves, NoSuchCall, CallFinish, CallMove, GateWaits, GateOpens, GateAborted,
        CheckBudgets, Park, Pass
<1>5. CASE RobotMoves
    BY <1>5, Zenon DEF RobotMoves, EnterRobot, AgentTurn, AgentGivesUp, AgentCallEnds, Settle,
        ItsResultSeen, Seen, Fail, Done
<1>6. CASE OperatorMoves
    BY <1>6, Zenon DEF OperatorMoves, OperatorTakes, OperatorHandsBack, ManualBegin, ManualGivesUp,
        BatchBegin, BatchStops, OperatorStep, ManualTurn, ManualEnds, UnitChecked, UnitBegins,
        UnitEnds, OperatorDone, Take, HandBack, CheckBudgets, Begin, HumanStep, Fail, End
<1>7. CASE UNCHANGED vars
    BY <1>7, Zenon DEF vars
<1> HIDE DEF DriverFlags
<1> QED BY <1>1, <1>2, <1>3, <1>4, <1>5, <1>6, <1>7, NextMoves

(* Every step keeps the named states.                                      *)
LEMMA NamesOKStep == NamesOK /\ [Next]_vars => NamesOK'
<1> SUFFICES ASSUME NamesOK, [Next]_vars PROVE NamesOK' OBVIOUS
<1> USE DEF NamesOK, AgentState, robotVars, overVars, clockVars, loopVars, resultVars, episodeVars,
            sightVars, takeoverVars, driver, steps
<1>1. CASE SessionMoves
    BY <1>1 DEF SessionMoves, SessionStart, ServerExit, Shutdown, ServerStops, Fail, HandBack
<1>2. CASE ClockMoves
    BY <1>2 DEF ClockMoves, TimePasses, Deadline, UserAborts, Abort
<1>3. CASE RunMoves
    BY <1>3 DEF RunMoves, Prompt, Reply, LastReply, AgentEnd, BatchEnd, Request, Decide, HandBack,
        PlannersError, TurnOver
<1>4. CASE CallMoves
    BY <1>4 DEF CallMoves, NoSuchCall, CallFinish, CallMove, GateWaits, GateOpens, GateAborted,
        InBatch, NextCall, CheckBudgets, Park, Pass
<1>5. CASE RobotMoves
    BY <1>5 DEF RobotMoves, EnterRobot, AgentTurn, AgentGivesUp, AgentCallEnds, Settle,
        ItsResultSeen, Seen, Fail, Done, NextCall
<1>6. CASE OperatorMoves
    BY <1>6 DEF OperatorMoves, OperatorTakes, OperatorHandsBack, ManualBegin, ManualGivesUp,
        BatchBegin, BatchStops, OperatorStep, ManualTurn, ManualEnds, UnitChecked, UnitBegins,
        UnitEnds, OperatorDone, Take, HandBack, CheckBudgets, Begin, HumanStep, Fail, End
<1>7. CASE UNCHANGED vars
    BY <1>7 DEF vars
<1> HIDE DEF NamesOK
<1> QED BY <1>1, <1>2, <1>3, <1>4, <1>5, <1>6, <1>7, NextMoves

(* A reply the limit cut off is never the planner's failure, as it ends.   *)
LEMMA ClockInRun == ClockInv /\ RunMoves => ClockInv'
<1> SUFFICES ASSUME ClockInv, RunMoves PROVE ClockInv' OBVIOUS
<1> USE DEF ClockInv, robotVars, overVars, clockVars, loopVars, resultVars
<1>1. CASE Prompt
  BY <1>1 DEF Prompt, Request
<1>2. CASE Reply
  BY <1>2 DEF Reply
<1>3. ASSUME NEW kind \in ReplyKind, LastReply(kind) PROVE ClockInv'
  <2>1. UNCHANGED <<ended, outOfBudget, deadline, timedOut, aborted, ran, life>>
    BY <1>3 DEF LastReply
  <2>2. cut' => timedOut /\ ~plannerError'
    <3>1. (cut' <=> aborted = "time" /\ kind # "leaked") /\ (plannerError' <=> (kind = "error" /\ ~timedOut) \/ kind = "leaked")
      BY <1>3 DEF LastReply, PlannersError
    <3> QED BY <3>1
  <2> QED BY <2>1, <2>2
<1>4. CASE AgentEnd
  BY <1>4 DEF AgentEnd
<1>5. CASE BatchEnd
  BY <1>5 DEF BatchEnd
<1> QED BY <1>1, <1>2, <1>3, <1>4, <1>5 DEF RunMoves

(* Only the first call past a budget names it, and ends the episode.       *)
LEMMA ClockInCalls == ClockInv /\ CallMoves => ClockInv'
<1> SUFFICES ASSUME ClockInv, CallMoves PROVE ClockInv' OBVIOUS
<1> USE DEF ClockInv, robotVars, overVars, clockVars, loopVars, resultVars, episodeVars
<1>1. CASE CallFinish
  <2>1. ended => ended'
    BY <1>1 DEF CallFinish
  <2> QED BY <1>1, <2>1 DEF CallFinish
<1>2. CASE CallMove
  BY <1>2 DEF CallMove, CheckBudgets
<1>3. CASE NoSuchCall \/ GateWaits \/ GateOpens \/ GateAborted
  BY <1>3 DEF NoSuchCall, GateWaits, GateOpens, GateAborted
<1> QED BY <1>1, <1>2, <1>3 DEF CallMoves

(* Every step keeps the clock's facts.                                     *)
LEMMA ClockInvStep == ClockInv /\ [Next]_vars => ClockInv'
<1> SUFFICES ASSUME ClockInv, [Next]_vars PROVE ClockInv' OBVIOUS
<1> USE DEF ClockInv, robotVars, overVars, clockVars, loopVars, resultVars, episodeVars,
            sightVars, takeoverVars, driver, steps
<1>1. CASE SessionMoves
    BY <1>1 DEF SessionMoves, SessionStart, ServerExit, Shutdown, ServerStops, Fail, HandBack
<1>2. CASE ClockMoves
    BY <1>2 DEF ClockMoves, TimePasses, Deadline, UserAborts, Abort
<1>3. CASE RunMoves
    BY <1>3, ClockInRun
<1>4. CASE CallMoves
    BY <1>4, ClockInCalls
<1>5. CASE RobotMoves
    BY <1>5 DEF RobotMoves, EnterRobot, AgentTurn, AgentGivesUp, AgentCallEnds, Settle,
        ItsResultSeen, Seen, Fail, Done, NextCall
<1>6. CASE OperatorMoves
    BY <1>6 DEF OperatorMoves, OperatorTakes, OperatorHandsBack, ManualBegin, ManualGivesUp,
        BatchBegin, BatchStops, OperatorStep, ManualTurn, ManualEnds, UnitChecked, UnitBegins,
        UnitEnds, OperatorDone, Take, HandBack, CheckBudgets, Begin, HumanStep, Fail, End
<1>7. CASE UNCHANGED vars
    BY <1>7 DEF vars
<1> HIDE DEF ClockInv
<1> QED BY <1>1, <1>2, <1>3, <1>4, <1>5, <1>6, <1>7, NextMoves

(* A run's steps touch no marked call: they are taken outside any call.    *)
LEMMA BusyInRun == BusyInv /\ RunMoves => BusyInv'
<1> SUFFICES ASSUME BusyInv, RunMoves PROVE BusyInv' OBVIOUS
<1> USE DEF BusyInv, robotVars, takeoverVars
<1>1. CASE Prompt
  BY <1>1 DEF Prompt, Request, Decide
<1>2. CASE Reply
  BY <1>2 DEF Reply
<1>3. ASSUME NEW kind \in ReplyKind, LastReply(kind) PROVE BusyInv'
  BY <1>3 DEF LastReply
<1>4. CASE AgentEnd
  BY <1>4 DEF AgentEnd, HandBack
<1>5. CASE BatchEnd
  BY <1>5 DEF BatchEnd, Request, Decide
<1> QED BY <1>1, <1>2, <1>3, <1>4, <1>5 DEF RunMoves

(* Every step keeps the mark on the running call.                          *)
LEMMA BusyInvStep == BusyInv /\ [Next]_vars => BusyInv'
<1> SUFFICES ASSUME BusyInv, [Next]_vars PROVE BusyInv' OBVIOUS
<1> USE DEF BusyInv, robotVars, overVars, clockVars, loopVars, resultVars, episodeVars,
            sightVars, takeoverVars, driver, steps
<1>1. CASE SessionMoves
    BY <1>1 DEF SessionMoves, SessionStart, ServerExit, Shutdown, ServerStops, Fail, HandBack
<1>2. CASE ClockMoves
    BY <1>2 DEF ClockMoves, TimePasses, Deadline, UserAborts, Abort
<1>3. CASE RunMoves
    BY <1>3, BusyInRun
<1>4. CASE CallMoves
    BY <1>4 DEF CallMoves, NoSuchCall, CallFinish, CallMove, GateWaits, GateOpens, GateAborted,
        InBatch, NextCall, CheckBudgets, Park, Pass
<1>5. CASE RobotMoves
    BY <1>5 DEF RobotMoves, EnterRobot, AgentTurn, AgentGivesUp, AgentCallEnds, Settle,
        ItsResultSeen, Seen, Fail, Done, NextCall
<1>6. CASE OperatorMoves
    BY <1>6 DEF OperatorMoves, OperatorTakes, OperatorHandsBack, ManualBegin, ManualGivesUp,
        BatchBegin, BatchStops, OperatorStep, ManualTurn, ManualEnds, UnitChecked, UnitBegins,
        UnitEnds, OperatorDone, Take, HandBack, CheckBudgets, Begin, HumanStep, Fail, End
<1>7. CASE UNCHANGED vars
    BY <1>7 DEF vars
<1> HIDE DEF BusyInv
<1> QED BY <1>1, <1>2, <1>3, <1>4, <1>5, <1>6, <1>7, NextMoves

(* A call's steps leave the batch alone until its result takes it off.     *)
LEMMA CallsInCalls == CallsInv /\ (CallMoves \/ RobotMoves) => CallsInv'
<1> SUFFICES ASSUME CallsInv, CallMoves \/ RobotMoves PROVE CallsInv' OBVIOUS
<1>0. todo # <<>> => Tail(todo) \in Seq(Tools)
  BY DEF CallsInv
<1>00. <<>> \in Seq(Tools)
  OBVIOUS
<1> USE DEF CallsInv, loopVars, episodeVars
<1>1. CASE NoSuchCall \/ CallFinish
  BY <1>0, <1>00, <1>1 DEF NoSuchCall, CallFinish, InBatch, NextCall
<1>2. CASE CallMove
  BY <1>2 DEF CallMove, InBatch
<1>3. CASE GateWaits \/ GateOpens \/ GateAborted
  BY <1>3 DEF GateWaits, GateOpens, GateAborted
<1>4. CASE Settle
  BY <1>0, <1>00, <1>4 DEF Settle, NextCall
<1>5. CASE EnterRobot \/ AgentTurn \/ AgentGivesUp \/ AgentCallEnds
  BY <1>5 DEF EnterRobot, AgentTurn, AgentGivesUp, AgentCallEnds
<1> QED BY <1>1, <1>2, <1>3, <1>4, <1>5 DEF CallMoves, RobotMoves

(* Every step keeps the batch.                                             *)
LEMMA CallsInvStep == CallsInv /\ [Next]_vars => CallsInv'
<1> SUFFICES ASSUME CallsInv, [Next]_vars PROVE CallsInv' OBVIOUS
<1>0. Replies \subseteq Seq(Tools) \ {<<>>} /\ MaxTurns \in Nat /\ MaxSteps \in Nat
    BY EpisodeAssumption, TakeoverAssumption
<1> USE DEF CallsInv, robotVars, overVars, clockVars, loopVars, resultVars, episodeVars,
            sightVars, takeoverVars, driver, steps
<1>1. CASE SessionMoves
    BY <1>1, <1>0 DEF SessionMoves, SessionStart, ServerExit, Shutdown, ServerStops, Fail, HandBack
<1>2. CASE ClockMoves
    BY <1>2, <1>0 DEF ClockMoves, TimePasses, Deadline, UserAborts, Abort
<1>3. CASE RunMoves
    BY <1>3, <1>0 DEF RunMoves, Prompt, Reply, LastReply, AgentEnd, BatchEnd, Request, Decide, HandBack,
        PlannersError, TurnOver
<1>4. CASE CallMoves
    BY <1>4, CallsInCalls
<1>5. CASE RobotMoves
    BY <1>5, CallsInCalls
<1>6. CASE OperatorMoves
    BY <1>6, <1>0 DEF OperatorMoves, OperatorTakes, OperatorHandsBack, ManualBegin, ManualGivesUp,
        BatchBegin, BatchStops, OperatorStep, ManualTurn, ManualEnds, UnitChecked, UnitBegins,
        UnitEnds, OperatorDone, Take, HandBack, CheckBudgets, Begin, HumanStep, Fail, End
<1>7. CASE UNCHANGED vars
    BY <1>7 DEF vars
<1> HIDE DEF CallsInv
<1> QED BY <1>1, <1>2, <1>3, <1>4, <1>5, <1>6, <1>7, NextMoves

(* A run counts turns up to the budget, and takes the counters it knows.   *)
LEMMA CountsInRun == CountsInv /\ RunMoves => CountsInv'
<1> SUFFICES ASSUME CountsInv, RunMoves PROVE CountsInv' OBVIOUS
<1>0. MaxTurns \in Nat
  BY EpisodeAssumption
<1> USE DEF CountsInv, sightVars, steps, resultVars, takeoverVars
<1>1. turns' = turns \/ TurnOver
  BY DEF RunMoves, Prompt, Reply, LastReply, AgentEnd, BatchEnd
<1>2. turns' \in 0 .. MaxTurns
  BY <1>0, <1>1 DEF TurnOver
<1>3. UNCHANGED <<generation, informed, moves, shown>> /\ observed' \in {observed, informed} /\ basis' \in {basis, shown}
  BY DEF RunMoves, Prompt, Reply, LastReply, AgentEnd, BatchEnd, Request, Decide, HandBack
<1> QED BY <1>2, <1>3

(* Every step keeps the counters.                                          *)
LEMMA CountsInvStep == CountsInv /\ DriveInv /\ [Next]_vars => CountsInv'
<1> SUFFICES ASSUME CountsInv, DriveInv, [Next]_vars PROVE CountsInv' OBVIOUS
<1>0. Replies \subseteq Seq(Tools) \ {<<>>} /\ MaxTurns \in Nat /\ MaxSteps \in Nat
    BY EpisodeAssumption, TakeoverAssumption
<1>00. moves = generation
    BY DEF DriveInv, Sight
<1> USE DEF CountsInv, robotVars, overVars, clockVars, loopVars, resultVars, episodeVars,
            sightVars, takeoverVars, driver, steps
<1>1. CASE SessionMoves
    BY <1>1, <1>0, <1>00 DEF SessionMoves, SessionStart, ServerExit, Shutdown, ServerStops, Fail, HandBack
<1>2. CASE ClockMoves
    BY <1>2, <1>0, <1>00 DEF ClockMoves, TimePasses, Deadline, UserAborts, Abort
<1>3. CASE RunMoves
    BY <1>3, CountsInRun
<1>4. CASE CallMoves
    BY <1>4, <1>0, <1>00 DEF CallMoves, NoSuchCall, CallFinish, CallMove, GateWaits, GateOpens, GateAborted,
        InBatch, NextCall, CheckBudgets, Park, Pass
<1>5. CASE RobotMoves
    BY <1>5, <1>0, <1>00 DEF RobotMoves, EnterRobot, AgentTurn, AgentGivesUp, AgentCallEnds, Settle,
        ItsResultSeen, Seen, Fail, Done, NextCall
<1>6. CASE OperatorMoves
    BY <1>6, <1>0, <1>00 DEF OperatorMoves, OperatorTakes, OperatorHandsBack, ManualBegin, ManualGivesUp,
        BatchBegin, BatchStops, OperatorStep, ManualTurn, ManualEnds, UnitChecked, UnitBegins,
        UnitEnds, OperatorDone, Take, HandBack, CheckBudgets, Begin, HumanStep, Fail, End
<1>7. CASE UNCHANGED vars
    BY <1>7 DEF vars
<1> HIDE DEF CountsInv
<1> QED BY <1>1, <1>2, <1>3, <1>4, <1>5, <1>6, <1>7, NextMoves

(* The record a report appends, by its fields.                             *)
LEMMA MakeResult ==
    ASSUME NEW w \in {"agent_end", "shutdown"}, NEW e \in BOOLEAN,
           NEW b \in {"none", "turns", "time"}, NEW p \in BOOLEAN, NEW f \in BOOLEAN,
           NEW c \in BOOLEAN, NEW r,
           r = [at |-> w, env_error |-> e, budget |-> b, planner_error |-> p, faulty |-> f, cut |-> c]
    PROVE  r \in Result /\ r.cut = c /\ r.planner_error = p /\ r.budget = b
BY DEF Result

(* What a report would append is a result, and fair.                       *)
LEMMA ResultFair ==
    ASSUME Flags, NamesOK, ClockInv, NEW when \in {"agent_end", "shutdown"}
    PROVE  ItsResult(when) \in Result /\ Fair(ItsResult(when))
<1> DEFINE failed == start = "failed" \/ broken
<1>1. failed \in BOOLEAN /\ plannerError \in BOOLEAN /\ fault \in BOOLEAN /\ cut \in BOOLEAN
  BY Zenon DEF Flags, LoopFlags, RobotFlags
<1>2. outOfBudget \in {"none", "turns", "time"}
  BY DEF NamesOK
<1>3. PICK r : r = ItsResult(when)
  OBVIOUS
<1>4. r = [at |-> when, env_error |-> failed, budget |-> outOfBudget,
           planner_error |-> plannerError, faulty |-> fault, cut |-> cut]
  BY <1>3, Zenon DEF ItsResult
<1> HIDE DEF failed
<1>5. r \in Result /\ r.cut = cut /\ r.planner_error = plannerError /\ r.budget = outOfBudget
  BY ONLY <1>1, <1>2, <1>4, when \in {"agent_end", "shutdown"}, MakeResult
<1>6. cut => ~plannerError /\ outOfBudget = "time"
  BY DEF ClockInv
<1>7. Fair(r)
  BY <1>5, <1>6, Zenon DEF Fair
<1> QED BY <1>3, <1>5, <1>7

(* A fair result appended keeps the results fair.                          *)
LEMMA AppendFair ==
    ASSUME ResultsInv, NEW r \in Result, Fair(r), results' = Append(results, r)
    PROVE  ResultsInv'
<1>1. results \in Seq(Result) /\ results' \in Seq(Result)
  BY DEF ResultsInv
<1>2. /\ DOMAIN results' = 1 .. Len(results) + 1 /\ DOMAIN results = 1 .. Len(results)
      /\ Len(results) \in Nat
      /\ \A i \in 1 .. Len(results) : results'[i] = results[i]
      /\ results'[Len(results) + 1] = r
  <2> HIDE DEF Result
  <2> QED BY <1>1
<1>3. ASSUME NEW i \in DOMAIN results' PROVE Fair(results'[i])
  BY <1>2 DEF ResultsInv
<1> QED BY <1>1, <1>3 DEF ResultsInv, Fair

(* Every step keeps the results fair: it adds none, or reports one.        *)
LEMMA ResultsInvStep == Flags /\ NamesOK /\ ClockInv /\ ResultsInv /\ [Next]_vars => ResultsInv'
<1> SUFFICES ASSUME Flags, NamesOK, ClockInv, ResultsInv, [Next]_vars PROVE ResultsInv' OBVIOUS
<1>1. \/ UNCHANGED results \/ Report("agent_end") \/ Report("shutdown")
  <2> USE DEF resultVars, episodeVars
  <2>1. CASE AgentEnd \/ Shutdown
    BY <2>1 DEF AgentEnd, Shutdown
  <2>2. CASE SessionMoves \/ ClockMoves \/ RunMoves
    BY <2>2 DEF SessionMoves, SessionStart, ServerExit, Shutdown, ServerStops, ClockMoves,
       TimePasses, Deadline, UserAborts, RunMoves, Prompt, Reply, LastReply, AgentEnd, BatchEnd
  <2>3. CASE CallMoves \/ RobotMoves
    BY <2>3 DEF CallMoves, NoSuchCall, CallFinish, CallMove, GateWaits, GateOpens, GateAborted,
       RobotMoves, EnterRobot, AgentTurn, AgentGivesUp, AgentCallEnds, Settle
  <2>4. CASE OperatorMoves
    BY <2>4 DEF OperatorMoves, OperatorTakes, OperatorHandsBack, ManualBegin, ManualGivesUp,
        BatchBegin, BatchStops, OperatorStep, ManualTurn, ManualEnds, UnitChecked, UnitBegins,
        UnitEnds, OperatorDone
  <2>5. CASE UNCHANGED vars
    BY <2>5 DEF vars
  <2> QED BY <2>2, <2>3, <2>4, <2>5, NextMoves
<1>2. CASE UNCHANGED results
  BY <1>2 DEF ResultsInv, Fair
<1>3. ASSUME NEW when \in {"agent_end", "shutdown"}, results' = Append(results, ItsResult(when))
      PROVE  ResultsInv'
  BY <1>3, ResultFair, AppendFair
<1> QED BY <1>1, <1>2, <1>3 DEF Report

(* The invariant holds at the start.                                       *)
LEMMA EpisodeStart == Init => EpisodeInv
<1> SUFFICES ASSUME Init PROVE EpisodeInv OBVIOUS
<1> USE DEF Init, LockInit, TakeoverInit
<1>1. Flags
    BY Zenon DEF Flags, RobotFlags, EndFlags, LoopFlags, DriverFlags
<1>2. NamesOK /\ ClockInv /\ BusyInv
    BY DEF NamesOK, AgentState, ClockInv, BusyInv
<1>3. CallsInv /\ CountsInv
    BY EpisodeAssumption, TakeoverAssumption DEF CallsInv, CountsInv
<1>4. ResultsInv
    BY DEF ResultsInv
<1> QED BY <1>1, <1>2, <1>3, <1>4 DEF EpisodeInv

(* Every step keeps the invariant.                                         *)
LEMMA EpisodeStep == EpisodeInv /\ DriveInv /\ [Next]_vars => EpisodeInv'
<1> SUFFICES ASSUME EpisodeInv, DriveInv, [Next]_vars PROVE EpisodeInv' OBVIOUS
<1>1. Flags'
    BY RobotFlagsStep, EndFlagsStep, LoopFlagsStep, DriverFlagsStep DEF EpisodeInv, Flags
<1>2. NamesOK' /\ ClockInv' /\ BusyInv' /\ CallsInv'
    BY NamesOKStep, ClockInvStep, BusyInvStep, CallsInvStep DEF EpisodeInv
<1>3. CountsInv' /\ ResultsInv'
    BY CountsInvStep, ResultsInvStep DEF EpisodeInv
<1> QED BY <1>1, <1>2, <1>3 DEF EpisodeInv

(* EpisodeInv is an invariant of every episode.                            *)
LEMMA EpisodeInvariant == Spec => []EpisodeInv
BY EpisodeStart, EpisodeStep, DriveInvariant, PTL DEF Spec

(* Every state has its type, and the caller's place, the takeover's flags  *)
(* and the named budget agree with where the agent, the operator and the   *)
(* episode are (robot.ts, gumi/index.ts).                                  *)
THEOREM EpisodeTypeCorrect == Spec => []TypeOK
<1>1. EpisodeInv /\ DriveInv /\ LockTypeOK => TypeOK
    <2> SUFFICES ASSUME EpisodeInv, DriveInv, LockTypeOK PROVE TypeOK OBVIOUS
    <2>1. /\ units \in BOOLEAN /\ {owned, up, broken, ended, ran, late, timedOut} \subseteq BOOLEAN
          /\ {plannerError, allEnd, finishing, fault, cut} \subseteq BOOLEAN
        BY Zenon DEF EpisodeInv, Flags, RobotFlags, EndFlags, LoopFlags
    <2>2. TakeoverTypeOK
        <3>1. /\ operating \in BOOLEAN /\ handBack \in BOOLEAN
              /\ busy \in BOOLEAN /\ parked \in BOOLEAN
            BY Zenon DEF EpisodeInv, Flags, DriverFlags
        <3> QED BY <3>1 DEF EpisodeInv, NamesOK, CountsInv, TakeoverTypeOK
    <2>3. StateOK
        BY DEF EpisodeInv, ClockInv, BusyInv, DriveInv, Who, StateOK
    <2> QED BY <2>1, <2>2, <2>3 DEF EpisodeInv, NamesOK, CallsInv, CountsInv, ResultsInv, TypeOK
<1> QED BY <1>1, EpisodeInvariant, DriveInvariant, EpisodeUsesLock, LockTypeCorrect, PTL

(* Whether the provider reports the reply that the time limit cut off as   *)
(* an error or as aborted, no result of the episode blames the planner for *)
(* it, and each names the limit (robot.ts:977-978).                        *)
THEOREM TimeLimitIsNoPlannerErrorHolds == Spec => []TimeLimitIsNoPlannerError
<1>1. EpisodeInv => TimeLimitIsNoPlannerError
    BY DEF EpisodeInv, ResultsInv, Fair, TimeLimitIsNoPlannerError
<1> QED BY <1>1, EpisodeInvariant, PTL

---------------------------------------------------------------------------
(* What the operator may do when the episode is over.                      *)

ManualBegins == place[Operator] # "running" /\ place'[Operator] = "running"

(* A manual call of the operator begins at its turn, where it is checked.  *)
LEMMA OperatorStarts ==
    ASSUME DriveInv, Next, ManualBegins
    PROVE  ~ended /\ ~broken
<1>0. Agent \in Callers /\ Operator \in Callers /\ Agent # Operator
        BY EpisodeAssumption
<1>00. place \in [Callers -> Place] BY DEF DriveInv, Plain
<1> USE <1>0, <1>00 DEF ManualBegins, lockVars, Refused, robotVars, LetGo, Leave, Turn, Arrive, episodeVars
<1>1. CASE SessionMoves \/ ClockMoves
    BY <1>1 DEF SessionMoves, SessionStart, ServerExit, Shutdown, ServerStops,
        ClockMoves, TimePasses, Deadline, UserAborts
<1>2. CASE RunMoves
    BY <1>2 DEF RunMoves, Prompt, Reply, LastReply, AgentEnd, BatchEnd
<1>3. CASE CallMoves
    BY <1>3 DEF CallMoves, NoSuchCall, CallFinish, CallMove, GateWaits, GateOpens, GateAborted
<1>4. CASE RobotMoves
    BY <1>4 DEF RobotMoves, EnterRobot, AgentTurn, AgentGivesUp, AgentCallEnds, Settle
<1>5. CASE OperatorMoves
    BY <1>5, SMTT(30) DEF OperatorMoves, OperatorTakes, OperatorHandsBack, ManualBegin,
        ManualGivesUp, BatchBegin, BatchStops, OperatorStep, ManualTurn, ManualEnds,
        UnitChecked, UnitBegins, UnitEnds, OperatorDone
<1> QED BY <1>1, <1>2, <1>3, <1>4, <1>5, NextMoves

(* Once the episode is over and no unit is past its check, none gets past. *)
LastUnit == ended /\ hand # "looking"
NoUnit == LastUnit /\ hand # "unit"

(* Both last: the end is final, and a check fails after it.                *)
LEMMA LastUnitStep == [Next]_vars => (LastUnit => LastUnit') /\ (NoUnit => NoUnit')
<1> SUFFICES ASSUME [Next]_vars, LastUnit
             PROVE  LastUnit' /\ (hand # "unit" => hand' # "unit")
    BY DEF NoUnit
<1> USE DEF LastUnit, overVars, episodeVars
<1>1. CASE SessionMoves \/ ClockMoves
    BY <1>1 DEF SessionMoves, SessionStart, ServerExit, Shutdown, ServerStops, Fail,
        ClockMoves, TimePasses, Deadline, UserAborts
<1>2. CASE RunMoves
    BY <1>2 DEF RunMoves, Prompt, Reply, LastReply, AgentEnd, BatchEnd
<1>3. CASE CallMoves
    BY <1>3 DEF CallMoves, NoSuchCall, CallFinish, CallMove, GateWaits, GateOpens, GateAborted,
        CheckBudgets
<1>4. CASE RobotMoves
    BY <1>4 DEF RobotMoves, EnterRobot, AgentTurn, AgentGivesUp, AgentCallEnds, Settle, Fail
<1>5. CASE OperatorMoves
    BY <1>5 DEF OperatorMoves, OperatorTakes, OperatorHandsBack, ManualBegin, ManualGivesUp,
        BatchBegin, BatchStops, OperatorStep, ManualTurn, ManualEnds, UnitChecked, UnitBegins,
        UnitEnds, OperatorDone, CheckBudgets, Refused, Fail
<1>6. CASE UNCHANGED vars
    BY <1>6 DEF vars
<1> QED BY <1>1, <1>2, <1>3, <1>4, <1>5, <1>6, NextMoves

(* Once the episode is over or the robot broken, no manual call begins,    *)
(* however long it waited for the lock, and of a teleop batch at most the  *)
(* unit whose check came before, whatever its look waited for.             *)
THEOREM OperatorActsInEpisodeHolds == Spec => OperatorActsInEpisode
<1>1. DriveInv /\ [Next]_vars =>
          [place[Operator] # "running" /\ place'[Operator] = "running" => ~ended /\ ~broken]_vars
    BY OperatorStarts DEF ManualBegins
<1>2. LastUnit /\ [Next]_vars => LastUnit'
    BY LastUnitStep
<1>3. NoUnit /\ [Next]_vars => NoUnit'
    BY LastUnitStep
<1>4. ended /\ hand = "unit" => LastUnit
    BY DEF LastUnit
<1>5. LastUnit /\ hand # "unit" => NoUnit
    BY DEF NoUnit
<1>6. NoUnit => hand # "unit"
    BY DEF NoUnit
<1> QED BY <1>1, <1>2, <1>3, <1>4, <1>5, <1>6, DriveInvariant, PTL DEF Spec, OperatorActsInEpisode
=============================================================================
