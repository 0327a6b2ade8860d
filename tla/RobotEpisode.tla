---------------------------- MODULE RobotEpisode ----------------------------
(***************************************************************************)
(* One episode of a robot extension (packages/embodied/src/robot.ts) in a  *)
(* pi session: start, the agent's runs, the operator's hand on the robot   *)
(* (the dashboard's manual calls and teleop batches), the ways an episode  *)
(* ends, its one robot_result entry, and the shutdown.                     *)
(*                                                                         *)
(* The agent's calls take the extension's gates in order: refusal() of the *)
(* episode, the takeover gate (with action units mounted), the robot lock. *)
(* The operator's manual calls take the lock as well; teleop batches run   *)
(* the units directly and rely on the takeover alone.                      *)
(*                                                                         *)
(* A run of the agent loop is cut to what the episode sees of it (see      *)
(* AgentLoop for the loop itself).  Of the planner budgets, --max-turns    *)
(* stands for those that are counted and --time-limit is kept.             *)
(***************************************************************************)
EXTENDS RobotLock, Takeover, Sequences

CONSTANTS
    Agent,      \* the caller whose tool calls the agent loop executes
    Operator,   \* the caller behind the dashboard
    MaxTurns,   \* --max-turns
    Replies     \* the batches of tool calls a reply may ask for

Tools == {"move", "finish", "bad"}   \* "bad": no such tool, or bad arguments

ASSUME EpisodeAssumption ==
    /\ Callers = {Agent, Operator}
    /\ Agent # Operator
    /\ MaxTurns \in Nat \ {0}
    /\ Replies \subseteq Seq(Tools) \ {<<>>}

VARIABLES
    units,        \* the robot mounts action units: the takeover gate is on
    start,        \* "starting", "ready" or "failed"
    owned,        \* the extension owns the env server (`server`)
    up,           \* the env server runs
    broken,       \* the robot broke (`broken`)
    ended,        \* the episode is over
    outOfBudget,  \* the budget that ended it, or "none"
    ran,          \* an agent ran
    turns,        \* turns so far, up to MaxTurns
    deadline,     \* the --time-limit timer: "none", "armed" or "off"
    late,         \* the limit has passed
    timedOut,     \* the timer ended the episode
    plannerError, \* the last reply was a failed one
    life,         \* "open" or "closing" (from session_shutdown on)
    agent,        \* where the agent loop is
    todo,         \* the tool calls of the reply not yet over
    allEnd,       \* every result so far terminates
    finishing,    \* the reply calls finish
    aborted,      \* who aborted the run: "no", "user" or "time"
    hand,         \* the operator: "none", "manual", "batch", "looking", "unit", "over"
    results,      \* the robot_result entries
    fault,        \* the robot failed, by none of our doing (history)
    moves,        \* operator steps the operator was told are done (history)
    shown,        \* moves when the agent last got the robot's state (history)
    basis,        \* `shown` when its current request began (history)
    cut           \* the timer's abort cut the last reply off (history)

robotVars == <<units, start, owned, up, broken>>
overVars == <<ended, outOfBudget>>
clockVars == <<deadline, late, timedOut>>
loopVars == <<agent, todo, allEnd, finishing, aborted>>
resultVars == <<ran, turns, plannerError, results, cut>>
sightVars == <<moves, shown, basis>>
episodeVars == <<robotVars, overVars, clockVars, loopVars, resultVars, sightVars,
                 life, hand, fault>>
vars == <<lockVars, takeoverVars, episodeVars>>

AgentState ==
    {"idle", "requesting", "batch", "gate", "entry", "robot", "settling", "ending"}

Result == [at : {"agent_end", "shutdown"}, env_error : BOOLEAN, budget : {"none", "turns", "time"},
           planner_error : BOOLEAN, faulty : BOOLEAN, cut : BOOLEAN]

(* What goes with what: the caller's place with the agent's and the        *)
(* operator's, the takeover's flags with their calls, a budget with an end.*)
StateOK ==
    /\ agent = "robot" <=> place[Agent] # "away"
    /\ place[Operator] # "away" => hand = "manual"
    /\ operating <=> hand # "none"
    /\ busy => agent \in {"entry", "robot", "settling"}
    /\ outOfBudget # "none" => ended
    /\ timedOut => outOfBudget = "time" /\ deadline = "off"
    /\ deadline = "none" <=> ~ran /\ life = "open"

TypeOK ==
    /\ LockTypeOK
    /\ TakeoverTypeOK
    /\ units \in BOOLEAN
    /\ start \in {"starting", "ready", "failed"}
    /\ {owned, up, broken, ended, ran, late, timedOut} \subseteq BOOLEAN
    /\ {plannerError, allEnd, finishing, fault, cut} \subseteq BOOLEAN
    /\ outOfBudget \in {"none", "turns", "time"}
    /\ turns \in 0..MaxTurns
    /\ deadline \in {"none", "armed", "off"}
    /\ life \in {"open", "closing"}
    /\ agent \in AgentState
    /\ todo \in Seq(Tools)
    /\ aborted \in {"no", "user", "time"}
    /\ hand \in {"none", "manual", "batch", "looking", "unit", "over"}
    /\ results \in Seq(Result)
    /\ {moves, shown, basis} \subseteq 0..MaxSteps
    /\ StateOK

Init ==
    /\ LockInit
    /\ TakeoverInit
    /\ units \in BOOLEAN
    /\ start = "starting" /\ owned = TRUE /\ up = TRUE /\ broken = FALSE
    /\ ended = FALSE /\ outOfBudget = "none"
    /\ deadline = "none" /\ late = FALSE /\ timedOut = FALSE
    /\ agent = "idle" /\ todo = <<>> /\ allEnd = TRUE /\ finishing = FALSE /\ aborted = "no"
    /\ ran = FALSE /\ turns = 0 /\ plannerError = FALSE /\ results = <<>> /\ cut = FALSE
    /\ moves = 0 /\ shown = 0 /\ basis = 0
    /\ life = "open" /\ hand = "none" /\ fault = FALSE

---------------------------------------------------------------------------
(* The gates and the ends of an episode.                                   *)

(* Whether a planner budget is used up.                                    *)
Spent == turns >= MaxTurns \/ late

(* refusal(tool), for a tool call of the agent or of the operator.         *)
Refused(tool) ==
    start # "ready" \/ broken \/ (tool # "finish" /\ (ended \/ Spent))

(* Mutant: the budget is named, and the episode goes on.                   *)
CheckBudgetsOnly ==
    IF start = "ready" /\ ~broken /\ ~ended /\ Spent
      THEN outOfBudget' = (IF late THEN "time" ELSE "turns") /\ UNCHANGED ended
      ELSE UNCHANGED overVars

(* What refusal() does besides: the first call past a budget is the one    *)
(* that ends the episode.                                                  *)
CheckBudgets ==
    IF start = "ready" /\ ~broken /\ ~ended /\ Spent
      THEN ended' = TRUE /\ outOfBudget' = IF late THEN "time" ELSE "turns"
      ELSE UNCHANGED overVars

(* fail(): an RPC that found no server, or the exit of the env server.     *)
Fail ==
    /\ broken' = TRUE
    /\ ended' = TRUE
    /\ fault' = (fault \/ owned)
    /\ UNCHANGED outOfBudget

ItsResult(when) ==
    [at |-> when, env_error |-> start = "failed" \/ broken, budget |-> outOfBudget,
     planner_error |-> plannerError, faulty |-> fault, cut |-> cut]

(* Mutant: a report does not remember the one before it.                   *)
ReportAgain(when) ==
    results' = IF start = "failed" \/ (start = "ready" /\ ran)
                 THEN Append(results, ItsResult(when)) ELSE results

Report(when) ==
    results' = IF results = <<>> /\ (start = "failed" \/ (start = "ready" /\ ran))
                 THEN Append(results, ItsResult(when)) ELSE results

(* ctx.abort(): the running agent's signal, which also wakes its gate.     *)
Abort(by) ==
    IF agent = "idle" \/ aborted # "no"
      THEN UNCHANGED <<aborted, parked>>
      ELSE aborted' = by /\ parked' = FALSE

---------------------------------------------------------------------------
(* The session.                                                            *)

SessionStart ==
    /\ start = "starting" /\ life = "open"
    /\ \/ start' = "ready" /\ UNCHANGED fault
       \/ start' = "failed" /\ fault' = TRUE
    /\ UNCHANGED <<lockVars, takeoverVars, units, owned, up, broken, overVars, clockVars,
                   loopVars, resultVars, sightVars, life, hand>>

(* The env server exits under the extension that owns it.                  *)
ServerExit ==
    /\ up /\ owned
    /\ up' = FALSE
    /\ Fail
    /\ UNCHANGED <<lockVars, takeoverVars, units, start, owned, clockVars, loopVars,
                   resultVars, sightVars, life, hand>>

(* Mutant: the server is stopped before the result is reported.            *)
ShutdownStopsServerFirst ==
    /\ life = "open" /\ start # "starting"
    /\ owned' = FALSE
    /\ IF up
         THEN up' = FALSE /\ UNCHANGED <<life, deadline, results>>
         ELSE /\ life' = "closing"
              /\ Report("shutdown")
              /\ deadline' = "off"
              /\ UNCHANGED up
    /\ UNCHANGED <<lockVars, takeoverVars, units, start, broken, overVars, late, timedOut,
                   loopVars, ran, turns, plannerError, cut, sightVars, hand, fault>>

(* The session_shutdown handlers, up to the first that waits, if the server*)
(* still runs: the result, the timer, and the ownership of the server.     *)
(* The takeover's comes after the wait.  A quit waits for no agent;        *)
(* what still runs goes on until the process exits, at any step.           *)
Shutdown ==
    /\ life = "open" /\ start # "starting"
    /\ life' = "closing"
    /\ Report("shutdown")
    /\ deadline' = "off"
    /\ owned' = FALSE
    /\ IF up THEN UNCHANGED takeoverVars ELSE HandBack
    /\ UNCHANGED <<lockVars, units, start, up, broken, overVars, late, timedOut,
                   loopVars, ran, turns, plannerError, cut, sightVars, hand, fault>>

(* The wait is over, and the takeover's handler, the last, gives back.     *)
ServerStops ==
    /\ life = "closing" /\ up
    /\ up' = FALSE
    /\ HandBack
    /\ UNCHANGED <<lockVars, units, start, owned, broken, overVars, clockVars, loopVars,
                   resultVars, sightVars, life, hand, fault>>

---------------------------------------------------------------------------
(* The clock and the user's abort.                                         *)

TimePasses ==
    /\ deadline = "armed" /\ ~late
    /\ late' = TRUE
    /\ UNCHANGED <<lockVars, takeoverVars, robotVars, overVars, deadline, timedOut, loopVars,
                   resultVars, sightVars, life, hand, fault>>

(* Mutant: the timer ends the episode and leaves the run alone.            *)
DeadlineOnlyEnds ==
    /\ deadline = "armed" /\ late
    /\ deadline' = "off"
    /\ IF ended
         THEN UNCHANGED <<overVars, timedOut>>
         ELSE outOfBudget' = "time" /\ ended' = TRUE /\ timedOut' = TRUE
    /\ UNCHANGED <<lockVars, takeoverVars, loopVars, robotVars, late, resultVars, sightVars,
                   life, hand, fault>>

Deadline ==
    /\ deadline = "armed" /\ late
    /\ deadline' = "off"
    /\ IF ended
         THEN UNCHANGED <<overVars, timedOut, aborted, parked>>
         ELSE /\ outOfBudget' = "time" /\ ended' = TRUE /\ timedOut' = TRUE
              /\ Abort("time")
    /\ UNCHANGED <<lockVars, mode, operating, handBack, busy, steps, robotVars, late,
                   agent, todo, allEnd, finishing, resultVars, sightVars, life, hand, fault>>

UserAborts ==
    /\ agent # "idle" /\ aborted = "no" /\ life = "open"
    /\ Abort("user")
    /\ UNCHANGED <<lockVars, mode, operating, handBack, busy, steps, robotVars, overVars,
                   clockVars, agent, todo, allEnd, finishing, resultVars, sightVars, life,
                   hand, fault>>

---------------------------------------------------------------------------
(* The agent's run.                                                        *)

(* The request rests on what the agent got so far (the context event).     *)
Request ==
    /\ agent' = "requesting"
    /\ Decide
    /\ basis' = shown

(* before_agent_start arms the timer once; agent_start.                    *)
Prompt ==
    /\ agent = "idle" /\ life = "open" /\ start = "ready"
    /\ deadline' = IF deadline = "none" THEN "armed" ELSE deadline
    /\ ran' = TRUE
    /\ aborted' = "no"
    /\ Request
    /\ UNCHANGED <<lockVars, robotVars, overVars, late, timedOut, todo, allEnd, finishing,
                   turns, plannerError, results, cut, moves, shown, life, hand, fault>>

TurnOver == turns' = IF turns < MaxTurns THEN turns + 1 ELSE turns

(* A reply that asks for a batch of tools (message_end).                   *)
Reply ==
    /\ agent = "requesting" /\ aborted = "no"
    /\ \E batch \in Replies :
         /\ todo' = batch
         /\ finishing' = (\E i \in DOMAIN batch : batch[i] = "finish")
    /\ agent' = "batch"
    /\ allEnd' = TRUE
    /\ plannerError' = FALSE /\ cut' = FALSE
    /\ UNCHANGED <<lockVars, takeoverVars, robotVars, overVars, clockVars, aborted, ran, turns,
                   results, sightVars, life, hand, fault>>

(* Mutant: an error is the planner's, whoever cut the reply off.           *)
ItsError(kind) == kind \in {"error", "leaked"}

(* Of a reply that ends the run: is it the planner's failure?              *)
PlannersError(kind) == (kind = "error" /\ ~timedOut) \/ kind = "leaked"

(* A reply without tools, text with an unparsed call in it, an error, or   *)
(* the reply an abort cut off, which some providers report as an error.    *)
LastReply(kind) ==
    /\ agent = "requesting"
    /\ kind = (IF aborted = "no" THEN "text" ELSE "aborted") \/ kind \in {"leaked", "error"}
    /\ plannerError' = PlannersError(kind)
    /\ cut' = (aborted = "time" /\ kind # "leaked")
    /\ finishing' = FALSE
    /\ TurnOver
    /\ agent' = "ending"
    /\ UNCHANGED <<lockVars, takeoverVars, robotVars, overVars, clockVars, todo, allEnd,
                   aborted, ran, results, sightVars, life, hand, fault>>

ReplyKind == {"text", "aborted", "leaked", "error"}

(* agent_end of the robot (its report) and of the takeover.                *)
AgentEnd ==
    /\ agent = "ending"
    /\ agent' = "idle" /\ aborted' = "no"
    /\ IF ended THEN Report("agent_end") ELSE UNCHANGED results
    /\ HandBack
    /\ UNCHANGED <<lockVars, robotVars, overVars, clockVars, todo, allEnd, finishing, ran,
                   turns, plannerError, cut, sightVars, life, hand, fault>>

InBatch(tool) == agent = "batch" /\ todo # <<>> /\ Head(todo) = tool

(* A result: the batch goes on, unless its run is aborted.                 *)
NextCall == todo' = IF aborted = "no" THEN Tail(todo) ELSE <<>>

NoSuchCall ==
    /\ InBatch("bad")
    /\ allEnd' = FALSE
    /\ NextCall
    /\ UNCHANGED <<lockVars, takeoverVars, robotVars, overVars, clockVars, agent, finishing,
                   aborted, resultVars, sightVars, life, hand, fault>>

CallFinish ==
    /\ InBatch("finish")
    /\ allEnd' = (allEnd /\ aborted = "no")
    /\ ended' = (ended \/ (aborted = "no" /\ ~Refused("finish")))
    /\ NextCall
    /\ UNCHANGED <<lockVars, takeoverVars, robotVars, outOfBudget, clockVars, agent, finishing,
                   aborted, resultVars, sightVars, life, hand, fault>>

(* The episode's own gate comes first; a call it refuses terminates.       *)
CallMove ==
    /\ InBatch("move")
    /\ CheckBudgets
    /\ IF Refused("move")
         THEN agent' = "settling" /\ allEnd' = (allEnd /\ aborted = "no")
         ELSE agent' = (IF units THEN "gate" ELSE "entry") /\ UNCHANGED allEnd
    /\ UNCHANGED <<lockVars, takeoverVars, robotVars, clockVars, todo, finishing, aborted,
                   resultVars, sightVars, life, hand, fault>>

GateWaits ==
    /\ agent = "gate" /\ aborted = "no"
    /\ Park
    /\ UNCHANGED <<lockVars, episodeVars>>

(* A dropped call carries the operator's steps to the agent.               *)
GateOpens ==
    /\ agent = "gate"
    /\ Pass
    /\ IF Stale
         THEN agent' = "settling" /\ allEnd' = FALSE /\ shown' = moves
         ELSE agent' = "entry" /\ UNCHANGED <<allEnd, shown>>
    /\ UNCHANGED <<lockVars, robotVars, overVars, clockVars, todo, finishing, aborted,
                   resultVars, moves, basis, life, hand, fault>>

GateAborted ==
    /\ agent = "gate" /\ aborted # "no" /\ Held
    /\ agent' = "settling" /\ allEnd' = FALSE
    /\ UNCHANGED <<lockVars, takeoverVars, robotVars, overVars, clockVars, todo, finishing,
                   aborted, resultVars, sightVars, life, hand, fault>>

(* The gates are passed: the call runs, or waits for the robot.            *)
EnterRobot ==
    /\ agent = "entry"
    /\ IF aborted = "no"
         THEN agent' = "robot" /\ Arrive(Agent) /\ UNCHANGED allEnd
         ELSE agent' = "settling" /\ allEnd' = FALSE /\ UNCHANGED lockVars
    /\ UNCHANGED <<takeoverVars, robotVars, overVars, clockVars, todo, finishing, aborted,
                   resultVars, sightVars, life, hand, fault>>

AgentTurn ==
    /\ agent = "robot"
    /\ Turn(Agent)
    /\ UNCHANGED <<takeoverVars, episodeVars>>

(* A robot result, an error too, as the takeover sees it.                  *)
ItsResultSeen == IF units THEN Seen ELSE UNCHANGED takeoverVars

AgentGivesUp ==
    /\ agent = "robot" /\ aborted # "no"
    /\ Leave(Agent)
    /\ ItsResultSeen
    /\ agent' = "settling" /\ allEnd' = FALSE
    /\ UNCHANGED <<robotVars, overVars, clockVars, todo, finishing, aborted, resultVars,
                   sightVars, life, hand, fault>>

(* The call's result, a server error, or no answer (RpcUnavailable).       *)
AgentCallEnds ==
    /\ agent = "robot"
    /\ LetGo(Agent)
    /\ ItsResultSeen
    /\ agent' = "settling"
    /\ \/ /\ up
          /\ allEnd' = (allEnd /\ finishing)
          /\ shown' = moves
          /\ UNCHANGED <<overVars, broken, fault>>
       \/ /\ up
          /\ allEnd' = FALSE
          /\ UNCHANGED <<overVars, broken, fault, shown>>
       \/ /\ ~up \/ owned
          /\ Fail
          /\ allEnd' = FALSE
          /\ UNCHANGED shown
    /\ UNCHANGED <<units, start, owned, up, clockVars, todo, finishing, aborted, resultVars,
                   moves, basis, life, hand>>

(* tool_execution_end of a robot call, however it went.                    *)
Settle ==
    /\ agent = "settling"
    /\ agent' = "batch"
    /\ NextCall
    /\ IF units THEN Done ELSE UNCHANGED takeoverVars
    /\ UNCHANGED <<lockVars, robotVars, overVars, clockVars, allEnd, finishing, aborted,
                   resultVars, sightVars, life, hand, fault>>

(* turn_end: the run ends when every result terminates, unless a steering  *)
(* message (the notice of a dropped call is one) asks for another turn.    *)
BatchEnd ==
    /\ agent = "batch" /\ todo = <<>>
    /\ TurnOver
    /\ allEnd' = TRUE   \* of no use until the next batch
    /\ \/ Request
       \/ allEnd /\ agent' = "ending" /\ UNCHANGED <<takeoverVars, basis>>
    /\ UNCHANGED <<lockVars, robotVars, overVars, clockVars, todo, finishing, aborted,
                   ran, plannerError, results, cut, moves, shown, life, hand, fault>>

---------------------------------------------------------------------------
(* The operator.                                                           *)

OperatorTakes ==
    /\ life = "open"
    /\ Take
    /\ UNCHANGED <<lockVars, episodeVars>>

OperatorHandsBack ==
    /\ life = "open"
    /\ HandBack
    /\ UNCHANGED <<lockVars, episodeVars>>

OperatorMayAct ==
    /\ life = "open" /\ hand = "none" /\ ~operating
    /\ agent = "idle" \/ mode = "human"

(* A manual call: prepare(), begin(), and the lock.                        *)
ManualBegin ==
    /\ OperatorMayAct
    /\ CheckBudgets
    /\ IF Refused("move")
         THEN UNCHANGED <<hand, takeoverVars, lockVars>>
         ELSE hand' = "manual" /\ Begin /\ Arrive(Operator)
    /\ UNCHANGED <<robotVars, clockVars, loopVars, resultVars, sightVars, life, fault>>

(* Mutant: the gates are not checked again after the wait.                 *)
ManualTurnUnchecked ==
    /\ hand = "manual"
    /\ Turn(Operator)
    /\ UNCHANGED <<takeoverVars, episodeVars>>

ManualTurn ==
    /\ hand = "manual" /\ MyTurn(Operator)
    /\ CheckBudgets
    /\ IF Refused("move")
         THEN Leave(Operator) /\ hand' = "over"
         ELSE Turn(Operator) /\ UNCHANGED hand
    /\ UNCHANGED <<takeoverVars, robotVars, clockVars, loopVars, resultVars, sightVars, life,
                   fault>>

(* Interrupt: the call that waits is rejected.                             *)
ManualGivesUp ==
    /\ hand = "manual"
    /\ Leave(Operator)
    /\ hand' = "over"
    /\ UNCHANGED <<takeoverVars, robotVars, overVars, clockVars, loopVars, resultVars,
                   sightVars, life, fault>>

(* A manual call that succeeds is one of the operator's steps.             *)
ManualEnds ==
    /\ hand = "manual"
    /\ LetGo(Operator)
    /\ hand' = "over"
    /\ \/ up /\ HumanStep /\ moves' = moves + 1 /\ UNCHANGED <<overVars, broken, fault>>
       \/ up /\ UNCHANGED <<takeoverVars, moves, overVars, broken, fault>>
       \/ (~up \/ owned) /\ Fail /\ UNCHANGED <<takeoverVars, moves>>
    /\ UNCHANGED <<units, start, owned, up, clockVars, loopVars, resultVars, shown, basis, life>>

(* A teleop batch, which runs the robot's units without the lock.          *)
BatchBegin ==
    /\ OperatorMayAct /\ units
    /\ CheckBudgets
    /\ IF Refused("move")
         THEN UNCHANGED <<hand, takeoverVars>>
         ELSE hand' = "batch" /\ Begin
    /\ UNCHANGED <<lockVars, robotVars, clockVars, loopVars, resultVars, sightVars, life, fault>>

(* Mutant: the batch does not ask before each unit.                        *)
UnitUnchecked ==
    /\ hand = "batch"
    /\ hand' = "looking"
    /\ UNCHANGED <<lockVars, takeoverVars, robotVars, overVars, clockVars, loopVars, resultVars,
                   sightVars, life, fault>>

(* The gates are checked for the next unit.                                *)
UnitChecked ==
    /\ hand = "batch"
    /\ CheckBudgets
    /\ hand' = IF Refused("move") THEN "over" ELSE "looking"
    /\ UNCHANGED <<lockVars, takeoverVars, robotVars, clockVars, loopVars, resultVars,
                   sightVars, life, fault>>

(* In between the batch awaits the robot's look and its state.  They may   *)
(* fail; otherwise the unit begins, and nothing is checked again.          *)
UnitBegins ==
    /\ hand = "looking"
    /\ hand' \in {"unit", "over"}
    /\ UNCHANGED <<lockVars, takeoverVars, robotVars, overVars, clockVars, loopVars, resultVars,
                   sightVars, life, fault>>

(* The batch is out of steps, or stopped.                                  *)
BatchStops ==
    /\ hand = "batch"
    /\ hand' = "over"
    /\ UNCHANGED <<lockVars, takeoverVars, robotVars, overVars, clockVars, loopVars, resultVars,
                   sightVars, life, fault>>

(* A unit moved the robot, only looked, or failed.                         *)
UnitEnds ==
    /\ hand = "unit"
    /\ \/ up /\ hand' = "batch" /\ HumanStep /\ moves' = moves + 1
       \/ up /\ hand' = "batch" /\ UNCHANGED <<takeoverVars, moves>>
       \/ hand' = "over" /\ UNCHANGED <<takeoverVars, moves>>
    /\ UNCHANGED <<lockVars, robotVars, overVars, clockVars, loopVars, resultVars, shown, basis,
                   life, fault>>

OperatorDone ==
    /\ hand = "over"
    /\ hand' = "none"
    /\ End
    /\ UNCHANGED <<lockVars, robotVars, overVars, clockVars, loopVars, resultVars, sightVars,
                   life, fault>>

---------------------------------------------------------------------------
AgentStep ==
    \/ NoSuchCall \/ CallFinish \/ CallMove \/ GateWaits \/ GateOpens \/ GateAborted
    \/ EnterRobot \/ AgentTurn \/ AgentGivesUp \/ AgentCallEnds \/ Settle
    \/ BatchEnd \/ AgentEnd

OperatorStep ==
    ManualTurn \/ ManualEnds \/ UnitChecked \/ UnitBegins \/ UnitEnds \/ OperatorDone

Next ==
    \/ SessionStart \/ ServerExit \/ Shutdown \/ ServerStops
    \/ TimePasses \/ Deadline \/ UserAborts
    \/ Prompt \/ Reply \/ (\E kind \in ReplyKind : LastReply(kind)) \/ AgentStep
    \/ OperatorTakes \/ OperatorHandsBack
    \/ ManualBegin \/ ManualGivesUp \/ BatchBegin \/ BatchStops \/ OperatorStep

Spec == Init /\ [][Next]_vars

(* An aborted request ends.                                                *)
CutOff == aborted # "no" /\ \E kind \in ReplyKind : LastReply(kind)

(* The runs of the extension itself go on, robot calls end (every RPC has  *)
(* a timeout), the timer fires.  Nothing is asked of the model, which may  *)
(* never answer, nor of the operator, who may keep the robot.              *)
FairSpec ==
    /\ Spec
    /\ WF_vars(AgentStep)
    /\ WF_vars(OperatorStep)
    /\ WF_vars(CutOff)
    /\ WF_vars(TimePasses)
    /\ WF_vars(Deadline)

---------------------------------------------------------------------------
(* Properties.                                                             *)

(* The agent and the operator never use the robot at the same time.  A     *)
(* teleop unit, and the look before it, take no lock (gumi/index.ts:1037,  *)
(* 1055), so they rest on the gate, on take() waiting for the running call *)
(* and begin() holding the next one.                                       *)
OneDriver == hand \in {"looking", "unit"} => \A c \in Callers : place[c] # "running"

(* With the takeover gate, the agent acts on a request made after the last *)
(* step the operator made ("a call decided before the operator acted is    *)
(* dropped", gumi/index.ts:882-884), across manual calls, batches, aborts  *)
(* and runs.                                                               *)
AgentActsOnWhatItSaw ==
    units /\ place[Agent] = "running" => basis = moves

(* A call parked at the gate has something to wait for: a release or an    *)
(* end will wake it.                                                       *)
NoLostWakeup == parked => Held /\ agent = "gate"

(* What the operator may still do when the episode is over, by the agent's *)
(* finish, a budget, the deadline or a failure, at any point of a manual   *)
(* call or of a teleop batch.  No manual call begins: one that waited in   *)
(* the line is checked again (robot.ts:886-893).  Of a batch at most one   *)
(* unit begins, the one whose check came before the end (gumi/index.ts:    *)
(* 1026): it is the last, however many steps the batch has.                *)
OperatorActsInEpisode ==
    /\ [][ place[Operator] # "running" /\ place'[Operator] = "running"
             => ~ended /\ ~broken ]_vars
    /\ [](ended /\ hand = "unit" => [](hand # "unit" => [](hand # "unit")))

(* One result per episode that had an agent run or failed to start, and    *)
(* none without; no run, abort or shutdown adds or misses one.  It blames  *)
(* the robot (env_error) only if the robot failed, and not because the     *)
(* shutdown took its server away ("The result first", robot.ts:1204).      *)
OneResult ==
    /\ Len(results) <= 1
    /\ life # "open" => (results # <<>> <=> start = "failed" \/ ran)
    /\ \A i \in DOMAIN results : results[i].env_error => results[i].faulty

(* A reply the time limit cut off "is the budget ending the episode, not   *)
(* the model failing" (robot.ts:977-978), whether it is reported as an     *)
(* error or as aborted.  Not so for one whose partial text holds an        *)
(* unparsed tool call: the code blames the planner for it (:985), and      *)
(* `cut` leaves it out.                                                    *)
TimeLimitIsNoPlannerError ==
    \A i \in DOMAIN results :
        results[i].cut => ~results[i].planner_error /\ results[i].budget = "time"

(* No run outlives the time limit (robot.ts:914-916), be it in a request   *)
(* the model never answers, behind the operator or in the line: unless     *)
(* something else ended the episode before, when the timer does nothing.   *)
DeadlineEndsRun ==
    deadline = "armed" /\ ~ended
        ~> agent = "idle" \/ life # "open" \/ (ended /\ ~timedOut)

(* A manual call does not wait for the robot forever, whoever leaves the   *)
(* line before it (an abort "gives up the wait", robot.ts:559).            *)
OperatorGetsItsTurn ==
    place[Operator] = "waiting" ~> place[Operator] # "waiting" \/ life # "open"
=============================================================================
