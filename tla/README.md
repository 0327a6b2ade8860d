# A TLA+ model of pi-embodied

pi-embodied lets a language-model agent (pi) drive robots: TypeScript processes call Python servers
that own a simulator or a real arm. This directory models the parts of that path where threads,
processes and callbacks meet: the server that executes robot calls and keeps its clients' sessions,
the programs a model may run on it, the client that queues calls to it, the network between the two,
the agent loop, the robot episode around it with the operator who may take the robot over, and the
slots that cap the planner's calls over processes.
The modules are checked by TLC on small instances; the theorems in the `*_proofs` modules are
checked by TLAPS for every value of the constants.

    tlc -workers 2 -config MCCodeRun.cfg MCCodeRun        # one of the runs below
    tlapm CodeRun_proofs.tla                              # one of the proof modules

## The system

| Part | State it keeps | Operations | Talks to |
| --- | --- | --- | --- |
| RPC facade (`services/.../utils/rpc/rpc_facade.py`) | call lock, stop generation, running call's generation, motion halt, sessions, shutdown event | business calls, `stop`/`cancel`, `shutdown`, `healthz`, `session.*` | transports call it from one thread each; handlers poll `stop_requested` |
| Main-thread dispatch (`rpc/main_thread_serve.py`) | queue of requests to the main thread | enqueue, consume, sentinel | replaces the facade's lock by a queue for backends bound to one thread |
| Program runner (`utils/code_exec.py`) | active run, child process, abort event, abandoned primitives, `stop_issued` | `code.run`, primitive calls of the program, `abort`, deadline timer, watcher of an abandoned primitive | executes primitives as the server's own handlers; halts and stops the facade |
| RPC client (`packages/embodied/src/infra/rpc.ts`) | per endpoint: last call (`busy`), `dead` mark, grace timers | `call`, timeout, abort, `interrupt`, `forgetUnresponsive` | HTTP to the facade |
| Robot extension (`packages/embodied/src/robot.ts`) | episode flags, `exclusive` promise chain, budgets, deadline timer, result | tool calls, `finish`, session events | tools of the agent; RPC client; service processes |
| Operator takeover (`capabilities/gumi/index.ts`, `capabilities/dashboard/index.ts`) | who has the robot, batch under way, operator steps and what the agent has seen of them | take, release, manual call, teleop batch; the gate of the agent's calls | the agent's tool calls and context; the robot lock |
| Ensemble planner (`planner/ensemble.ts`) | candidates left, lanes of a turn | start of a turn, lanes, synthesis, abort | API gate |
| Service processes (`infra/service-process.ts`, `model-services.ts`) | child processes, readiness | start, attach, staged shutdown | RPC client |
| API gate (`planner/api-gate.ts`) | slot files shared by processes | acquire, take over, release | agent's `context` and `message_end` events |
| Hardware lock (`utils/hardware_lock.py`) | flocks on device files | acquire all or none, release | env servers at start |
| Agent and agent loop (`packages/agent/src/agent.ts`, `agent-loop.ts`) | transcript, steering and follow-up queues, active run and its abort signal | `prompt`, `continue`, `steer`, `followUp`, `abort`, `reset`; turns, tool batches, hooks | model providers, tools, listeners |
| Durable harness, chord, coding agent, MCP, code mode, remote env, TUI, telemetry, evals | - | - | outside the robot path, or around the agent loop |

What is hard to get right here:

* **The server's threads.** Requests run on transport threads; one of them holds the call lock. A
  stop may not wait for that lock, so it meets every other call at an arbitrary point: before
  admission, in the line, between the comparison of generations and the first step, in a step, or
  after the answer.
* **Primitives that outlive their program.** A program's primitive runs on a worker thread Python
  cannot interrupt. After the deadline the run is answered without it; from then on only the motion
  halt keeps it from moving the robot beside the next call.
* **The client's line.** Callers are released by timeouts and aborts while the server still
  executes; the line must neither break order nor wait for ever.
* **The stop of an abort.** It is a request of its own, names no call, and is not ordered with the
  calls.
* **Two drivers.** The agent's calls and the operator's manual calls share a lock; teleop batches do
  not take it and rely on the takeover's flags alone. Either may abort, wait, or end the episode at any
  point, and a decision the agent made before the operator acted must not be executed after.
* **The ways an episode ends.** `finish`, budgets, the deadline, a failing robot, a user's abort and
  the shutdown race each other and the call under way; one result must come out, saying why.
* **Files as locks.** The slots of the API gate are files that processes create, read and unlink in
  separate operations, and a process may be killed between any two.
* **The sweep of sessions.** It lists, takes out and cleans up in three steps, with two locks, beside
  the calls that renew and use the sessions.
* **The agent loop's awaits.** Messages are queued, removed and aborts made at any of them; the loop
  polls two queues at five places; a listener may throw anywhere.

The promises that make each part correct: one call moves the robot at a time and a stop bounds it
(facade, runner: `SafeMotion`); an abandoned primitive is halted and the halt is lifted in the end
(runner); calls are posted one at a time, in order, and the line moves (client); queued messages
are delivered once, in order, one per turn, and a batch's results match its calls (agent loop); agent
and operator never move the robot together, the agent acts on what it has seen, the operator at most
one unit beyond the end of the episode
(takeover); an episode has one result, which blames whom it should (robot extension); at most n model
calls are made at once, and a killed process costs a bounded number of slots and of extra calls (API
gate).
PROJECT.json lists the single hazards at their lines and the properties that look at each.

## The modules

**SafeMotion** is the abstract specification of an env server: which call is making a motion step
(`mover`) and which calls may begin no further one (`barred`: stopped or answered). A call begins a
step only if nobody moves and it is not barred; calls are barred for good. Two modules implement it.

**RpcFacade**: one request per element of `Calls`; `pc[c]` is where its transport thread is. `Admit`
is `_admit`, `Arrive` the capture of the generation in `_serve_dispatch`, `Enter` taking
`_call_lock` and `Start` the comparison in `_run_call` with what follows it, `Poll`, `Move` the
loop of a handler that calls `stop_requested` before each step, `Return` the `finally`. `Stop` is
`request_stop`; `AskShutdown`, `Shutdown`, `ParentDeath` and `Exit` are the end of the process. A
handler is abstracted to its polls and steps. `late[c]` is a history counter of the steps that ended
after a stop `c` was received before.

**RpcSessions** extends it with sessions. `Register`, `Close` and `Touch` are `Start` with what
`_dispatch` does first, `Handle` the handler's steps (only for a call whose session was found),
`Finish` its return, which may leave state for the session. `Sweep`, `Expire` and `Drop` are the sweep
thread: its list, the second look under the session lock, the hook under the call lock. The session
lock is never held across another step, and the hook holds the call lock, so each is one action.

**CodeRun** extends the facade with `code.run`: one variable per thread of a run (`run`, `prim`, `watcher`,
`timer`), the child process with what its pipe holds (`child`), the abort event and the stop threads
that have bumped the generation but not yet called `abort()` (`aborting`). Every step of
`_halt_abandoned` and of `_issue_stop` that another thread can come between is an action. Budgets
and argument checks are one nondeterministic refusal. The end of the process is left out: it would
only cut behaviours short.

**RpcClient** models one endpoint of `rpc.ts`. `phase[c]` is the promise `answered` of the call's
slot, `caller[c]` the caller's own fate, `previous[c]` the slot it linked itself behind. `Call`,
`Proceed`, `Receive`, `Timeout`, `Abort`, `GiveUp` are the callbacks of `call`, `Forget` is
`forgetUnresponsive`. JavaScript runs one callback at a time, so a callback is one action. The
service and its connections are the environment: `Reply`, `Break`, `StopGone`.

**RpcSystem** composes client and facade: a posted request is delivered at any later time, also when
its connection broke; a stop is delivered at any time after its abort, or lost.

**ApiGate** has one action per file operation: `Create` (with the exclusive flag), `Write` the pid,
`Read` and `Check` the owner of a slot that is taken, `Unlink` a dead one's, sleep and scan again, and
the read and unlink of `release`. `file[i]` is who created slot i's file, `pid[i]` what is written in
it. A kill ends a process between any two. A write that fails in a live process (api-gate.ts:32), which
leaves an empty slot file too, is not modelled. **Ensemble** adds the turns of an ensemble planner: a turn
takes a slot, its lanes ask for more and give up when no candidate is left.

**RobotLock** is `exclusive`: each call waits for the unreleased links before it (`before`). It is
both a component and the abstract specification that the episode implements. **Takeover** has the
methods of class `Takeover` as operators over its fields. **RobotEpisode** extends both with the
episode: `start`, `owned`, `up`, `broken`, `ended`, the budgets and the timer; `agent` is where the
agent's run is (a cut-down loop: AgentLoop has the real one), `hand` what the operator does. A robot
call of the agent passes `CallMove` (`refusal`), the gate (`GateWaits`, `GateOpens`, `GateAborted`),
`EnterRobot` and `AgentTurn` (the lock), `AgentCallEnds` and `Settle`. The operator's are
`ManualBegin`, `ManualTurn`, `ManualEnds` (with the lock) and, for a batch (without), `BatchBegin` and
for each unit `UnitChecked` (the gates), `UnitBegins` and `UnitEnds`; between the check and the
beginning the batch awaits the robot's look and its state (`hand = "looking"`), and anything may
happen. `Shutdown` is the shutdown handlers up to the first that waits, `ServerStops` the end of that
wait with the takeover's handler behind it. `moves`, `shown`, `basis`, `fault` and `cut` are history.
Abstractions: the robot's handlers run before the takeover's, as they are registered; a quit does not
wait for the agent, and the exit of the process only cuts behaviours short; the look a viewer of the
dashboard asks for (`controller.look`, gumi/index.ts:961) is left out: it commands the robot's observing
unit with neither `begin()` nor the lock, changes none of the state modelled, and may run beside any
call; of the budgets the turn and the time budget are kept, the others are counted like turns; whether
the robot mounts action units (and with them the gate) is chosen at the start.

**AgentLoop** has a program counter with one value per await of the loop. `Queue`, `Unqueue`,
`Abort` and the tools' returns are actions of their own and happen between any two. The five polls
are `Continue`, `FirstPoll`, `Prepare`, `Poll` (steering) and `Stop` (follow-ups). The batch is
`PrepareCall`, `CheckAbort`, `Start`, `ToolReturn`, `EmitResult`, for parallel and sequential
execution. `Throw` is a listener, hook or stream function that throws; the messages the run had taken
are then recorded as `lost`, and tools that still execute as `stray`. Message contents, tool
declarations and token usage are not modelled; both queues have the same mode, which does not
change. That a request made under an aborted signal is answered by an aborted message is the
contract of the stream function, outside these files.

## The runs

| Run | Instance | What it shows |
| --- | --- | --- |
| `facade` | two calls and a session call of one client, two stops, the sweep | one call at a time, a stop bounds motion, SafeMotion is implemented, no state without a session, only idle sessions expire; a stop empties the line (liveness) |
| `code_run` | two programs, a call, one client stop (runs add their own) | motion is exclusive, halted while an abandoned primitive runs; a timed-out answer comes with a stop; SafeMotion is implemented, so stops bound motion |
| `code_run_live` | one program and a call | a run ends whatever its primitives do; the halt is lifted once the primitive returned |
| `client` | three calls | one at a time and in order; an endpoint is marked dead only for an unanswered call; the line moves |
| `system` | three calls, one delivered stop | two calls are at the server together only over a broken connection |
| `agent` | two steering messages, one follow-up, two tools, two turns with tools, one failing run | messages neither lost nor duplicated nor reordered, one steering message per turn, results match calls, follow-ups yield, a continuation is honoured; no run gets stuck |
| `gate` | an ensemble with three candidates and two lanes, two ordinary processes, two slots, one kill | n calls run at most, and a kill lets at most P - 2 more through in a slot, for P processes; no slot is lost but to a kill between create and write; a turn ends though others keep their slots; a dead slot is taken over |
| `episode` | one turn of budget, replies that move and finish or fail and move, one operator step, every way to end | one call in the robot with its own signal, agent and operator never together, no stale decision, no lost wakeup, no manual call in a dead episode and at most one teleop unit, one result that blames whom it should; the deadline ends a run, the operator gets its turn (liveness) |
| `stop_kills_program` | as `code_run` | violated: see below |
| `stop_hits_only_aborted`, `aborted_call_stops` | two calls | violated: see below |
| `agent_end_is_final` | as `agent` | violated: see below |

Why these bounds suffice: every rule in the facade is about a call and the stop generation, or about
two calls and the lock, so two ordinary calls, one exempt from the comparison, and two stops reach
each combination. Two programs are needed for one program's halt to meet another's primitive.
One client suffices for sessions, which share nothing but the lock.
Three calls let the one in the middle of the client's line give up. In `gate` three processes and two
slots let two take over the same dead slot while a third call runs; what more kills, processes and
callers do is the theorem's part.
In `episode` one turn of budget and one operator step already put every end before, during and
after a call of either driver: a step is seen or not, a budget spent or not; two calls in a batch let
the second meet what the first left. The theorems hold for any bounds. Two steering messages and a
follow-up fill both queues in one-at-a-time mode; two tools end in either order. `MaxTurns` counts
turns that call tools or ask to continue; other turns are bounded by the messages. Deadlock is
checked in `agent` (an idle agent can always be reset, so a stuck state is a stuck run); in the other
instances every call may be over, and the runs say CHECK_DEADLOCK FALSE. Symmetry is used only in
runs without liveness properties.

Fairness: threads that can run do run (`Threads`, `CodeRunFairness`), the event loop runs ready
callbacks and timers fire (`ClientFairness`, `AgentStep`, `OperatorStep`, `Deadline`), a poller of the
gate polls (`GateFairness`), an aborted request to the model ends (`CutOff`), and robot calls end, for
every RPC has a timeout. Handlers, programs, primitives, clients, services, the model and the operator
owe nothing: a servo loop ends only when stopped, a primitive may never return, a service or a model
may never answer, the operator may keep the robot, and the processes that are not `Responsive` may
never give a slot back. `StopDrains`, `RunEnds`, `HaltLifted`, `LineMoves`, `TurnEnds`,
`DeadSlotTakenOver`, `DeadlineEndsRun` and `OperatorGetsItsTurn` hold regardless.

### Where the code differs from what is written

* `StopKillsProgram`: a stop that reaches an executing `code.run` before `_abort.clear()`
  (code_exec.py:1304) does not kill the child, though PROTOCOL.md:373 says so. The robot is safe
  (`StopBoundsMotion` holds: the program's primitives are refused), the program runs on.
* `StopHitsOnlyAborted` and `AbortedCallStops`: rpc.ts:108 says that an abort asks the server to
  stop *that* call. The stop names no call: it may hit the next one, once the server has noted the
  generation that one arrived under, or come before the request.
* `AgentEndIsFinal`: agent.ts:271 says that `agent_end` is a run's final event. After a listener
  threw in a parallel batch, tools that still execute report their end into the next run.

Seen while modelling, with no run of their own (the hazards of PROJECT.json have most of them):

* A session that expires and is registered again before its drop hook gets the call lock loses the
  state of the new session (rpc_facade.py:425-427): the hook does not look again.
* The deadline timer does nothing when the episode is over already (robot.ts:920): a model call that
  hangs after the robot broke outlives the time limit. `DeadlineEndsRun` excludes this case.
* The agent's call is not checked again after it waited at the gate or for the robot (robot.ts:1015),
  as the operator's manual one is (robot.ts:891): it may begin after the episode ended.
* Nor is a teleop unit. Its gates are checked (gumi/index.ts:1026) before the batch awaits `handle.look`
  (:1037) and `stateNow` (:1050), and the handle runs `act` without a further check
  (modes/units/index.ts:1170). The deadline (which stops no batch while the agent is idle), the agent's
  `finish` (which the takeover's gate does not hold) or a server's exit may end the episode in between,
  and the unit begins nevertheless, though the comment at :1012 counts "episode not over" among the gates
  of an operator's step. `OperatorActsInEpisode` states what is kept: that unit is the batch's last.
* An operator's step that fails after it moved the robot is not counted (gumi/index.ts:1056,
  dashboard/index.ts:793), so a call the agent decided before it is executed. The comments of the
  takeover (gumi/index.ts:565-571, :882-884) promise more: that a call decided before the operator acted
  is dropped. `AgentActsOnWhatItSaw` is about the steps the code counts.
* A call admitted before a program began waits for the lock and runs after it, also while a primitive
  the program abandoned still runs, though PROTOCOL.md:363-365 says that every business call is then
  refused. It cannot move (`MotionExclusive`).
* A request may carry a steering message that an earlier run, failed before its own request, left in
  the transcript, beside the one its own run polled; `OneSteerPerRequest` counts what each run takes.
* A reply the deadline cut off counts as the planner's error when its partial text holds an unparsed
  call (robot.ts:985). Turn, call and token budgets are only checked by calls that reach the gate
  (robot.ts:1000): a model that keeps naming tools that do not exist meets none of them.

## The theorems

All hold for any sets of calls, messages, tools, callers and processes (finite where they are counted)
and any bounds. Assumptions are only those named in the modules (`FacadeAssumption`,
`SessionAssumption`, `CodeAssumption`, `ClientAssumption`, `LockAssumption`, `TakeoverAssumption`,
`EpisodeAssumption`, `GateAssumption`, `EnsembleAssumption`, `AgentAssumption`, `SystemAssumption`).
Every safety property that a run checks and that holds, invariant or action property, is stated by a theorem.

* `RpcFacade_proofs`: `FacadeTypeCorrect`, `OneCallAtATimeHolds`, `StopBoundsMotionHolds` and
  `FacadeImplementsSafeMotion`. `OneCallAtATime` is inductive with the types. `StopBoundsMotion` is
  not: that a step is late at most once needs `LateOnlyWhenStopped` (a call on its way to its first
  step, or in a step, has none yet), which needs `ArrivalPast` (no call has seen a generation to
  come).
* `RpcSessions_proofs`: `SessionsUseFacade` (every behaviour with sessions is one of the facade, so
  its theorems carry over), `SessionTypeCorrect`, `NoOrphanStateHolds`, `OnlyIdleExpiresHolds`. That
  no state is orphaned needs `FoundSession`: the session a running call found may have been taken out
  since, but then its hook is due, because the call has the lock the hook needs.
* `CodeRun_proofs`: the same for the runner, with `MotionExclusiveHolds`, `HaltCoversAbandonedHolds`,
  `TimeoutAnswerStopsHolds` and `CodeRunRefinesSafeMotion`. Exclusion of motion rests on
  `PrimOwned` (a primitive is its run's until it is abandoned), `HaltHeld` (from the halt to its
  lifting, motion is halted) and `OneAbandoned` (while one abandoned primitive is dealt with, no
  other run waits for a primitive); `StopAccounted` follows the run's own stop.
* `RpcSystem_proofs`, on the client: `ClientTypeCorrect`, `OneAtATimeInOrderHolds`,
  `DeadOnlyIfUnansweredHolds`. The order is not inductive: what a queued call may conclude from its
  predecessor depends on the calls made in between. `Line` and `Slot` say that whoever came between
  the two, and everyone when the slot is free, has settled. On the composition:
  `SystemIsClientAndServer` refines the system to both of its sides at once (a step of the network is
  a reply or a break for the client, an arrival or nothing for the facade), so each side's theorems
  hold of the whole. `OneCallAtServerHolds` joins them: the client posts the next call only when the
  one before is settled, and `Connections` says what that tells of the server, namely that a call is
  there only if posted, and answered only when done.
* `AgentLoop_proofs`: `NothingLostHolds`, `InOrderHolds`, `OneSteerPerRequestHolds`,
  `ResultsMatchCallsHolds`, `FollowUpsYieldHolds`, `ContinueHonouredHolds`, `AgentTypeCorrect`, all
  from `AgentIInv`. Order is not inductive as a property of the transcript: `Lanes` says it of the
  concatenation transcript, pending messages, queue (each ascending, each ahead of the next), and
  `Accounted` that these, the removed and the lost messages partition what was queued. `SteerBudget`
  counts the steering messages in front of the next request at each place of the loop, with `Settled`
  (between two turns nothing is pending); `Yields` says which messages a pending follow-up may not
  overtake; `BatchInv` ties the results to a prefix of the calls and the calls reached to their tools;
  `Owes` says that a continuation is owed only between the decision and the next request, and that
  where the loop could stop `wants` says so.
* `Ensemble_proofs`: `EnsembleUsesGate`, a refinement: turns and lanes take steps of the gate or none.
  The gate is proved for itself. `NoSlotForgottenHolds` rests on `Owned` (the file of a live process is
  in the hands of its creator), which needs `NotItsOwn` (nobody is about to remove a file of its own
  process: scanning is synchronous, `OneAtATime`) and `OneEmptyEach`. `SlotsBoundCallsHolds` is a
  counting argument. A slot is used twice only when a file was removed from under its owner
  (`Robbed`), by a process that had read a dead pid there before (`Stale`). `BoundAt` bounds the two
  together: a removal of the wrong file turns one of the second into one of the first, and only a kill
  makes more of the second, one for each process but the dead one and the one that takes over
  rightly. The bound is one per slot, for a process may die with several. `EnsembleTypeCorrect` needs
  `TurnOK` and `TurnHasSlot`: a turn past its gate has its own slot throughout.
* `RobotLock_proofs`: `LockExcludes`. A call that runs is waited for by every call behind it, and
  links are dropped only when released, which makes the chain a mutex however callers leave it.
* `RobotEpisode_proofs`: `EpisodeUsesLock`, a refinement: each step of the episode is a step of the
  lock or none; `EpisodeRunsAlone` follows. `DriveInvariant` carries the properties of the takeover
  (`OneDriverHolds`, `AgentActsOnWhatItSawHolds`, `NoLostWakeupHolds`):
  `Who` ties places in the lock and the flag `operating` to the two drivers, `Gate` says that a call
  past the gate is marked `busy`, so that nobody takes the robot under it, and that none is past it
  while the operator acts, `Sight` that equal generations mean the agent has seen every step.
  `ResultInvariant` carries `OneResultHolds`: until the shutdown the extension owns its server, so a
  broken robot is the robot's fault, and from then on the result that is due has been written.
  `EpisodeInvariant` carries `TimeLimitIsNoPlannerErrorHolds` and `EpisodeTypeCorrect`: the property
  speaks of results already written, so it needs `ClockInv` at the time of writing (only the timer
  aborts a run by time, when it does it ends the episode and names the limit, and from then on no
  reply counts as the planner's error unless it leaked a call), and `ResultsInv` to keep it.
  `OperatorActsInEpisodeHolds` follows the operator past the end of the episode: `LastUnit` (it is over
  and no unit is past its check) and `NoUnit` (nor does one run) each last for ever, and the first
  becomes the second when the unit under way ends. A manual call begins only at its turn, where it is
  checked (`OperatorStarts`).

Refinement is proved in the usual way: initial states map to initial states and, under the
invariant before and after, every step maps to a step of the abstract specification or a stutter; for
SafeMotion `BarredGrows` says that stopped and answered calls stay barred.

Only model-checked: liveness (`StopDrains`, `RunEnds`, `HaltLifted`, `LineMoves`, `TurnEnds`,
`DeadSlotTakenOver`, `DeadlineEndsRun`, `OperatorGetsItsTurn`) and the absence of deadlock in `agent`,
which speak of fairness and ENABLED, out of TLAPS's reach; and the four runs that expect a violation,
whose counterexamples are their result.

## Not modelled, and the plan

Next, in this order:

1. Proofs: abstract specifications of the remaining shared objects, implemented by what is there: a
   queue served in order for the client's line, a mutex for the robot lock, a counter of slots that
   kills may raise for the gate. `StopBoundsMotion` of the composed system: it follows from
   `SystemIsClientAndServer` and `StopBoundsMotionHolds`, but the prover does not use the theorems of
   an instance, so it is not written as a theorem yet.
2. The main-thread dispatch (`main_thread_serve.py`) as a second implementation of the call line: it
   serves in order what `RpcFacade` serves in any order.
3. The session of the coding agent (`agent-session.ts`): retry, compaction and the queues around the
   agent loop, composed with `AgentLoop` and with the episode, whose `agent_end` comes before pi's
   retries (robot.ts:982).
4. `ServiceProcess`: readiness races and the staged shutdown, composed with the client; the hardware
   lock.
5. In the robot extension: approval of calls, code mode, flash and MotorMind, the exploration recipe;
   the recorder and the VLM operator of the takeover.

Left out for good: numeric and geometric code, simulators and drivers, model providers (external
services), presentation, offline tools. They are most of the repository's lines and have little state
that several actors share. The durable harness and chord are large systems of their own, outside the
robot path. Durations are not modelled: a timer may fire at any time after it is set, which covers
every choice of timeouts but says nothing of their proportions (`ready()` of rpc.ts, whose 3 s polls
may mark a service dead that was given 300 s, is such a case).
