------------------------------ MODULE CodeRun ------------------------------
(***************************************************************************)
(* `code.run` on an env server: a program in a child process whose         *)
(* primitive calls the server executes itself                              *)
(* (services/pi_embodied_services/utils/code_exec.py, CodeRunner and       *)
(* CodeRunMixin), on top of the facade's call path.                        *)
(*                                                                         *)
(* Threads: the run's transport thread (variable run), the worker thread   *)
(* of the primitive it is waiting for (prim), the timer that stops the     *)
(* robot at the deadline (timer), the thread that waits for an abandoned   *)
(* primitive (watcher), transport threads that answer `stop` (aborting)    *)
(* and the child process (child).                                          *)
(*                                                                         *)
(* A primitive is, like any handler, a loop that polls stop_requested      *)
(* before each motion step; it may stop polling for good.  Call and        *)
(* translation budgets and argument checks are one nondeterministic refusal*)
(***************************************************************************)
EXTENDS RpcFacade

CONSTANT CodeCalls    \* the calls that are code.run

ASSUME CodeAssumption ==
    CodeCalls \subseteq Calls /\ CodeCalls \cap SessionCalls = {}

VARIABLES
    run,      \* run[c]: where code.run c's thread is
    child,    \* child[c]: its child process and what the pipe holds
    prim,     \* prim[c]: the worker thread of c's primitive
    watcher,  \* watcher[c]: what is done about a primitive c abandoned
    expired,  \* expired[c]: c's deadline has passed
    issued,   \* issued[c]: state.stop_issued, the run's own stop
    timer,    \* timer[c]: the thread of the primitive's deadline timer
    outcome,  \* outcome[c]: the _Outcome the run ends with
    abort,    \* the _abort event
    aborting  \* threads that bumped the generation and have yet to call abort()

codeVars == <<run, child, prim, watcher, expired, issued, timer, outcome, abort, aborting>>

vars == <<facadeVars, codeVars>>

Run == {"none", "checked", "armed", "spawned", "serving", "polling", "prim",
        "killing", "after", "end"}
Child == {"none", "idle", "program", "asking", "sent", "dead"}
Prim == {"none", "polling", "moving", "returned"}
Watcher == {"none", "halt", "stopping", "joining", "stop", "abort", "lift", "gone"}
Timer == {"off", "woken", "fired", "spent"}
Outcome == {"none", "wedged", "timeout", "cancelled", "died", "done", "abandoned"}

TypeOK ==
    /\ FacadeTypeOK
    /\ run \in [CodeCalls -> Run]
    /\ child \in [CodeCalls -> Child]
    /\ prim \in [CodeCalls -> Prim]
    /\ watcher \in [CodeCalls -> Watcher]
    /\ expired \in [CodeCalls -> BOOLEAN]
    /\ issued \in [CodeCalls -> BOOLEAN]
    /\ timer \in [CodeCalls -> Timer]
    /\ outcome \in [CodeCalls -> Outcome]
    /\ abort \in BOOLEAN
    /\ aborting \in Nat

Init ==
    /\ FacadeInit
    /\ run = [c \in CodeCalls |-> "none"]
    /\ child = [c \in CodeCalls |-> "none"]
    /\ prim = [c \in CodeCalls |-> "none"]
    /\ watcher = [c \in CodeCalls |-> "none"]
    /\ expired = [c \in CodeCalls |-> FALSE]
    /\ issued = [c \in CodeCalls |-> FALSE]
    /\ timer = [c \in CodeCalls |-> "off"]
    /\ outcome = [c \in CodeCalls |-> "none"]
    /\ abort = FALSE
    /\ aborting = 0

(* _active, and the child _proc names. *)
ActiveRun(c) == run[c] \in {"armed", "spawned", "serving", "polling", "prim", "killing"}
HasProc(c) == run[c] \in {"spawned", "serving", "polling", "prim", "killing"}

Alive(c) == prim[c] \in {"polling", "moving"}
Abandoned(c) == watcher[c] # "none"

(* wedged: a primitive an earlier run abandoned is still running. *)
Wedged == \E c \in CodeCalls : Abandoned(c) /\ Alive(c)

(* _exclusive_call_active: the hook _admit consults. *)
Exclusive == (\E c \in CodeCalls : ActiveRun(c)) \/ Wedged

RunGoto(c, where) == run' = [run EXCEPT ![c] = where]

(* The run is over for this reason; what follows is the kill. *)
EndRun(c, why) ==
    /\ RunGoto(c, "killing")
    /\ outcome' = [outcome EXCEPT ![c] = why]

(* CodeRunner.abort: the event is set and the child _proc names is killed. *)
Abort ==
    /\ abort' = TRUE
    /\ child' = [c \in CodeCalls |->
                    IF HasProc(c) /\ child[c] \in {"idle", "program"} THEN "dead" ELSE child[c]]

TimedOut(c) == issued[c] \/ expired[c]
---------------------------------------------------------------------------
(* CodeRunner.run, on the transport thread that holds the call lock. *)

(* The wedged check comes before anything is started. *)
RunCheck(c) ==
    /\ pc[c] = "running"
    /\ run[c] = "none"
    /\ IF Wedged
         THEN RunGoto(c, "end") /\ outcome' = [outcome EXCEPT ![c] = "wedged"]
         ELSE RunGoto(c, "checked") /\ UNCHANGED outcome
    /\ UNCHANGED <<facadeVars, child, prim, watcher, expired, issued, timer, abort, aborting>>

(* The abort event is cleared as the run becomes active. *)
RunArm(c) ==
    /\ run[c] = "checked"
    /\ RunGoto(c, "armed")
    /\ abort' = FALSE
    /\ UNCHANGED <<facadeVars, child, prim, watcher, expired, issued, timer, outcome, aborting>>

(* The child is started (or cannot be), and published for abort() to kill. *)
RunSpawn(c) ==
    /\ run[c] = "armed"
    /\ \/ /\ RunGoto(c, "spawned")
          /\ child' = [child EXCEPT ![c] = "idle"]
          /\ UNCHANGED outcome
       \/ EndRun(c, "died") /\ UNCHANGED child
    /\ UNCHANGED <<facadeVars, prim, watcher, expired, issued, timer, abort, aborting>>

(* The program is sent unless the run was aborted meanwhile. *)
RunSetup(c) ==
    /\ run[c] = "spawned"
    /\ \/ ~abort /\ child[c] = "idle" /\ RunGoto(c, "serving")
          /\ child' = [child EXCEPT ![c] = "program"] /\ UNCHANGED outcome
       \/ ~abort /\ child[c] = "dead" /\ EndRun(c, "died") /\ UNCHANGED child
       \/ abort /\ RunGoto(c, "serving") /\ UNCHANGED <<child, outcome>>
    /\ UNCHANGED <<facadeVars, prim, watcher, expired, issued, timer, abort, aborting>>

(* _serve, top of the loop: the timeout is looked at first, then the abort. *)
ServeCheck(c) ==
    /\ run[c] = "serving"
    /\ IF TimedOut(c) THEN EndRun(c, "timeout")
       ELSE IF abort THEN EndRun(c, "cancelled")
       ELSE RunGoto(c, "polling") /\ UNCHANGED outcome
    /\ UNCHANGED <<facadeVars, child, prim, watcher, expired, issued, timer, abort, aborting>>

(* _serve, the pipe has nothing, or the child's end, or its death. *)
ServeIdle(c) ==
    /\ run[c] = "polling"
    /\ \/ child[c] \in {"idle", "program"} /\ RunGoto(c, "serving") /\ UNCHANGED outcome
       \/ child[c] = "sent" /\ EndRun(c, "done")
       \/ child[c] = "dead" /\ EndRun(c, IF abort THEN "cancelled" ELSE "died")
    /\ UNCHANGED <<facadeVars, child, prim, watcher, expired, issued, timer, abort, aborting>>

(* The reply goes back, unless the run timed out or was aborted meanwhile. *)
Reply(c, aborted) ==
    IF TimedOut(c) THEN EndRun(c, "timeout") /\ UNCHANGED child
    ELSE IF aborted THEN EndRun(c, "cancelled") /\ UNCHANGED child
    ELSE /\ RunGoto(c, "serving")
         /\ child' = [child EXCEPT ![c] = "program"]
         /\ UNCHANGED outcome

(* _call refuses: a stop was requested, or the call is not allowed.  A     *)
(* name that is no primitive is refused before the stop is looked at.      *)
ServeRefuse(c) ==
    /\ run[c] = "polling"
    /\ child[c] = "asking"
    /\ \/ StopRequested /\ abort' = TRUE
       \/ UNCHANGED abort
    /\ Reply(c, abort')
    /\ UNCHANGED <<facadeVars, prim, watcher, expired, issued, timer, aborting>>

(* _call runs the primitive, on a worker thread. *)
ServeInvoke(c) ==
    /\ run[c] = "polling"
    /\ child[c] = "asking"
    /\ ~StopRequested
    /\ prim' = [prim EXCEPT ![c] = "polling"]
    /\ RunGoto(c, "prim")
    /\ UNCHANGED <<facadeVars, child, watcher, expired, issued, timer, outcome, abort, aborting>>

(* _invoke: the worker thread returned in time. *)
Joined(c) ==
    /\ run[c] = "prim"
    /\ watcher[c] = "none"
    /\ prim[c] = "returned"
    /\ prim' = [prim EXCEPT ![c] = "none"]
    /\ Reply(c, abort)
    /\ UNCHANGED <<facadeVars, watcher, expired, issued, timer, abort, aborting>>

(* Mutant: only an abort, not the deadline, abandons a primitive. *)
AbandonAborted(c) ==
    /\ run[c] = "prim"
    /\ watcher[c] = "none"
    /\ Alive(c)
    /\ abort
    /\ watcher' = [watcher EXCEPT ![c] = "halt"]
    /\ UNCHANGED <<facadeVars, run, child, prim, expired, issued, timer, outcome, abort, aborting>>

(* _invoke: it did not return within the grace after the deadline or the   *)
(* abort.  It is listed as abandoned, the robot is halted, then stopped.   *)
Abandon(c) ==
    /\ run[c] = "prim"
    /\ watcher[c] = "none"
    /\ Alive(c)
    /\ expired[c] \/ abort
    /\ watcher' = [watcher EXCEPT ![c] = "halt"]
    /\ UNCHANGED <<facadeVars, run, child, prim, expired, issued, timer, outcome, abort, aborting>>

(* Mutant: motion is not halted. *)
AbandonUnhalted(c) ==
    /\ watcher[c] = "halt"
    /\ watcher' = [watcher EXCEPT ![c] = "stopping"]
    /\ UNCHANGED <<facadeVars, run, child, prim, expired, issued, timer, outcome, abort, aborting>>

AbandonHalt(c) ==
    /\ watcher[c] = "halt"
    /\ halt' = TRUE
    /\ watcher' = [watcher EXCEPT ![c] = "stopping"]
    /\ UNCHANGED <<pc, arrival, late, lock, active, gen, down,
                   run, child, prim, expired, issued, timer, outcome, abort, aborting>>

AbandonStop(c) ==
    /\ watcher[c] = "stopping"
    /\ Bump
    /\ Abort
    /\ watcher' = [watcher EXCEPT ![c] = "joining"]
    /\ EndRun(c, "abandoned")
    /\ UNCHANGED <<pc, arrival, late, lock, active, halt, down,
                   prim, expired, issued, timer, aborting>>

(* The finally of run: the child's tree is killed, the run is not active.  *)
RunKill(c) ==
    /\ run[c] = "killing"
    /\ child' = [child EXCEPT ![c] = "dead"]
    /\ RunGoto(c, "after")
    /\ UNCHANGED <<facadeVars, prim, watcher, expired, issued, timer, outcome, abort, aborting>>

(* Mutant: a timed out run only says so. *)
RunStopNot(c) ==
    /\ run[c] = "after"
    /\ RunGoto(c, "end")
    /\ UNCHANGED <<facadeVars, child, prim, watcher, expired, issued, timer, outcome, abort, aborting>>

(* A run that ended by timeout or abandonment stops the robot, unless its  *)
(* timer took that on (_issue_stop).                                       *)
RunStop(c) ==
    /\ run[c] = "after"
    /\ RunGoto(c, "end")
    /\ IF outcome[c] \in {"timeout", "abandoned"} /\ ~issued[c]
         THEN issued' = [issued EXCEPT ![c] = TRUE] /\ Bump /\ Abort
         ELSE UNCHANGED <<issued, gen, child, abort>>
    /\ UNCHANGED <<pc, arrival, late, lock, active, halt, down,
                   prim, watcher, expired, timer, outcome, aborting>>

RunReturn(c) ==
    /\ run[c] = "end"
    /\ Return(c)
    /\ UNCHANGED codeVars
---------------------------------------------------------------------------
(* The other threads. *)

(* Mutant: a primitive looks at the halt only. *)
PrimPollHalt(c) ==
    /\ prim[c] = "polling"
    /\ ~halt
    /\ prim' = [prim EXCEPT ![c] = "moving"]
    /\ UNCHANGED <<facadeVars, run, child, watcher, expired, issued, timer, outcome, abort, aborting>>

(* The primitive's worker thread; late counts its steps for its call.      *)
PrimPoll(c) ==
    /\ prim[c] = "polling"
    /\ ~StopRequested
    /\ prim' = [prim EXCEPT ![c] = "moving"]
    /\ UNCHANGED <<facadeVars, run, child, watcher, expired, issued, timer, outcome, abort, aborting>>

PrimMove(c) ==
    /\ prim[c] = "moving"
    /\ prim' = [prim EXCEPT ![c] = "polling"]
    /\ late' = [late EXCEPT ![c] = IF StopHit(c) THEN @ + 1 ELSE @]
    /\ UNCHANGED <<pc, arrival, lock, active, gen, halt, down,
                   run, child, watcher, expired, issued, timer, outcome, abort, aborting>>

PrimReturn(c) ==
    /\ prim[c] = "polling"
    /\ prim' = [prim EXCEPT ![c] = "returned"]
    /\ UNCHANGED <<facadeVars, run, child, watcher, expired, issued, timer, outcome, abort, aborting>>

(* Mutant: the watcher waits for the thread for a while only. *)
WatchHurry(c) ==
    /\ watcher[c] = "joining"
    /\ watcher' = [watcher EXCEPT ![c] = "stop"]
    /\ UNCHANGED <<facadeVars, run, child, prim, expired, issued, timer, outcome, abort, aborting>>

(* The watcher of an abandoned primitive (_release_abandoned): once its    *)
(* thread has ended, stop again, then lift the halt.                       *)
WatchJoin(c) ==
    /\ watcher[c] = "joining"
    /\ ~Alive(c)
    /\ watcher' = [watcher EXCEPT ![c] = "stop"]
    /\ UNCHANGED <<facadeVars, run, child, prim, expired, issued, timer, outcome, abort, aborting>>

WatchStop(c) ==
    /\ watcher[c] = "stop"
    /\ Bump
    /\ watcher' = [watcher EXCEPT ![c] = "abort"]
    /\ UNCHANGED <<pc, arrival, late, lock, active, halt, down,
                   run, child, prim, expired, issued, timer, outcome, abort, aborting>>

WatchAbort(c) ==
    /\ watcher[c] = "abort"
    /\ Abort
    /\ watcher' = [watcher EXCEPT ![c] = "lift"]
    /\ UNCHANGED <<facadeVars, run, prim, expired, issued, timer, outcome, aborting>>

(* Mutant: the halt stays. *)
WatchForget(c) ==
    /\ watcher[c] = "lift"
    /\ watcher' = [watcher EXCEPT ![c] = "gone"]
    /\ UNCHANGED <<facadeVars, run, child, prim, expired, issued, timer, outcome, abort, aborting>>

WatchLift(c) ==
    /\ watcher[c] = "lift"
    /\ halt' = FALSE
    /\ watcher' = [watcher EXCEPT ![c] = "gone"]
    /\ UNCHANGED <<pc, arrival, late, lock, active, gen, down,
                   run, child, prim, expired, issued, timer, outcome, abort, aborting>>

(* Time passes; the timer of the primitive in progress wakes at the        *)
(* deadline, takes the run's stop on itself, then issues it.  Cancelling   *)
(* the timer does not stop a thread that has woken.                        *)
Expire(c) ==
    /\ run[c] \notin {"none", "end"}
    /\ ~expired[c]
    /\ expired' = [expired EXCEPT ![c] = TRUE]
    /\ UNCHANGED <<facadeVars, run, child, prim, watcher, issued, timer, outcome, abort, aborting>>

TimerWake(c) ==
    /\ run[c] = "prim"
    /\ expired[c]
    /\ timer[c] = "off"
    /\ timer' = [timer EXCEPT ![c] = "woken"]
    /\ UNCHANGED <<facadeVars, run, child, prim, watcher, expired, issued, outcome, abort, aborting>>

TimerIssue(c) ==
    /\ timer[c] = "woken"
    /\ timer' = [timer EXCEPT ![c] = IF issued[c] THEN "spent" ELSE "fired"]
    /\ issued' = [issued EXCEPT ![c] = TRUE]
    /\ UNCHANGED <<facadeVars, run, child, prim, watcher, expired, outcome, abort, aborting>>

TimerStop(c) ==
    /\ timer[c] = "fired"
    /\ timer' = [timer EXCEPT ![c] = "spent"]
    /\ Bump
    /\ aborting' = aborting + 1
    /\ UNCHANGED <<pc, arrival, late, lock, active, halt, down,
                   run, child, prim, watcher, expired, issued, outcome, abort>>

(* A client's stop: the generation, then the hook (_on_stop).              *)
ClientStop ==
    /\ Stop
    /\ aborting' = aborting + 1
    /\ UNCHANGED <<run, child, prim, watcher, expired, issued, timer, outcome, abort>>

StopAbort ==
    /\ aborting > 0
    /\ aborting' = aborting - 1
    /\ Abort
    /\ UNCHANGED <<facadeVars, run, prim, watcher, expired, issued, timer, outcome>>

(* The child asks for a primitive, sends its result, or dies.              *)
ChildStep(c) ==
    /\ \/ child[c] = "program" /\ \E m \in {"asking", "sent"} : child' = [child EXCEPT ![c] = m]
       \/ child[c] \in {"idle", "program"} /\ child' = [child EXCEPT ![c] = "dead"]
    /\ UNCHANGED <<facadeVars, run, prim, watcher, expired, issued, timer, outcome, abort, aborting>>
---------------------------------------------------------------------------
RunStep(c) ==
    \/ RunCheck(c) \/ RunArm(c) \/ RunSpawn(c) \/ RunSetup(c)
    \/ ServeCheck(c) \/ ServeIdle(c) \/ ServeRefuse(c) \/ ServeInvoke(c)
    \/ Joined(c) \/ Abandon(c) \/ AbandonHalt(c) \/ AbandonStop(c)
    \/ RunKill(c) \/ RunStop(c) \/ RunReturn(c)

PrimStep(c) == PrimPoll(c) \/ PrimMove(c) \/ PrimReturn(c)

WatchStep(c) == WatchJoin(c) \/ WatchStop(c) \/ WatchAbort(c) \/ WatchLift(c)

TimerStep(c) == Expire(c) \/ TimerWake(c) \/ TimerIssue(c) \/ TimerStop(c)

(* The facade's own steps: every call's way to its handler, and the        *)
(* handlers of the other calls.  (The end of the process, RpcFacade's      *)
(* ProcessStep, would only cut a behaviour short.)                         *)
FacadeStep ==
    /\ \/ \E c \in Calls : Admit(c, Exclusive) \/ Arrive(c) \/ Enter(c) \/ Start(c)
       \/ \E c \in Calls \ CodeCalls : Poll(c) \/ Move(c) \/ Return(c)
    /\ UNCHANGED codeVars

CodeNext ==
    \/ \E c \in CodeCalls :
         RunStep(c) \/ PrimStep(c) \/ WatchStep(c) \/ TimerStep(c) \/ ChildStep(c)
    \/ ClientStop
    \/ StopAbort

CodeRunNext == FacadeStep \/ CodeNext

CodeRunSpec == Init /\ [][CodeRunNext]_vars

(***************************************************************************)
(* The run's own thread makes progress and time passes.  The program, its  *)
(* primitives and the clients owe nothing: a program may loop for ever and *)
(* a primitive may never return.  The watcher runs once it can.            *)
(***************************************************************************)
CodeRunFairness ==
    \A c \in CodeCalls :
        /\ WF_vars(RunStep(c))
        /\ WF_vars(Expire(c))
        /\ WF_vars(WatchStep(c))

CodeRunFairSpec == CodeRunSpec /\ CodeRunFairness
---------------------------------------------------------------------------
(* Properties. *)

(* The server keeps SafeMotion's promise with programs too: the primitive  *)
(* a run left behind and the calls served after that run never move the    *)
(* robot at the same time, and no thread begins a step once its call was   *)
(* stopped or answered.                                                    *)
Movers == {c \in Calls : pc[c] = "moving"} \cup {c \in CodeCalls : prim[c] = "moving"}

CodeMover == IF Movers = {} THEN NoCall ELSE CHOOSE c \in Calls : c \in Movers

CodeMotion == INSTANCE SafeMotion WITH mover <- CodeMover, barred <- Barred

CodeRunImplementsSafeMotion == CodeMotion!Spec

(* No two threads of the server are in a motion step at once: not two      *)
(* handlers, not a handler and a primitive, not two runs' primitives.      *)
MotionExclusive == \A c, d \in Movers : c = d

(* Once the run that abandoned a primitive is on its way out, motion stays *)
(* halted for as long as the primitive runs, whatever other runs, their    *)
(* timers and the watchers of earlier primitives do (_halt_abandoned).     *)
HaltCoversAbandoned ==
    \A c \in CodeCalls : Abandoned(c) /\ run[c] # "prim" /\ Alive(c) => halt

(* A run answered as timed out or abandoned has stopped the robot, or the  *)
(* timer that took the stop on has yet to issue it.                        *)
TimeoutAnswerStops ==
    \A c \in CodeCalls :
        pc[c] = "done" /\ outcome[c] \in {"timeout", "abandoned"}
            => StopHit(c) \/ timer[c] = "fired"

(* A run ends, whatever its program and its primitives do.                 *)
RunEnds ==
    \A c \in CodeCalls : pc[c] = "running" ~> pc[c] = "done"

(* The halt an abandoned primitive left is lifted once it has returned.    *)
HaltLifted ==
    \A c \in CodeCalls :
        (watcher[c] \notin {"none", "gone"} /\ prim[c] = "returned")
            ~> ~halt

(* What PROTOCOL.md says of a stop, which the code does not keep in every  *)
(* interleaving.                                                           *)

(* "A `stop` while a run executes kills the child": with every abort()     *)
(* call that a stop owes made, no program of a stopped run is unharmed.    *)
StopKillsProgram ==
    (aborting = 0 /\ \A d \in CodeCalls : watcher[d] # "abort")
        => \A c \in CodeCalls :
             HasProc(c) /\ child[c] = "program" /\ StopHit(c) => abort
=============================================================================
