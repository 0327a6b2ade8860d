---------------------------- MODULE AgentLoop ----------------------------
(***************************************************************************)
(* The agent and its loop (packages/agent/src/agent.ts, agent-loop.ts):    *)
(* one run at a time, the steering and follow-up queues a run polls        *)
(* between its turns, the tool batch of a turn, abort, and the failure of  *)
(* a listener or hook anywhere in a run.                                   *)
(*                                                                         *)
(* Every await of the loop is a point where other callbacks run, so the    *)
(* loop's program counter (loop) has one value per await, and the queueing *)
(* calls, abort and the tools' completions are actions of their own.       *)
(* A prompt's own messages, text, usage and events are not modelled.       *)
(***************************************************************************)
EXTENDS Naturals, Sequences, SequencesExt

CONSTANTS
    Steers,       \* messages queued with steer(), each once
    Follows,      \* messages queued with followUp(), each once
    Tools,        \* tool calls an assistant message may contain
    MaxTurns,     \* bound: turns that call tools or ask to continue
    MaxFailures   \* bound: runs that throw

ASSUME AgentAssumption ==
    /\ Steers \cap Follows = {}
    /\ IsFiniteSet(Tools)
    /\ MaxTurns \in Nat
    /\ MaxFailures \in Nat

Messages == Steers \cup Follows

VARIABLES
    loop,       \* where the run is, or "idle" (activeRun is undefined)
    oneEach,    \* the queues' mode is "one-at-a-time", else "all"
    steering,   \* _steeringQueue
    followUps,  \* _followUpQueue
    pending,    \* pendingMessages: taken from a queue and not yet in the transcript
    skip,       \* skipInitialSteeringPoll
    last,       \* role of the transcript's last message
    calls,      \* tool calls of the turn's assistant message, in its order
    tool,       \* tool[t]: what became of call t of this turn
    results,    \* tool results added to the transcript for this turn
    sequential, \* this batch is executed sequentially
    more,       \* hasMoreToolCalls
    wants,      \* explicitContinuation
    aborted,    \* the run's abort signal
    doomed,     \* the request was made under an aborted signal
    turns,      \* turns so far, up to MaxTurns
    failures,   \* runs that threw so far
    order,      \* every message queued, in that order (history)
    delivered,  \* the queued messages added to the transcript (history)
    gone,       \* messages removed from a queue by its owner (history)
    lost,       \* messages a failed run had taken and not delivered (history)
    polled,     \* Len(order) at the last steering poll (history)
    since,      \* steering messages of the coming request (history)
    owed,       \* finishTurn asked to continue and no request followed (history)
    stray,      \* tools of a failed run that still execute
    late        \* a listener got an event after its run's agent_end (history)

queueVars == <<steering, followUps, order, gone>>
batchVars == <<calls, tool, results, sequential>>
flagVars == <<more, wants, owed>>
strayVars == <<failures, lost, stray, late>>
agentVars == <<loop, oneEach, queueVars, pending, skip, last, batchVars, flagVars,
               aborted, doomed, turns, strayVars, delivered, polled, since>>

Loop == {"idle", "prompts", "first", "prepare", "deliver", "request", "stream",
         "preparing", "checked", "executing", "awaiting", "finish", "poll", "stop",
         "ending", "failing"}
Tool == {"none", "held", "refused", "running", "ended"}

FlagsTypeOK ==
    /\ oneEach \in BOOLEAN /\ skip \in BOOLEAN /\ sequential \in BOOLEAN
    /\ more \in BOOLEAN /\ wants \in BOOLEAN /\ aborted \in BOOLEAN /\ doomed \in BOOLEAN
    /\ owed \in BOOLEAN /\ late \in BOOLEAN

LoopTypeOK ==
    /\ loop \in Loop
    /\ stray \in SUBSET Tools
    /\ last \in {"none", "assistant", "other"}
    /\ turns \in Nat /\ failures \in Nat /\ polled \in Nat /\ since \in Nat

QueueTypeOK ==
    /\ steering \in Seq(Steers) /\ followUps \in Seq(Follows)
    /\ pending \in Seq(Messages) /\ delivered \in Seq(Messages) /\ order \in Seq(Messages)
    /\ gone \in SUBSET Messages /\ lost \in SUBSET Messages

BatchTypeOK ==
    /\ calls \in Seq(Tools) /\ results \in Seq(Tools)
    /\ tool \in [Tools -> Tool]

AgentTypeOK == FlagsTypeOK /\ LoopTypeOK /\ QueueTypeOK /\ BatchTypeOK

NoTools == [t \in Tools |-> "none"]

AgentInit ==
    /\ loop = "idle"
    /\ oneEach \in BOOLEAN
    /\ steering = <<>> /\ followUps = <<>> /\ pending = <<>>
    /\ skip = FALSE
    /\ last = "none"
    /\ calls = <<>> /\ tool = NoTools /\ results = <<>> /\ sequential = FALSE
    /\ more = FALSE /\ wants = FALSE
    /\ aborted = FALSE /\ doomed = FALSE
    /\ turns = 0 /\ failures = 0
    /\ order = <<>> /\ delivered = <<>> /\ gone = {} /\ lost = {}
    /\ polled = 0 /\ since = 0
    /\ owed = FALSE /\ stray = {} /\ late = FALSE
---------------------------------------------------------------------------
(* The queues (PendingMessageQueue). *)

(* peek: what a drain takes. *)
Peek(queue) == IF oneEach /\ queue # <<>> THEN <<Head(queue)>> ELSE queue

Rest(queue) == SubSeq(queue, Len(Peek(queue)) + 1, Len(queue))

DrainSteering ==
    /\ pending' = Peek(steering)
    /\ steering' = Rest(steering)
    /\ polled' = Len(order)
    /\ UNCHANGED <<followUps, order, gone>>

DrainFollowUps ==
    /\ pending' = Peek(followUps)
    /\ followUps' = Rest(followUps)
    /\ UNCHANGED <<steering, order, gone, polled>>

\* Mutant of Queue: steering is queued with the follow-ups.
QueueAsFollowUp(m) ==
    /\ ~Contains(order, m)
    /\ order' = Append(order, m)
    /\ followUps' = Append(followUps, m)
    /\ UNCHANGED steering
    /\ UNCHANGED <<loop, oneEach, gone, pending, skip, last, batchVars, flagVars,
                   aborted, doomed, turns, strayVars, delivered, polled, since>>

\* Mutant of Queue: a message goes to the front of its queue.
QueueFirst(m) ==
    /\ ~Contains(order, m)
    /\ order' = Append(order, m)
    /\ IF m \in Steers
         THEN steering' = <<m>> \o steering /\ UNCHANGED followUps
         ELSE followUps' = <<m>> \o followUps /\ UNCHANGED steering
    /\ UNCHANGED <<loop, oneEach, gone, pending, skip, last, batchVars, flagVars,
                   aborted, doomed, turns, strayVars, delivered, polled, since>>

(* steer() and followUp(), at any time. *)
Queue(m) ==
    /\ ~Contains(order, m)
    /\ order' = Append(order, m)
    /\ IF m \in Steers
         THEN steering' = Append(steering, m) /\ UNCHANGED followUps
         ELSE followUps' = Append(followUps, m) /\ UNCHANGED steering
    /\ UNCHANGED <<loop, oneEach, gone, pending, skip, last, batchVars, flagVars,
                   aborted, doomed, turns, strayVars, delivered, polled, since>>

(* removeQueuedMessage, and clearAllQueues for one message at a time. *)
Unqueue(m) ==
    /\ Contains(steering, m) \/ Contains(followUps, m)
    /\ steering' = RemoveFirst(steering, m)
    /\ followUps' = RemoveFirst(followUps, m)
    /\ gone' = gone \cup {m}
    /\ UNCHANGED <<loop, oneEach, order, pending, skip, last, batchVars, flagVars,
                   aborted, doomed, turns, strayVars, delivered, polled, since>>
---------------------------------------------------------------------------
(* The start of a run. *)

StartRun ==
    /\ loop = "idle"
    /\ turns < MaxTurns
    /\ aborted' = FALSE
    /\ since' = 0
    /\ owed' = FALSE
    /\ UNCHANGED <<oneEach, batchVars, more, wants, doomed, turns, strayVars, delivered>>

Prompt ==
    /\ StartRun
    /\ loop' = "first"
    /\ last' = "other"
    /\ skip' = FALSE
    /\ UNCHANGED <<queueVars, pending, polled>>

(* continue(): behind an assistant message it takes what is queued as the  *)
(* prompt, steering first; otherwise the transcript is answered as it is.  *)
Continue ==
    /\ StartRun
    /\ \/ /\ last = "assistant" /\ steering # <<>>
          /\ DrainSteering
          /\ skip' = TRUE
          /\ loop' = "prompts"
       \/ /\ last = "assistant" /\ steering = <<>> /\ followUps # <<>>
          /\ DrainFollowUps
          /\ skip' = FALSE
          /\ loop' = "prompts"
       \/ /\ last = "other"
          /\ skip' = FALSE
          /\ loop' = "first"
          /\ UNCHANGED <<queueVars, pending, polled>>
    /\ UNCHANGED last

Abort ==
    /\ loop # "idle"
    /\ ~aborted
    /\ aborted' = TRUE
    /\ UNCHANGED <<loop, oneEach, queueVars, pending, skip, last, batchVars, flagVars,
                   doomed, turns, strayVars, delivered, polled, since>>
---------------------------------------------------------------------------
(* The turn: messages, request, response. *)

(* message_start and message_end of one pending message, then the next     *)
(* stage once there is none.                                               *)
Put(from, to) ==
    /\ loop = from
    /\ IF pending = <<>>
         THEN loop' = to /\ UNCHANGED <<pending, delivered, since, last>>
         ELSE /\ delivered' = Append(delivered, Head(pending))
              /\ pending' = Tail(pending)
              /\ since' = since + IF Head(pending) \in Steers THEN 1 ELSE 0
              /\ last' = "other"
              /\ UNCHANGED loop
    /\ UNCHANGED <<oneEach, queueVars, skip, batchVars, flagVars, aborted, doomed,
                   turns, strayVars, polled>>

PutPrompt == Put("prompts", "first")

PutPending == Put("deliver", "request")

\* Mutant of FirstPoll: the steering prompt does not skip the first poll.
FirstPollAlways ==
    /\ loop = "first"
    /\ DrainSteering
    /\ skip' = FALSE
    /\ loop' = "deliver"
    /\ UNCHANGED <<oneEach, last, batchVars, flagVars, aborted, doomed, turns, strayVars,
                   delivered, since>>

(* The loop's first steering poll, skipped when the prompt was steering.   *)
FirstPoll ==
    /\ loop = "first"
    /\ IF skip THEN UNCHANGED <<queueVars, pending, polled>> ELSE DrainSteering
    /\ skip' = FALSE
    /\ loop' = "deliver"
    /\ UNCHANGED <<oneEach, last, batchVars, flagVars, aborted, doomed, turns, strayVars,
                   delivered, since>>

\* Mutant of Prepare: the queue is polled whatever the last poll took.
PrepareRepoll ==
    /\ loop = "prepare"
    /\ DrainSteering
    /\ loop' = "deliver"
    /\ UNCHANGED <<oneEach, skip, last, batchVars, flagVars, aborted, doomed, turns,
                   strayVars, delivered, since>>

(* The inner loop's prologue after a completed turn: prepareNextTurn, and  *)
(* a second steering poll unless the last one took something.              *)
Prepare ==
    /\ loop = "prepare"
    /\ IF pending = <<>> THEN DrainSteering ELSE UNCHANGED <<queueVars, pending, polled>>
    /\ loop' = "deliver"
    /\ UNCHANGED <<oneEach, skip, last, batchVars, flagVars, aborted, doomed, turns,
                   strayVars, delivered, since>>

Request ==
    /\ loop = "request"
    /\ loop' = "stream"
    /\ doomed' = aborted
    /\ since' = 0
    /\ owed' = FALSE
    /\ UNCHANGED <<oneEach, queueVars, pending, skip, last, batchVars, more, wants,
                   aborted, turns, strayVars, delivered, polled>>

(* The tool calls an assistant message may hold. *)
Batches == UNION {SetToSeqs(T) : T \in SUBSET Tools \ {{}}}

(* streamAssistantResponse ended.  A request made under an aborted signal  *)
(* is answered by an aborted message (the stream function's contract); any *)
(* other may fail, say something only, or call tools.  Calls of a message  *)
(* cut off at the token limit get their error results at once.             *)
Respond ==
    /\ loop = "stream"
    /\ tool' = NoTools
    /\ turns' = IF turns < MaxTurns THEN turns + 1 ELSE turns
    /\ \/ /\ loop' = "ending"
          /\ calls' = <<>> /\ results' = <<>> /\ last' = "assistant"
          /\ UNCHANGED <<sequential, more>>
       \/ /\ ~doomed
          /\ loop' = "finish"
          /\ calls' = <<>> /\ results' = <<>> /\ last' = "assistant"
          /\ more' = FALSE
          /\ UNCHANGED sequential
       \/ /\ ~doomed /\ turns < MaxTurns
          /\ loop' = "finish"
          /\ calls' \in Batches /\ results' = calls' /\ last' = "other"
          /\ more' = TRUE
          /\ UNCHANGED sequential
       \/ /\ ~doomed /\ turns < MaxTurns
          /\ loop' = "preparing"
          /\ calls' \in Batches /\ results' = <<>> /\ last' = "assistant"
          /\ sequential' \in BOOLEAN
          /\ more' = FALSE
    /\ UNCHANGED <<oneEach, queueVars, pending, skip, wants, owed, aborted, doomed,
                   strayVars, delivered, polled, since>>
---------------------------------------------------------------------------
(* The tool batch.  tool[t] = "none" until prepareToolCall returned.       *)

Reached == {t \in Tools : tool[t] # "none"}

batchRest == <<oneEach, queueVars, pending, skip, calls, sequential, wants, owed, aborted,
               doomed, turns, strayVars, delivered, polled, since>>

(* The batch loop has come to the i-th call.                               *)
IsNext(i) == calls[i] \notin Reached /\ \A j \in 1 .. i - 1 : calls[j] \in Reached

(* prepareToolCall of the next call: an immediate outcome (unknown tool,   *)
(* invalid arguments, blocked, aborted) or a call held for execution.      *)
PrepareCall ==
    /\ loop = "preparing"
    /\ \E i \in DOMAIN calls :
          /\ IsNext(i)
          /\ \/ /\ tool' = [tool EXCEPT ![calls[i]] = "refused"]
                /\ loop' = IF sequential THEN "awaiting" ELSE "checked"
             \/ /\ ~aborted
                /\ tool' = [tool EXCEPT ![calls[i]] = "held"]
                /\ loop' = IF sequential THEN "executing" ELSE "checked"
    /\ UNCHANGED <<last, results, more, batchRest>>

(* The bottom of both batch loops: an abort ends them early. *)
CheckAbort ==
    /\ loop = "checked"
    /\ IF aborted \/ Reached = ToSet(calls)
         THEN IF sequential
                THEN loop' = "finish" /\ more' \in BOOLEAN
                ELSE loop' = "executing" /\ UNCHANGED more
         ELSE loop' = "preparing" /\ UNCHANGED more
    /\ UNCHANGED <<last, tool, results, batchRest>>

(* The held calls start together; in a parallel batch not under an abort.  *)
Start ==
    /\ loop = "executing"
    /\ LET becomes == IF aborted /\ ~sequential THEN "ended" ELSE "running"
       IN tool' = [t \in Tools |-> IF tool[t] = "held" THEN becomes ELSE tool[t]]
    /\ loop' = "awaiting"
    /\ UNCHANGED <<last, results, more, batchRest>>

(* A tool's promise settles, in any order and however it answers an abort. *)
ToolReturn(t) ==
    /\ loop = "awaiting"
    /\ tool[t] = "running"
    /\ tool' = [tool EXCEPT ![t] = "ended"]
    /\ UNCHANGED <<loop, last, results, more, batchRest>>

Running == {t \in Tools : tool[t] = "running"}

\* Mutant of EmitResult: results are added as the tools completed.
EmitAnyResult ==
    /\ loop = "awaiting"
    /\ Running = {}
    /\ \E t \in Reached \ ToSet(results) : results' = Append(results, t)
    /\ last' = "other"
    /\ IF sequential
         THEN loop' = "checked" /\ UNCHANGED more
         ELSE IF ToSet(results') = Reached
                THEN loop' = "finish" /\ more' \in BOOLEAN
                ELSE UNCHANGED <<loop, more>>
    /\ UNCHANGED <<tool, batchRest>>

(* Once every started tool ended, the results enter the transcript in the  *)
(* order of the calls: all of a parallel batch, one of a sequential one.   *)
EmitResult ==
    /\ loop = "awaiting"
    /\ Running = {}
    /\ results' = Append(results, calls[Len(results) + 1])
    /\ last' = "other"
    /\ IF sequential
         THEN loop' = "checked" /\ UNCHANGED more
         ELSE IF ToSet(results') = Reached
                THEN loop' = "finish" /\ more' \in BOOLEAN
                ELSE UNCHANGED <<loop, more>>
    /\ UNCHANGED <<tool, batchRest>>
---------------------------------------------------------------------------
(* The end of a turn and of the run. *)

\* Mutant of Finish: a turn without tool calls goes straight to the follow-ups.
FinishUnpolled ==
    /\ loop = "finish"
    /\ \/ loop' = "ending" /\ UNCHANGED <<wants, owed>>
       \/ loop' = (IF more THEN "poll" ELSE "stop") /\ wants' = FALSE /\ UNCHANGED owed
       \/ /\ turns < MaxTurns
          /\ loop' = "poll" /\ wants' = TRUE /\ owed' = TRUE
    /\ UNCHANGED <<oneEach, queueVars, pending, skip, last, batchVars, more, aborted, doomed,
                   turns, strayVars, delivered, polled, since>>

(* finishTurn's decision: end, continue, or neither. *)
Finish ==
    /\ loop = "finish"
    /\ \/ loop' = "ending" /\ UNCHANGED <<wants, owed>>
       \/ loop' = "poll" /\ wants' = FALSE /\ UNCHANGED owed
       \/ /\ turns < MaxTurns
          /\ loop' = "poll" /\ wants' = TRUE /\ owed' = TRUE
    /\ UNCHANGED <<oneEach, queueVars, pending, skip, last, batchVars, more, aborted, doomed,
                   turns, strayVars, delivered, polled, since>>

Poll ==
    /\ loop = "poll"
    /\ DrainSteering
    /\ IF more \/ pending' # <<>>
         THEN loop' = "prepare" /\ wants' = FALSE
         ELSE loop' = "stop" /\ UNCHANGED wants
    /\ UNCHANGED <<oneEach, skip, last, batchVars, more, owed, aborted, doomed, turns,
                   strayVars, delivered, since>>

\* Mutant of Stop: the continuation asked for is forgotten.
StopRegardless ==
    /\ loop = "stop"
    /\ DrainFollowUps
    /\ loop' = IF pending' # <<>> THEN "prepare" ELSE "ending"
    /\ wants' = FALSE
    /\ UNCHANGED <<oneEach, skip, last, batchVars, more, owed, aborted, doomed, turns,
                   strayVars, delivered, since>>

(* Nothing more to do: the follow-ups, else a turn finishTurn asked for.   *)
Stop ==
    /\ loop = "stop"
    /\ DrainFollowUps
    /\ loop' = IF pending' # <<>> \/ wants THEN "prepare" ELSE "ending"
    /\ wants' = FALSE
    /\ UNCHANGED <<oneEach, skip, last, batchVars, more, owed, aborted, doomed, turns,
                   strayVars, delivered, since>>

(* agent_end's listeners settled: finishRun. *)
End ==
    /\ loop = "ending"
    /\ loop' = "idle"
    /\ UNCHANGED <<oneEach, queueVars, pending, skip, last, batchVars, flagVars, aborted,
                   doomed, turns, strayVars, delivered, polled, since>>

(* A listener, a hook or the stream function throws.  What the loop took   *)
(* from a queue and did not deliver goes with it; tools of a parallel      *)
(* batch run on.  Nothing can throw where the loop goes from one poll, or  *)
(* from the last preparation, straight on; while tools run only the        *)
(* listeners of one that ended can.                                        *)
Throw ==
    /\ loop \notin {"idle", "stop", "executing", "failing"}
    /\ loop = "awaiting" /\ Running # {} => \E t \in Tools : tool[t] = "ended"
    /\ failures < MaxFailures
    /\ failures' = failures + 1
    /\ loop' = "failing"
    /\ lost' = lost \cup ToSet(pending)
    /\ pending' = <<>>
    /\ stray' = stray \cup Running
    /\ tool' = NoTools
    /\ UNCHANGED <<oneEach, queueVars, skip, last, calls, results, sequential, flagVars,
                   aborted, doomed, turns, late, delivered, polled, since>>

(* handleRunFailure, whose own listeners may throw before its message is   *)
(* in the transcript, and finishRun.                                       *)
Fail ==
    /\ loop = "failing"
    /\ loop' = "idle"
    /\ last' \in {"assistant", last}
    /\ UNCHANGED <<oneEach, queueVars, pending, skip, batchVars, flagVars, aborted, doomed,
                   turns, strayVars, delivered, polled, since>>

(* A tool of a failed run ends.  Its event reaches the listeners when a    *)
(* run is active by then, and is an error nobody sees otherwise.           *)
StrayReturn(t) ==
    /\ t \in stray
    /\ stray' = stray \ {t}
    /\ late' = (late \/ loop \notin {"idle", "failing"})
    /\ UNCHANGED <<loop, oneEach, queueVars, pending, skip, last, batchVars, flagVars, aborted,
                   doomed, turns, failures, lost, delivered, polled, since>>

Reset ==
    /\ loop = "idle"
    /\ steering' = <<>> /\ followUps' = <<>>
    /\ gone' = gone \cup ToSet(steering) \cup ToSet(followUps)
    /\ last' = "none"
    /\ UNCHANGED <<loop, oneEach, order, pending, skip, batchVars, flagVars, aborted, doomed,
                   turns, strayVars, delivered, polled, since>>
---------------------------------------------------------------------------
LoopStep ==
    \/ PutPrompt \/ FirstPoll \/ Prepare \/ PutPending \/ Request \/ Respond
    \/ PrepareCall \/ CheckAbort \/ Start \/ EmitResult
    \/ Finish \/ Poll \/ Stop \/ End \/ Fail

AgentNext ==
    \/ LoopStep
    \/ \E m \in Messages : Queue(m) \/ Unqueue(m)
    \/ \E t \in Tools : ToolReturn(t) \/ StrayReturn(t)
    \/ Prompt \/ Continue \/ Abort \/ Throw \/ Reset

AgentSpec == AgentInit /\ [][AgentNext]_agentVars
---------------------------------------------------------------------------
(* What the loop promises. *)

\* Every message steered or followed up is still queued, taken by the loop,
\* in the transcript once, removed by its owner, or lost with a failed run:
\* no poll drops or repeats one, whichever of the five polls took it.
NothingLost ==
    LET places == <<ToSet(steering), ToSet(followUps), ToSet(pending), ToSet(delivered),
                    gone, lost>>
    IN  /\ \A s \in {steering, followUps, pending, delivered} : IsInjective(s)
        /\ \A k, l \in 1 .. 6 : k < l => places[k] \cap places[l] = {}
        /\ ToSet(order) = UNION {places[k] : k \in 1 .. 6}

SameKind(m, n) == m \in Steers <=> n \in Steers

\* steer() or followUp() was called with m before it was with n.
QueuedBefore(m, n) ==
    \E k, l \in DOMAIN order : k < l /\ order[k] = m /\ order[l] = n

\* Steering messages enter the transcript in the order of the steer() calls,
\* and follow-ups in that of the followUp() calls, over runs and failures.
InOrder ==
    \A i, j \in DOMAIN delivered :
        i < j /\ SameKind(delivered[i], delivered[j])
            => QueuedBefore(delivered[i], delivered[j])

\* In one-at-a-time mode a run takes at most one steering message into each of
\* its requests, although the loop polls twice between two (agent-loop.ts:
\* 201-206).  What an earlier run, which failed before its request, left in the
\* transcript is not counted: the next run's request carries it as well.
OneSteerPerRequest ==
    oneEach => since + Cardinality({i \in DOMAIN pending : pending[i] \in Steers}) <= 1

\* When a batch is over its results stand in the transcript in call order,
\* one for each call unless the run was aborted, and one at least for every
\* tool that was executed; no tool still runs.
ResultsMatchCalls ==
    loop = "finish" =>
        /\ IsPrefix(results, calls)
        /\ results # calls => aborted
        /\ Reached \subseteq ToSet(results)
        /\ Running = {}

\* Follow-ups are taken only when no steering message waits: one still
\* queued beside a follow-up on its way was queued after the last poll.
FollowUpsYield ==
    ToSet(pending) \cap Follows # {} =>
        \A i \in 1 .. polled : ~Contains(steering, order[i])

\* finishTurn's decision to continue is followed by one more request before
\* the run ends, whatever the polls of the queues found (types.ts:151-153).
ContinueHonoured == loop = "ending" => ~owed

\* agent_end is the final event of a run (agent.ts:271): no listener gets an
\* event of a run that already ended.
AgentEndIsFinal == ~late
=============================================================================
