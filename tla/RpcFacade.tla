---------------------------- MODULE RpcFacade ----------------------------
(***************************************************************************)
(* A robot env server's RPC facade, as the plain `serve` runs it           *)
(* (services/pi_embodied_services/utils/rpc/rpc_facade.py).                *)
(*                                                                         *)
(* Each request has its own transport thread.  A business call is admitted,*)
(* notes the stop generation it arrived under, waits for the call lock, is *)
(* dropped if a stop came in between, and otherwise runs a handler that    *)
(* polls stop_requested before every motion step.  `stop` and `shutdown`   *)
(* are answered without waiting in that line.                              *)
(*                                                                         *)
(* A handler is abstracted to the loop every motion method has: poll, make *)
(* one step, poll again.  What a step does is not modelled, only when it   *)
(* is made.  A call with no steps polls nothing and returns.               *)
(***************************************************************************)
EXTENDS Naturals, FiniteSets

CONSTANTS
    Calls,          \* the business calls clients send
    SessionCalls,   \* those of them that are session.register / session.close
    NoCall,         \* no call: a free lock, an idle server
    MaxGen          \* bound on the stop generation for stops sent by clients

ASSUME FacadeAssumption ==
    /\ SessionCalls \subseteq Calls
    /\ NoCall \notin Calls
    /\ MaxGen \in Nat

VARIABLES
    pc,       \* pc[c]: where call c's transport thread is
    arrival,  \* arrival[c]: c's arrival_generation, once it is captured
    late,     \* late[c]: motion steps of c that ended after a stop c was received before
    lock,     \* the holder of _call_lock
    active,   \* the call whose arrival_generation is _active_generation
    gen,      \* _stop_generation
    halt,     \* _motion_halt is set
    down      \* the shutdown event and the process

facadeVars == <<pc, arrival, late, lock, active, gen, halt, down>>

InHandler == {"running", "moving"}
Ended == {"refused", "cancelled", "done"}
PC == {"new", "admitted", "waiting", "entering"} \cup InHandler \cup Ended
Down == {"up", "asked", "set", "exited"}

FacadeTypeOK ==
    /\ pc \in [Calls -> PC]
    /\ arrival \in [Calls -> Nat]
    /\ late \in [Calls -> Nat]
    /\ lock \in Calls \cup {NoCall}
    /\ active \in Calls \cup {NoCall}
    /\ gen \in Nat
    /\ halt \in BOOLEAN
    /\ down \in Down

FacadeInit ==
    /\ pc = [c \in Calls |-> "new"]
    /\ arrival = [c \in Calls |-> 0]
    /\ late = [c \in Calls |-> 0]
    /\ lock = NoCall
    /\ active = NoCall
    /\ gen = 0
    /\ halt = FALSE
    /\ down = "up"

Goto(c, where) == pc' = [pc EXCEPT ![c] = where]

(***************************************************************************)
(* A stop came after c was received.                                       *)
(***************************************************************************)
StopHit(c) == gen # arrival[c]

(***************************************************************************)
(* stop_requested(): motion is halted, or a stop came after the call that  *)
(* is running now was received.  Whoever polls, the running call is judged.*)
(***************************************************************************)
StopRequested == halt \/ (active # NoCall /\ StopHit(active))

---------------------------------------------------------------------------
(* The call path: _serve_dispatch and _run_call.                           *)

(* _admit: a request is refused while an exclusive call is active.         *)
Admit(c, exclusive) ==
    /\ down # "exited"
    /\ pc[c] = "new"
    /\ Goto(c, IF exclusive THEN "refused" ELSE "admitted")
    /\ UNCHANGED <<arrival, late, lock, active, gen, halt, down>>

(* The arrival generation is read after _admit returned, by the same       *)
(* thread, which may have been descheduled in between.                     *)
Arrive(c) ==
    /\ down # "exited"
    /\ pc[c] = "admitted"
    /\ arrival' = [arrival EXCEPT ![c] = gen]
    /\ Goto(c, "waiting")
    /\ UNCHANGED <<late, lock, active, gen, halt, down>>

(* Mutant: the lock is not waited for (a read-only method of old).         *)
EnterUnlocked(c) ==
    /\ down # "exited"
    /\ pc[c] = "waiting"
    /\ IF StopHit(c) /\ c \notin SessionCalls
         THEN Goto(c, "cancelled") /\ UNCHANGED lock
         ELSE Goto(c, "entering") /\ lock' = c
    /\ UNCHANGED <<arrival, late, active, gen, halt, down>>

(* The lock is taken and the generations compared: a call received before  *)
(* a stop is dropped (CallCancelled), unless it is a session call.         *)
Enter(c) ==
    /\ down # "exited"
    /\ pc[c] = "waiting"
    /\ lock = NoCall
    /\ IF StopHit(c) /\ c \notin SessionCalls
         THEN Goto(c, "cancelled") /\ UNCHANGED lock
         ELSE Goto(c, "entering") /\ lock' = c
    /\ UNCHANGED <<arrival, late, active, gen, halt, down>>

(* Mutant: the running call's generation is taken when it starts.          *)
StartFresh(c) ==
    /\ down # "exited"
    /\ pc[c] = "entering"
    /\ active' = c
    /\ arrival' = [arrival EXCEPT ![c] = gen]
    /\ Goto(c, "running")
    /\ UNCHANGED <<late, lock, gen, halt, down>>

(* Mutant: _active_generation is never set.                                *)
StartUnmarked(c) ==
    /\ down # "exited"
    /\ pc[c] = "entering"
    /\ Goto(c, "running")
    /\ UNCHANGED <<arrival, late, lock, active, gen, halt, down>>

(* _active_generation is set only after the comparison: a stop can come    *)
(* between the two.                                                        *)
Start(c) ==
    /\ down # "exited"
    /\ pc[c] = "entering"
    /\ active' = c
    /\ Goto(c, "running")
    /\ UNCHANGED <<arrival, late, lock, gen, halt, down>>

(* The handler's step boundary.                                            *)
Poll(c) ==
    /\ down # "exited"
    /\ pc[c] = "running"
    /\ ~StopRequested
    /\ Goto(c, "moving")
    /\ UNCHANGED <<arrival, late, lock, active, gen, halt, down>>

Move(c) ==
    /\ down # "exited"
    /\ pc[c] = "moving"
    /\ late' = [late EXCEPT ![c] = IF StopHit(c) THEN @ + 1 ELSE @]
    /\ Goto(c, "running")
    /\ UNCHANGED <<arrival, lock, active, gen, halt, down>>

(* Mutant: the lock is not given back.                                     *)
ReturnLocked(c) ==
    /\ down # "exited"
    /\ pc[c] = "running"
    /\ active' = NoCall
    /\ Goto(c, "done")
    /\ UNCHANGED <<arrival, late, lock, gen, halt, down>>

(* The handler returns or raises: the finally of _run_call, then the lock. *)
Return(c) ==
    /\ down # "exited"
    /\ pc[c] = "running"
    /\ active' = NoCall
    /\ lock' = NoCall
    /\ Goto(c, "done")
    /\ UNCHANGED <<arrival, late, gen, halt, down>>

---------------------------------------------------------------------------
(* The lock-free methods and the end of the process.                       *)

(* Mutant: the generation counts down.                                     *)
BumpDown == gen' = gen - 1

(* request_stop with no hook: the generation moves on, whatever is running.*)
Bump == gen' = gen + 1

Stop ==
    /\ down # "exited"
    /\ gen < MaxGen
    /\ Bump
    /\ UNCHANGED <<pc, arrival, late, lock, active, halt, down>>

(* `shutdown` waits for the call lock, then sets the event.                *)
AskShutdown ==
    /\ down = "up"
    /\ down' = "asked"
    /\ UNCHANGED <<pc, arrival, late, lock, active, gen, halt>>

Shutdown ==
    /\ down = "asked"
    /\ lock = NoCall
    /\ down' = "set"
    /\ UNCHANGED <<pc, arrival, late, lock, active, gen, halt>>

(* The parent died: the event is set whatever is running.                  *)
ParentDeath ==
    /\ down \in {"up", "asked"}
    /\ down' = "set"
    /\ UNCHANGED <<pc, arrival, late, lock, active, gen, halt>>

(* serve() wakes on the event, closes and the process exits: the transport *)
(* threads are daemons and end with it.                                    *)
Exit ==
    /\ down = "set"
    /\ down' = "exited"
    /\ UNCHANGED <<pc, arrival, late, lock, active, gen, halt>>

CallStep(c) ==
    Admit(c, FALSE) \/ Arrive(c) \/ Enter(c) \/ Start(c) \/ Poll(c) \/ Move(c) \/ Return(c)

ProcessStep == AskShutdown \/ Shutdown \/ ParentDeath \/ Exit

Next == (\E c \in Calls : CallStep(c)) \/ Stop \/ ProcessStep

(***************************************************************************)
(* A thread that can run does run.  Nothing obliges a handler to return on *)
(* its own (a servo loop runs until it is stopped), a client to send a     *)
(* request or a stop, or anyone to shut the server down.                   *)
(***************************************************************************)
Threads ==
    /\ \A c \in Calls : WF_facadeVars(Arrive(c)) /\ WF_facadeVars(Enter(c))
                          /\ WF_facadeVars(Start(c)) /\ WF_facadeVars(Move(c))
                          /\ WF_facadeVars(Poll(c))
                          /\ WF_facadeVars(StopRequested /\ Return(c))
    /\ WF_facadeVars(Shutdown) /\ WF_facadeVars(Exit)

Spec == FacadeInit /\ [][Next]_facadeVars

FairSpec == Spec /\ Threads

---------------------------------------------------------------------------
(* Properties.                                                             *)

(* Two business calls never overlap: whoever is past the comparison holds  *)
(* the lock, and _active_generation is the running call's and nobody       *)
(* else's ("one call at a time", the module docstring).                    *)
OneCallAtATime ==
    \A c \in Calls :
        /\ pc[c] \in InHandler \cup {"entering"} <=> lock = c
        /\ pc[c] \in InHandler <=> active = c

(* A stop lets the call it finds running end the step it is making, never  *)
(* begin another, and lets a call that has not started make none, wherever *)
(* between its arrival and its next poll the stop finds it.                *)
StopBoundsMotion ==
    \A c \in Calls :
        /\ late[c] <= 1
        /\ StopHit(c) /\ pc[c] \in {"waiting", "entering"} => late[c] = 0

(* The facade keeps the promise SafeMotion states: no two calls move, none *)
(* moves after it was answered, and none begins a step after a stop.       *)
Received == {c \in Calls : pc[c] \notin {"new", "admitted"}}

Mover == IF \E c \in Calls : pc[c] = "moving"
           THEN CHOOSE c \in Calls : pc[c] = "moving"
           ELSE NoCall

Barred == {c \in Received : StopHit(c) \/ pc[c] \in Ended}

Motion == INSTANCE SafeMotion WITH mover <- Mover, barred <- Barred

ImplementsSafeMotion == Motion!Spec

(* Whatever a stop finds in the line is over sooner or later: the call     *)
(* that runs returns, even one whose own loop never ends, and those behind *)
(* it are dropped - unless a call received after the stop gets the lock    *)
(* first and keeps it (a dropped call is told so only when it has the      *)
(* lock), or the process exits.                                            *)
StopDrains ==
    \A c \in Calls :
        (pc[c] \notin {"new", "admitted"} /\ StopHit(c))
            ~> \/ pc[c] \in Ended
               \/ down = "exited"
               \/ \E d \in Calls : pc[d] \in InHandler /\ ~StopHit(d)
=============================================================================
