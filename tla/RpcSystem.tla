---------------------------- MODULE RpcSystem ----------------------------
(***************************************************************************)
(* pi and a robot env server: RpcClient posts to RpcFacade.                *)
(*                                                                         *)
(* A posted call reaches the server at some time after the post, also when *)
(* its connection broke meanwhile, and a `stop`, which goes past the line  *)
(* on a connection of its own, at any time after the abort that posted it: *)
(* nothing orders the two.  A server that never sees a request is covered  *)
(* by one that has not admitted it yet.                                    *)
(***************************************************************************)
EXTENDS RpcClient, FiniteSets

CONSTANT MaxGen    \* bound on the stop generation: a stop for every call

ASSUME SystemAssumption == MaxGen \in Nat

VARIABLES pc, arrival, late, lock, active, gen, halt, down

serverVars == <<pc, arrival, late, lock, active, gen, halt, down>>
systemVars == <<clientVars, serverVars>>

Server == INSTANCE RpcFacade WITH SessionCalls <- {}

SystemInit == ClientInit /\ Server!FacadeInit

(* The request is read off its connection (do_POST).                       *)
Deliver(c) ==
    /\ wire[c] \in {"request", "broken"}
    /\ Server!Admit(c, FALSE)
    /\ UNCHANGED clientVars

(* The thread that ran the call writes its answer.                         *)
Answer(c) ==
    /\ pc[c] \in Server!Ended
    /\ Reply(c)
    /\ UNCHANGED serverVars

(* A stop is handled, or lost with its connection.                         *)
DeliverStop == StopGone /\ Server!Stop

LoseStop == StopGone /\ UNCHANGED serverVars

(* The server's own steps, once it has a request.                          *)
ServerStep ==
    /\ \E c \in Calls :
          \/ Server!Arrive(c) \/ Server!Enter(c) \/ Server!Start(c)
          \/ Server!Poll(c) \/ Server!Move(c) \/ Server!Return(c)
    /\ UNCHANGED clientVars

PiStep ==
    /\ (\E c \in Calls : ClientStep(c)) \/ Forget
    /\ UNCHANGED serverVars

SystemNext ==
    \/ PiStep
    \/ ServerStep
    \/ \E c \in Calls : Deliver(c) \/ Answer(c) \/ (Break(c) /\ UNCHANGED serverVars)
    \/ DeliverStop
    \/ LoseStop

SystemSpec == SystemInit /\ [][SystemNext]_systemVars
---------------------------------------------------------------------------
(* Properties. *)

(* The server has read the request and not finished with it.               *)
AtServer(c) == pc[c] \notin {"new"} \cup Server!Ended

(* "A call is sent only once the server has answered the previous one":    *)
(* two calls are at the server together only if a connection broke under   *)
(* the earlier, which the client cannot tell from an answer.               *)
OneCallAtServer ==
    \A c, d \in Calls :
        AtServer(c) /\ AtServer(d) /\ turn[d] < turn[c] => wire[d] = "broken"

(* What rpc.ts says of an abort ("asks the server to `stop` that call"),   *)
(* which the protocol cannot keep: `stop` names no call.                   *)

NeverBroke == \A c \in Calls : wire[c] # "broken"

(* The server has noted the generation the call arrived under, so a stop   *)
(* hits it: it is dropped when its turn comes, or its handler is stopped.  *)
StopReaches(c) == pc[c] \in {"waiting", "entering"} \cup Server!InHandler

(* A stop only hits calls whose caller aborted (on sound connections).     *)
StopHitsOnlyAborted ==
    [][gen' # gen =>
         \A c \in Calls : StopReaches(c) /\ NeverBroke => caller[c] = "aborted"]_systemVars

(* Once every stop that an abort posted has been handled, a call that was  *)
(* aborted after it was posted does not run on unstopped.                  *)
AbortedCalls == {c \in Calls : caller[c] = "aborted" /\ wire[c] # "none"}

AbortedCallStops ==
    gen = Cardinality(AbortedCalls)
        => \A c \in AbortedCalls : pc[c] \in Server!InHandler => Server!StopHit(c)
=============================================================================
