---------------------------- MODULE RpcClient ----------------------------
(***************************************************************************)
(* pi's side of one robot service endpoint                                 *)
(* (packages/embodied/src/infra/rpc.ts, RpcClient.call and interrupt).     *)
(*                                                                         *)
(* Each call links itself behind the last one (busy), is posted when that  *)
(* one is answered, and is released from waiting by its timeout or its     *)
(* abort signal without giving the endpoint up.  A call that stays         *)
(* unanswered for its grace period marks the endpoint dead.                *)
(*                                                                         *)
(* JavaScript runs one callback at a time and finishes the promise         *)
(* reactions of one before the next timer or socket event, so a callback   *)
(* is one action; the reaction that lets the next call proceed is an       *)
(* action of its own, which allows a few more orders than the event loop.  *)
(* The service and the connections are the environment here; RpcSystem     *)
(* puts the RPC facade in their place.                                     *)
(***************************************************************************)
EXTENDS Naturals

CONSTANTS
    Calls,     \* the calls made on this endpoint, each once
    NoCall     \* no call: nothing in the endpoint's slot

ASSUME ClientAssumption == NoCall \notin Calls

VARIABLES
    phase,     \* phase[c]: the promise `answered` of c's slot
    caller,    \* caller[c]: what c's caller is doing
    previous,  \* previous[c]: the slot c found in busy
    busy,      \* the slot of the endpoint: the last call, until it settles
    grace,     \* grace[c]: c's grace timer is running
    dead,      \* the endpoint is marked unresponsive
    wire,      \* wire[c]: c's connection, from the post to the answer
    stops,     \* `stop` requests posted and not yet handled
    turn,      \* turn[c]: c is the turn[c]-th call made (history)
    turns      \* calls made so far (history)

clientVars == <<phase, caller, previous, busy, grace, dead, wire, stops, turn, turns>>

Phase == {"none", "queued", "sent", "settled"}
Caller == {"none", "waiting", "timedout", "aborted", "returned", "failed"}
Wire == {"none", "request", "reply", "broken"}

(* gaveUp: the caller was released before its call was answered.           *)
GaveUp(c) == caller[c] \in {"timedout", "aborted"}

ClientTypeOK ==
    /\ phase \in [Calls -> Phase]
    /\ caller \in [Calls -> Caller]
    /\ previous \in [Calls -> Calls \cup {NoCall}]
    /\ busy \in Calls \cup {NoCall}
    /\ grace \in [Calls -> BOOLEAN]
    /\ dead \in BOOLEAN
    /\ wire \in [Calls -> Wire]
    /\ stops \in Nat
    /\ turn \in [Calls -> Nat]
    /\ turns \in Nat

ClientInit ==
    /\ phase = [c \in Calls |-> "none"]
    /\ caller = [c \in Calls |-> "none"]
    /\ previous = [c \in Calls |-> NoCall]
    /\ busy = NoCall
    /\ grace = [c \in Calls |-> FALSE]
    /\ dead = FALSE
    /\ wire = [c \in Calls |-> "none"]
    /\ stops = 0
    /\ turn = [c \in Calls |-> 0]
    /\ turns = 0

(* A call to a dead endpoint fails at once; any other takes the slot.      *)
Call(c) ==
    /\ caller[c] = "none"
    /\ IF dead
         THEN /\ caller' = [caller EXCEPT ![c] = "failed"]
              /\ UNCHANGED <<phase, previous, busy, turn, turns>>
         ELSE /\ caller' = [caller EXCEPT ![c] = "waiting"]
              /\ phase' = [phase EXCEPT ![c] = "queued"]
              /\ previous' = [previous EXCEPT ![c] = busy]
              /\ busy' = c
              /\ turns' = turns + 1
              /\ turn' = [turn EXCEPT ![c] = turns + 1]
    /\ UNCHANGED <<grace, dead, wire, stops>>

(* Mutant: the grace timer is not cleared.                                 *)
SettleInGrace(c) ==
    /\ phase' = [phase EXCEPT ![c] = "settled"]
    /\ busy' = IF busy = c THEN NoCall ELSE busy
    /\ UNCHANGED grace

(* `answered` settles: the grace timer is cleared, and the slot is freed   *)
(* if no later call has taken it.                                          *)
Settle(c) ==
    /\ phase' = [phase EXCEPT ![c] = "settled"]
    /\ grace' = [grace EXCEPT ![c] = FALSE]
    /\ busy' = IF busy = c THEN NoCall ELSE busy

(* Mutant: releasing the caller releases the endpoint.                     *)
IsReleased(slot) ==
    IF slot = NoCall THEN TRUE ELSE phase[slot] = "settled" \/ GaveUp(slot)

(* A slot's promise is settled; an empty slot holds nobody up.             *)
IsAnswered(slot) == IF slot = NoCall THEN TRUE ELSE phase[slot] = "settled"

(* The previous call's slot settled: the call is dropped if its caller was *)
(* released meanwhile, fails if the endpoint died meanwhile, or is posted. *)
Proceed(c) ==
    /\ phase[c] = "queued"
    /\ IsAnswered(previous[c])
    /\ IF GaveUp(c) THEN Settle(c) /\ UNCHANGED <<caller, wire>>
       ELSE IF dead
         THEN Settle(c) /\ caller' = [caller EXCEPT ![c] = "failed"] /\ UNCHANGED wire
         ELSE /\ phase' = [phase EXCEPT ![c] = "sent"]
              /\ wire' = [wire EXCEPT ![c] = "request"]
              /\ UNCHANGED <<caller, busy, grace>>
    /\ UNCHANGED <<previous, dead, stops, turn, turns>>

(* Mutant: the caller is handed whatever the connection held.              *)
ReceiveRaw(c) ==
    /\ phase[c] = "sent"
    /\ wire[c] \in {"reply", "broken"}
    /\ Settle(c)
    /\ caller' = IF caller[c] = "waiting" THEN [caller EXCEPT ![c] = wire[c]] ELSE caller
    /\ UNCHANGED <<previous, dead, wire, stops, turn, turns>>

(* The reply, or the connection's error, reaches the client; the caller    *)
(* learns it unless it was released.                                       *)
Receive(c) ==
    /\ phase[c] = "sent"
    /\ wire[c] \in {"reply", "broken"}
    /\ Settle(c)
    /\ caller' = IF caller[c] = "waiting"
                   THEN [caller EXCEPT ![c] = IF wire[c] = "reply" THEN "returned" ELSE "failed"]
                   ELSE caller
    /\ UNCHANGED <<previous, dead, wire, stops, turn, turns>>

(* Mutant: no grace period, an unanswered call is waited for for ever.     *)
ReleaseOnly(c, why) ==
    /\ caller[c] = "waiting"
    /\ phase[c] \in {"queued", "sent"}
    /\ caller' = [caller EXCEPT ![c] = why]
    /\ UNCHANGED <<phase, previous, busy, grace, dead, wire, turn, turns>>

(* release: the caller stops waiting; a posted call starts its grace.      *)
Release(c, why) ==
    /\ caller[c] = "waiting"
    /\ phase[c] \in {"queued", "sent"}
    /\ caller' = [caller EXCEPT ![c] = why]
    /\ grace' = IF phase[c] = "sent" THEN [grace EXCEPT ![c] = TRUE] ELSE grace
    /\ UNCHANGED <<phase, previous, busy, dead, wire, turn, turns>>

Timeout(c) == Release(c, "timedout") /\ UNCHANGED stops

(* An abort of a posted call also posts a `stop`, past the line.           *)
Abort(c) ==
    /\ Release(c, "aborted")
    /\ stops' = IF phase[c] = "sent" THEN stops + 1 ELSE stops

(* The grace period ends: the endpoint is dead, the request is destroyed.  *)
GiveUp(c) ==
    /\ grace[c]
    /\ grace' = [grace EXCEPT ![c] = FALSE]
    /\ dead' = TRUE
    /\ wire' = IF wire[c] = "request" THEN [wire EXCEPT ![c] = "broken"] ELSE wire
    /\ UNCHANGED <<phase, caller, previous, busy, stops, turn, turns>>

(* forgetUnresponsive: a new episode gives every endpoint another chance.  *)
Forget ==
    /\ dead
    /\ dead' = FALSE
    /\ UNCHANGED <<phase, caller, previous, busy, grace, wire, stops, turn, turns>>

---------------------------------------------------------------------------
(* The environment. *)

(* The service answers a request, or the connection breaks under it.       *)
Reply(c) ==
    /\ wire[c] = "request"
    /\ wire' = [wire EXCEPT ![c] = "reply"]
    /\ UNCHANGED <<phase, caller, previous, busy, grace, dead, stops, turn, turns>>

Break(c) ==
    /\ wire[c] = "request"
    /\ wire' = [wire EXCEPT ![c] = "broken"]
    /\ UNCHANGED <<phase, caller, previous, busy, grace, dead, stops, turn, turns>>

(* A `stop` is handled, or its connection breaks (interrupt ignores it).   *)
StopGone ==
    /\ stops > 0
    /\ stops' = stops - 1
    /\ UNCHANGED <<phase, caller, previous, busy, grace, dead, wire, turn, turns>>

ClientStep(c) ==
    Call(c) \/ Proceed(c) \/ Receive(c) \/ Timeout(c) \/ Abort(c) \/ GiveUp(c)

EnvironmentStep == (\E c \in Calls : Reply(c) \/ Break(c)) \/ StopGone

ClientNext == (\E c \in Calls : ClientStep(c)) \/ Forget \/ EnvironmentStep

ClientSpec == ClientInit /\ [][ClientNext]_clientVars

(***************************************************************************)
(* The event loop runs what is ready and every timer fires in the end.     *)
(* The service owes no answer.                                             *)
(***************************************************************************)
ClientFairness ==
    \A c \in Calls :
        /\ WF_clientVars(Proceed(c)) /\ WF_clientVars(Receive(c))
        /\ WF_clientVars(Timeout(c)) /\ WF_clientVars(GiveUp(c))

ClientFairSpec == ClientSpec /\ ClientFairness
---------------------------------------------------------------------------
(* Properties. *)

(* Calls to one endpoint are posted one at a time and in the order they    *)
(* were made: a call is posted only when every earlier one has been        *)
(* answered, has failed or was never sent, however many callers in between *)
(* gave up while they waited.                                              *)
OneAtATimeInOrder ==
    \A c, d \in Calls :
        phase[c] \in {"sent", "settled"} /\ turn[d] > 0 /\ turn[d] < turn[c]
            => phase[d] = "settled"

(* The endpoint is given up on only for a call that was posted, whose      *)
(* caller is gone, and that the service still has not answered.            *)
DeadOnlyIfUnanswered ==
    [][~dead /\ dead' => \E c \in Calls : phase[c] = "sent" /\ GaveUp(c)]_clientVars

(* However silent the service, every call made is over in the end and the  *)
(* line behind it moves: a timeout releases its caller, the grace period   *)
(* releases the endpoint.                                                  *)
LineMoves == \A c \in Calls : phase[c] = "queued" ~> phase[c] = "settled"
=============================================================================
