------------------------- MODULE RpcSystem_proofs -------------------------
(***************************************************************************)
(* Proofs about RpcClient and about RpcSystem, in which it faces the RPC   *)
(* facade, for any set of calls and any number of stops.                   *)
(*                                                                         *)
(* OneAtATimeInOrder is not inductive: what a queued call may conclude     *)
(* from its predecessor's settling depends on every call made in between   *)
(* (those that took the slot and were dropped).  Line and Slot say what    *)
(* is known of them.                                                       *)
(*                                                                         *)
(* The system is the client and the facade at once: its steps are steps of *)
(* each or leave it alone.  So what is proved of the client alone holds    *)
(* here, and Connections adds what the two know of each other.             *)
(***************************************************************************)
EXTENDS RpcSystem, TLAPS

---------------------------------------------------------------------------
(* The client. *)

Made(c) == turn[c] > 0

Earlier(d, c) == Made(d) /\ turn[d] < turn[c]

(* The history numbers the calls that took the slot, in order.             *)
Turns ==
    /\ \A c \in Calls : phase[c] = "none" <=> turn[c] = 0
    /\ \A c \in Calls : turn[c] <= turns
    /\ \A c, d \in Calls : Made(c) /\ turn[c] = turn[d] => c = d

(* A queued call's predecessor is an earlier call, and whoever came        *)
(* between the two, or before it if it found the slot free, has settled.   *)
Line ==
    \A c \in Calls : phase[c] = "queued" =>
        /\ previous[c] # NoCall => Earlier(previous[c], c)
        /\ \A d \in Calls :
              Earlier(d, c) /\ (previous[c] # NoCall => turn[d] > turn[previous[c]])
                  => phase[d] = "settled"

(* The slot holds the last call made until it settles; when it is free,    *)
(* every call made has settled.                                            *)
Slot ==
    /\ busy # NoCall => phase[busy] \in {"queued", "sent"} /\ turn[busy] = turns
    /\ busy = NoCall => \A c \in Calls : Made(c) => phase[c] = "settled"

(* Only a posted call whose caller is gone has a grace timer.              *)
Grace == \A c \in Calls : grace[c] => phase[c] = "sent" /\ GaveUp(c)

(* A call is made once.                                                    *)
Fresh == \A c \in Calls : caller[c] = "none" => phase[c] = "none"

IInv ==
    ClientTypeOK /\ Turns /\ Line /\ OneAtATimeInOrder /\ Slot /\ Grace /\ Fresh

USE ClientAssumption DEF ClientAssumption

(* The predecessor has settled: so has every earlier call.                 *)
LEMMA AnsweredLine ==
    ASSUME IInv, NEW c \in Calls, phase[c] = "queued", IsAnswered(previous[c])
    PROVE  \A d \in Calls : Earlier(d, c) => phase[d] = "settled"
<1> SUFFICES ASSUME NEW d \in Calls, Earlier(d, c)
             PROVE  phase[d] = "settled"
  OBVIOUS
<1>1. CASE previous[c] = NoCall
  BY <1>1 DEF IInv, Line
<1>2. CASE previous[c] # NoCall
  <2> DEFINE p == previous[c]
  <2>1. p \in Calls /\ phase[p] = "settled" /\ Earlier(p, c)
    BY <1>2 DEF IInv, Line, ClientTypeOK, IsAnswered
  <2>2. turn[d] \in Nat /\ turn[p] \in Nat
    BY <2>1 DEF IInv, ClientTypeOK
  <2>3. CASE turn[d] > turn[p]
    BY <1>2, <2>3 DEF IInv, Line
  <2>4. CASE turn[d] < turn[p]
    BY <2>1, <2>4 DEF IInv, OneAtATimeInOrder, Earlier, Made
  <2>5. CASE turn[d] = turn[p]
    BY <2>1, <2>5 DEF IInv, Turns, Earlier, Made
  <2> QED
    BY <2>2, <2>3, <2>4, <2>5
<1> QED
  BY <1>1, <1>2

(* Settling the first unsettled call of the line keeps the invariant.      *)
LEMMA SettleStep ==
    ASSUME IInv, NEW c \in Calls, phase[c] \in {"queued", "sent"}, Settle(c),
           \A d \in Calls : Earlier(d, c) => phase[d] = "settled",
           UNCHANGED <<previous, turn, turns>>
    PROVE  Turns' /\ Line' /\ OneAtATimeInOrder' /\ Slot'
<1> USE DEF IInv, ClientTypeOK, Phase, Settle
<1>1. \A d \in Calls : phase'[d] = IF d = c THEN "settled" ELSE phase[d]
  OBVIOUS
<1>2. Turns'
  BY <1>1 DEF Turns, Made
<1>3. Line'
  BY <1>1 DEF Line, Earlier, Made
<1>4. OneAtATimeInOrder'
  BY <1>1 DEF OneAtATimeInOrder, Earlier, Made
<1>5. Slot'
  <2>1. CASE busy = c
    <3>1. busy' = NoCall /\ turn[c] = turns
      BY <2>1 DEF Slot
    <3>2. ASSUME NEW d \in Calls, Made(d)'
          PROVE  phase'[d] = "settled"
      <4>1. turn[d] \in Nat /\ turn[c] \in Nat /\ turn[d] <= turns
        BY DEF Turns
      <4>2. CASE turn[d] = turns
        BY <1>1, <3>1, <3>2, <4>2 DEF Turns, Made
      <4>3. CASE turn[d] < turns
        BY <1>1, <3>1, <3>2, <4>3 DEF Earlier, Made
      <4> QED
        BY <4>1, <4>2, <4>3 
    <3> QED
      BY <3>1, <3>2 DEF Slot
  <2>2. CASE busy # c
    BY <1>1, <2>2 DEF Slot, Made
  <2> QED
    BY <2>1, <2>2
<1> QED
  BY <1>2, <1>3, <1>4, <1>5

(* Setting one flag of a table of flags leaves a table of flags.           *)
LEMMA SetBoolean ==
    ASSUME NEW f \in [Calls -> BOOLEAN], NEW c \in Calls, NEW b \in BOOLEAN
    PROVE  [f EXCEPT ![c] = b] \in [Calls -> BOOLEAN]
  BY Zenon

(* Every step keeps the types.                                             *)
LEMMA TypeStep == IInv /\ [ClientNext]_clientVars => ClientTypeOK'
<1> SUFFICES ASSUME ClientTypeOK, [ClientNext]_clientVars
             PROVE  ClientTypeOK'
  BY DEF IInv
<1> USE DEF ClientTypeOK, Phase, Caller, Wire
<1>1. ASSUME NEW c \in Calls, Call(c)
      PROVE  ClientTypeOK'
  BY <1>1 DEF Call
<1>2. ASSUME NEW c \in Calls, Proceed(c)
      PROVE  ClientTypeOK'
  BY <1>2 DEF Proceed, Settle
<1>3. ASSUME NEW c \in Calls, Receive(c)
      PROVE  ClientTypeOK'
  BY <1>3 DEF Receive, Settle
<1>4. ASSUME NEW c \in Calls, Timeout(c) \/ Abort(c) \/ GiveUp(c)
      PROVE  ClientTypeOK'
  <2>1. grace' \in [Calls -> BOOLEAN]
    <3>1. CASE UNCHANGED grace
      BY <3>1
    <3>2. CASE grace' = [grace EXCEPT ![c] = TRUE]
      BY <3>2, SetBoolean
    <3>3. CASE grace' = [grace EXCEPT ![c] = FALSE]
      BY <3>3, SetBoolean
    <3> QED
      BY <1>4, <3>1, <3>2, <3>3 DEF Timeout, Abort, Release, GiveUp
  <2>2. CASE Timeout(c)
    BY <2>1, <2>2 DEF Timeout, Release
  <2>3. CASE Abort(c)
    BY <2>1, <2>3 DEF Abort, Release
  <2>4. CASE GiveUp(c)
    BY <2>1, <2>4 DEF GiveUp
  <2> QED
    BY <1>4, <2>2, <2>3, <2>4
<1>5. CASE Forget \/ StopGone \/ UNCHANGED clientVars
  <2>1. CASE Forget
    BY <2>1 DEF Forget
  <2>2. CASE StopGone
    BY <2>2 DEF StopGone
  <2>3. CASE UNCHANGED clientVars
    BY <2>3 DEF clientVars
  <2> QED
    BY <1>5, <2>1, <2>2, <2>3
<1>6. ASSUME NEW c \in Calls, Reply(c) \/ Break(c)
      PROVE  ClientTypeOK'
  BY <1>6 DEF Reply, Break
<1> QED
  BY <1>1, <1>2, <1>3, <1>4, <1>5, <1>6 DEF ClientNext, ClientStep, EnvironmentStep

(* The invariant holds initially.                                          *)
LEMMA InitIInv == ClientInit => IInv
<1> SUFFICES ASSUME ClientInit
             PROVE  IInv
  OBVIOUS
<1> USE DEF ClientInit
<1>1. ClientTypeOK
  BY DEF ClientTypeOK, Phase, Caller, Wire
<1>2. \A c \in Calls : phase[c] = "none" /\ turn[c] = 0 /\ ~grace[c]
  OBVIOUS
<1>3. Turns /\ Line /\ OneAtATimeInOrder /\ Slot /\ Grace /\ Fresh
  BY <1>2 DEF Turns, Line, OneAtATimeInOrder, Slot, Grace, Fresh, Made, Earlier
<1> QED
  BY <1>1, <1>3 DEF IInv

(* ... and every step keeps it.                                            *)
LEMMA NextIInv == IInv /\ [ClientNext]_clientVars => IInv'
<1> SUFFICES ASSUME IInv, [ClientNext]_clientVars
             PROVE  IInv'
  OBVIOUS
<1>1. ClientTypeOK'
  BY TypeStep
<1>2. ASSUME NEW c \in Calls, Call(c)
      PROVE  IInv'
  <2> USE <1>2 DEF IInv
  <2>1. CASE dead
    BY <1>1, <2>1 DEF Call, Turns, Line, OneAtATimeInOrder, Slot, Grace, Fresh, GaveUp,
                ClientTypeOK, Made, Earlier
  <2>2. CASE ~dead
    <3>1. phase[c] = "none" /\ turn[c] = 0
      BY DEF Call, Fresh, Turns
    <3>2. /\ busy' = c /\ turns' = turns + 1 /\ turns \in Nat
          /\ \A d \in Calls :
                /\ turn[d] \in Nat /\ turn[d] <= turns
                /\ phase'[d] = IF d = c THEN "queued" ELSE phase[d]
                /\ turn'[d] = IF d = c THEN turns + 1 ELSE turn[d]
                /\ previous'[d] = IF d = c THEN busy ELSE previous[d]
                /\ previous[d] \in Calls \cup {NoCall}
          /\ UNCHANGED grace
      BY <2>2 DEF Call, ClientTypeOK, Turns
    <3>3. \A d \in Calls : turn'[d] \in Nat
      BY <3>2
    <3>4. Turns'
      BY <3>1, <3>2 DEF Turns, Made
    <3>5. Slot'
      BY <3>2 DEF Slot, ClientTypeOK
    <3>6. Line'
      <4> SUFFICES ASSUME NEW e \in Calls, phase'[e] = "queued"
                   PROVE  /\ previous'[e] # NoCall => Earlier(previous[e], e)'
                          /\ \A d \in Calls :
                               Earlier(d, e)' /\ (previous'[e] # NoCall => turn'[d] > turn'[previous'[e]])
                                 => phase'[d] = "settled"
        BY DEF Line
      <4>1. CASE e = c
        <5>1. previous'[e] = busy /\ turn'[e] = turns + 1
          BY <3>2, <4>1
        <5>2. CASE busy = NoCall
          BY <3>1, <3>2, <4>1, <5>1, <5>2 DEF Slot, Earlier, Made
        <5>3. CASE busy # NoCall
          <6>1. busy \in Calls /\ busy # c /\ turn[busy] = turns /\ turn[busy] > 0
            BY <3>1, <3>2, <5>3 DEF Slot, ClientTypeOK, Turns
          <6>2. turn'[busy] = turns
            BY <3>2, <6>1
          <6> QED
            BY <3>2, <4>1, <5>1, <6>1, <6>2 DEF Earlier, Made
        <5> QED
          BY <5>2, <5>3
      <4>2. CASE e # c
        <5>1. phase[e] = "queued" /\ previous'[e] = previous[e] /\ turn'[e] = turn[e]
          BY <3>2, <4>2
        <5>2. previous[e] # NoCall => Earlier(previous[e], e) /\ previous[e] # c
          BY <3>1, <5>1 DEF Line, Earlier, Made
        <5>3. previous[e] # NoCall => turn'[previous[e]] = turn[previous[e]]
          BY <3>2, <5>2
        <5>4. ASSUME NEW d \in Calls, Earlier(d, e)',
                     previous'[e] # NoCall => turn'[d] > turn'[previous'[e]]
              PROVE  phase'[d] = "settled"
          <6>1. d # c
            BY <3>2, <5>1, <5>4 DEF Earlier
          <6>2. Earlier(d, e) /\ (previous[e] # NoCall => turn[d] > turn[previous[e]])
            BY <3>2, <5>1, <5>3, <5>4, <6>1 DEF Earlier, Made
          <6> QED
            BY <3>2, <5>1, <6>1, <6>2 DEF Line
        <5> QED
          BY <5>1, <5>2, <5>3, <5>4 DEF Earlier, Made
      <4> QED
        BY <4>1, <4>2
    <3>7. OneAtATimeInOrder'
      BY <3>1, <3>2 DEF OneAtATimeInOrder
    <3>8. Grace' /\ Fresh'
      BY <2>2, <3>1, <3>2 DEF Call, Grace, Fresh, GaveUp, ClientTypeOK
    <3> QED
      BY <1>1, <3>4, <3>5, <3>6, <3>7, <3>8
  <2> QED
    BY <2>1, <2>2
<1>3. ASSUME NEW c \in Calls, Proceed(c)
      PROVE  IInv'
  <2>1. \A d \in Calls : Earlier(d, c) => phase[d] = "settled"
    BY <1>3, AnsweredLine DEF Proceed
  <2>2. CASE Settle(c)
    <3>1. Turns' /\ Line' /\ OneAtATimeInOrder' /\ Slot'
      BY <1>3, <2>1, <2>2, SettleStep DEF Proceed
    <3>2. Grace' /\ Fresh'
      BY <1>3, <2>2 DEF Proceed, Settle, IInv, ClientTypeOK, Grace, Fresh, GaveUp
    <3> QED
      BY <1>1, <3>1, <3>2 DEF IInv
  <2>3. CASE ~Settle(c)
    <3>1. /\ \A d \in Calls : phase'[d] = IF d = c THEN "sent" ELSE phase[d]
          /\ UNCHANGED <<caller, busy, grace, previous, turn, turns>>
          /\ phase[c] = "queued"
      BY <1>3, <2>3 DEF Proceed, IInv, ClientTypeOK
    <3>2. Turns' /\ Fresh'
      BY <3>1 DEF IInv, Turns, Fresh, Made
    <3>3. Line'
      BY <3>1 DEF IInv, Line, Earlier, Made
    <3>4. OneAtATimeInOrder'
      BY <2>1, <3>1 DEF IInv, OneAtATimeInOrder, Earlier, Made
    <3>5. Slot'
      BY <3>1 DEF IInv, ClientTypeOK, Slot, Turns, Made
    <3>6. Grace'
      BY <3>1 DEF IInv, Grace, GaveUp
    <3> QED
      BY <1>1, <3>2, <3>3, <3>4, <3>5, <3>6 DEF IInv
  <2> QED
    BY <2>2, <2>3
<1>4. ASSUME NEW c \in Calls, Receive(c)
      PROVE  IInv'
  <2>1. \A d \in Calls : Earlier(d, c) => phase[d] = "settled"
    BY <1>4 DEF Receive, IInv, OneAtATimeInOrder, Earlier, Made
  <2>2. Turns' /\ Line' /\ OneAtATimeInOrder' /\ Slot'
    BY <1>4, <2>1, SettleStep DEF Receive
  <2>3. Grace' /\ Fresh'
    BY <1>4 DEF Receive, Settle, IInv, ClientTypeOK, Grace, Fresh, GaveUp
  <2> QED
    BY <1>1, <2>2, <2>3 DEF IInv
<1>5. ASSUME NEW c \in Calls, Timeout(c) \/ Abort(c)
      PROVE  IInv'
  <2>1. /\ UNCHANGED <<phase, previous, busy, turn, turns>>
        /\ \E why \in {"timedout", "aborted"} : caller' = [caller EXCEPT ![c] = why]
        /\ grace' = IF phase[c] = "sent" THEN [grace EXCEPT ![c] = TRUE] ELSE grace
    BY <1>5 DEF Timeout, Abort, Release
  <2>2. Turns' /\ Line' /\ OneAtATimeInOrder' /\ Slot'
    BY <2>1 DEF IInv, Turns, Line, OneAtATimeInOrder, Slot, Earlier, Made
  <2>3. Grace' /\ Fresh'
    BY <2>1 DEF IInv, ClientTypeOK, Grace, Fresh, GaveUp
  <2> QED
    BY <1>1, <2>2, <2>3 DEF IInv
<1>6. ASSUME NEW c \in Calls, GiveUp(c)
      PROVE  IInv'
  <2>1. Turns' /\ Line' /\ OneAtATimeInOrder' /\ Slot'
    BY <1>6 DEF GiveUp, IInv, Turns, Line, OneAtATimeInOrder, Slot, Earlier, Made
  <2>2. Grace' /\ Fresh'
    BY <1>6 DEF GiveUp, IInv, ClientTypeOK, Grace, Fresh, GaveUp
  <2> QED
    BY <1>1, <2>1, <2>2 DEF IInv
<1>7. CASE Forget \/ EnvironmentStep \/ UNCHANGED clientVars
  <2>1. UNCHANGED <<phase, caller, previous, busy, grace, turn, turns>>
    BY <1>7 DEF Forget, EnvironmentStep, Reply, Break, StopGone, clientVars
  <2> QED
    BY <1>1, <2>1 DEF IInv, Turns, Line, OneAtATimeInOrder, Slot, Grace, Fresh, GaveUp,
                      Earlier, Made
<1> QED
  BY <1>2, <1>3, <1>4, <1>5, <1>6, <1>7 DEF ClientNext, ClientStep

(* The strengthened invariant, for any calls.                              *)
THEOREM ClientInvariant == ClientSpec => []IInv
<1> HIDE DEF IInv
<1> QED
  BY InitIInv, NextIInv, PTL DEF ClientSpec

(* The client's variables keep their types.                                *)
THEOREM ClientTypeCorrect == ClientSpec => []ClientTypeOK
<1>1. IInv => ClientTypeOK
  BY DEF IInv
<1> QED
  BY <1>1, ClientInvariant, PTL

(* Calls to one endpoint are posted one at a time and in the order they    *)
(* were made, whoever gives up in between (rpc.ts, RpcClient.call).        *)
THEOREM OneAtATimeInOrderHolds == ClientSpec => []OneAtATimeInOrder
<1>1. IInv => OneAtATimeInOrder
  BY DEF IInv
<1> QED
  BY <1>1, ClientInvariant, PTL

(* The endpoint is given up on only for a posted call that is unanswered   *)
(* and whose caller is gone (rpc.ts, the grace timer).                     *)
THEOREM DeadOnlyIfUnansweredHolds == ClientSpec => DeadOnlyIfUnanswered
<1>1. IInv /\ [ClientNext]_clientVars
        => [~dead /\ dead' => \E c \in Calls : phase[c] = "sent" /\ GaveUp(c)]_clientVars
  <2> SUFFICES ASSUME IInv, [ClientNext]_clientVars, ~dead, dead'
               PROVE  \E c \in Calls : phase[c] = "sent" /\ GaveUp(c)
    OBVIOUS
  <2>1. \E c \in Calls : GiveUp(c)
    BY DEF ClientNext, clientVars, ClientStep, EnvironmentStep, Call, Proceed, Receive,
           Timeout, Abort, Release, Forget, Reply, Break, StopGone
  <2> QED
    BY <2>1 DEF IInv, Grace, GiveUp
<1> QED
  BY <1>1, ClientInvariant, PTL DEF ClientSpec, DeadOnlyIfUnanswered

---------------------------------------------------------------------------
(* The system. *)

(* A step of the system is one of the client, where the facade answers and *)
(* handles the stops, or leaves it alone.                                  *)
LEMMA StepIsClientStep == [SystemNext]_systemVars => [ClientNext]_clientVars
<1> SUFFICES ASSUME [SystemNext]_systemVars PROVE [ClientNext]_clientVars
  OBVIOUS
<1>1. CASE PiStep
  BY <1>1 DEF PiStep, ClientNext
<1>2. CASE ServerStep
  BY <1>2 DEF ServerStep
<1>3. ASSUME NEW c \in Calls, Deliver(c) \/ Answer(c) \/ Break(c) PROVE [ClientNext]_clientVars
  BY <1>3 DEF Deliver, Answer, ClientNext, EnvironmentStep
<1>4. CASE DeliverStop \/ LoseStop
  BY <1>4 DEF DeliverStop, LoseStop, ClientNext, EnvironmentStep
<1>5. CASE UNCHANGED systemVars
  BY <1>5 DEF systemVars
<1> QED
  BY <1>1, <1>2, <1>3, <1>4, <1>5 DEF SystemNext

(* ... and one of the facade, whose requests are posted by the client.     *)
LEMMA StepIsServerStep == [SystemNext]_systemVars => [Server!Next]_(Server!facadeVars)
<1> SUFFICES ASSUME [SystemNext]_systemVars PROVE Server!Next \/ UNCHANGED serverVars
  BY DEF serverVars, Server!facadeVars
<1>1. CASE PiStep
  BY <1>1 DEF PiStep
<1>2. CASE ServerStep
  BY <1>2 DEF ServerStep, Server!Next, Server!CallStep
<1>3. ASSUME NEW c \in Calls, Deliver(c) PROVE Server!Next
  BY <1>3 DEF Deliver, Server!Next, Server!CallStep
<1>4. ASSUME NEW c \in Calls, Answer(c) PROVE UNCHANGED serverVars
  BY <1>4 DEF Answer
<1>5. CASE DeliverStop \/ LoseStop
  BY <1>5 DEF DeliverStop, LoseStop, Server!Next
<1>6. CASE UNCHANGED systemVars
  BY <1>6 DEF systemVars
<1> QED
  BY <1>1, <1>2, <1>3, <1>4, <1>5, <1>6 DEF SystemNext

(* The system refines its two sides: what is proved of the client, with a  *)
(* service that answers as it likes (rpc.ts, RpcClient), and of the facade,*)
(* with clients that send as they like (rpc_facade.py), is true of the two *)
(* together.                                                               *)
THEOREM SystemIsClientAndServer == SystemSpec => ClientSpec /\ Server!Spec
<1>1. SystemInit => ClientInit /\ Server!FacadeInit
  BY DEF SystemInit
<1> QED
  BY <1>1, StepIsClientStep, StepIsServerStep, PTL DEF SystemSpec, ClientSpec, Server!Spec

(* What a connection tells of the two ends: a call is at the server only   *)
(* if it was posted, it is answered only when the server is done with it,  *)
(* and the client settles it only with an answer or a broken connection.   *)
Connections ==
    /\ pc \in [Calls -> Server!PC]
    /\ \A c \in Calls :
          /\ wire[c] # "none" => phase[c] \in {"sent", "settled"}
          /\ wire[c] = "request" => phase[c] = "sent"
          /\ pc[c] # "new" => wire[c] # "none"
          /\ wire[c] = "reply" => pc[c] \in Server!Ended

(* No call was posted.                                                     *)
LEMMA InitConnections == SystemInit => Connections
  BY DEF SystemInit, ClientInit, Server!FacadeInit, Connections, Server!PC

(* The client's steps.                                                     *)
LEMMA PiStepConnections ==
    ASSUME IInv, Connections, NEW c \in Calls, ClientStep(c) \/ Forget, UNCHANGED serverVars
    PROVE  Connections'
<1> USE DEF IInv, ClientTypeOK, Connections
<1>0. pc' = pc
  BY DEF serverVars
<1>1. CASE Call(c)
  <2>1. \A d \in Calls : phase'[d] = phase[d] \/ (d = c /\ phase[d] = "none")
    BY <1>1 DEF Call, Fresh
  <2> QED
    BY <1>0, <1>1, <2>1 DEF Call
<1>2. CASE Proceed(c)
  BY <1>0, <1>2 DEF Proceed, Settle
<1>3. CASE Receive(c)
  BY <1>0, <1>3 DEF Receive, Settle
<1>4. CASE Timeout(c) \/ Abort(c) \/ Forget
  BY <1>0, <1>4 DEF Timeout, Abort, Release, Forget
<1>5. CASE GiveUp(c)
  BY <1>0, <1>5 DEF GiveUp
<1> QED
  BY <1>1, <1>2, <1>3, <1>4, <1>5 DEF ClientStep

(* The server's, and those of the connections.                             *)
LEMMA StepConnections == IInv /\ Connections /\ [SystemNext]_systemVars => Connections'
<1> SUFFICES ASSUME IInv, Connections, [SystemNext]_systemVars PROVE Connections'
  OBVIOUS
<1>1. ASSUME NEW c \in Calls, ClientStep(c), UNCHANGED serverVars PROVE Connections'
  BY <1>1, PiStepConnections
<1>2. CASE (Forget \/ StopGone) /\ UNCHANGED serverVars
  BY <1>2 DEF Forget, StopGone, Connections, serverVars
<1>3. ASSUME NEW c \in Calls,
             \/ Server!Arrive(c) \/ Server!Enter(c) \/ Server!Start(c)
             \/ Server!Poll(c) \/ Server!Move(c) \/ Server!Return(c),
             UNCHANGED clientVars
      PROVE  Connections'
  <2>1. /\ \E p \in Server!PC \ {"new"} : pc' = [pc EXCEPT ![c] = p]
        /\ pc[c] \notin {"new"} \cup Server!Ended
    BY <1>3 DEF Server!Arrive, Server!Enter, Server!Start, Server!Poll, Server!Move, Server!Return,
           Server!Goto, Server!PC, Server!InHandler, Server!Ended
  <2> QED
    BY <1>3, <2>1 DEF Connections, clientVars
<1>4. ASSUME NEW c \in Calls, Deliver(c) PROVE Connections'
  <2>1. /\ pc' = [pc EXCEPT ![c] = "admitted"] /\ UNCHANGED <<phase, wire>>
        /\ wire[c] \in {"request", "broken"}
    BY <1>4 DEF Deliver, Server!Admit, Server!Goto, clientVars
  <2> QED
    BY <2>1 DEF Connections, Server!PC
<1>5. ASSUME NEW c \in Calls, Answer(c) PROVE Connections'
  BY <1>5 DEF Answer, Reply, Connections, serverVars, IInv, ClientTypeOK
<1>6. ASSUME NEW c \in Calls, Break(c), UNCHANGED serverVars PROVE Connections'
  BY <1>6 DEF Break, Connections, serverVars, IInv, ClientTypeOK
<1>7. CASE DeliverStop
  BY <1>7 DEF DeliverStop, StopGone, Server!Stop, Connections
<1>8. CASE UNCHANGED systemVars
  BY <1>8 DEF systemVars, clientVars, serverVars, Connections
<1> QED
  BY <1>1, <1>2, <1>3, <1>4, <1>5, <1>6, <1>7, <1>8
     DEF SystemNext, PiStep, ServerStep, LoseStop

(* Both hold throughout.                                                   *)
LEMMA ConnectionsHold == SystemSpec => [](IInv /\ Connections)
<1> HIDE DEF IInv
<1>1. IInv /\ Connections /\ [SystemNext]_systemVars => Connections'
  BY StepConnections
<1> QED
  BY <1>1, InitConnections, SystemIsClientAndServer, ClientInvariant, PTL DEF SystemSpec

(* A call is sent only once the server has answered the previous one       *)
(* (rpc.ts, RpcClient): of two calls at the facade together, the earlier   *)
(* one's connection broke, for any calls, timeouts, aborts and stops.      *)
THEOREM OneCallAtServerHolds == SystemSpec => []OneCallAtServer
<1>1. IInv /\ Connections => OneCallAtServer
  <2> SUFFICES ASSUME IInv, Connections, NEW c \in Calls, NEW d \in Calls,
                      AtServer(c), AtServer(d), turn[d] < turn[c]
               PROVE  wire[d] = "broken"
    BY DEF OneCallAtServer
  <2>1. wire[c] # "none" /\ wire[d] # "none" /\ wire[d] # "reply"
    BY DEF AtServer, Connections
  <2>2. phase[c] \in {"sent", "settled"} /\ phase[d] # "none"
    BY <2>1 DEF Connections
  <2>3. turn[d] > 0
    BY <2>2 DEF IInv, Turns, ClientTypeOK
  <2>4. phase[d] = "settled"
    BY <2>2, <2>3 DEF IInv, OneAtATimeInOrder
  <2>5. wire[d] # "request"
    BY <2>4 DEF Connections
  <2> QED
    BY <2>1, <2>5 DEF IInv, ClientTypeOK, Wire
<1> QED
  BY <1>1, ConnectionsHold, PTL
=============================================================================
