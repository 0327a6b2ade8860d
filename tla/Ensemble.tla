----------------------------- MODULE Ensemble ------------------------------
(***************************************************************************)
(* The gate as planner turns use it: api-gate.ts takes a slot before the   *)
(* request of a turn and gives it back with the reply; in a process whose  *)
(* planner is an ensemble (packages/embodied/src/planner/ensemble.ts) the  *)
(* turn keeps its slot while further lanes of the same turn wait for slots *)
(* of their own.  Holding one slot while waiting for another is how such   *)
(* processes could block each other.                                       *)
(***************************************************************************)
EXTENDS ApiGate

CONSTANTS
    Ensembles,   \* the processes whose planner is an ensemble
    TurnOf,      \* the caller of each of them that is its turn (and lane 0)
    Candidates,  \* the number of candidates of a turn
    Responsive   \* the processes whose model calls come to an end

Turns == {TurnOf[p] : p \in Ensembles}
Lanes == {w \in Callers \ Turns : ProcessOf[w] \in Ensembles}
LanesOf(p) == {w \in Lanes : ProcessOf[w] = p}
Plain == Callers \ (Turns \cup Lanes)

(* As many lanes as candidates and slots: lane 0 is the turn's own.        *)
ASSUME EnsembleAssumption ==
    /\ Ensembles \subseteq Processes
    /\ Responsive \subseteq Processes
    /\ Candidates \in Nat \ {0}
    /\ TurnOf \in [Ensembles -> Callers]
    /\ \A p \in Ensembles :
          /\ ProcessOf[TurnOf[p]] = p
          /\ Cardinality(LanesOf(p)) + 1 = IF Candidates < N THEN Candidates ELSE N

VARIABLES
    phase,    \* phase[p]: the turn of process p
    left,     \* left[p]: candidates no lane has pulled yet
    doing,    \* the turns and lanes in a model call
    begun,    \* the lanes that have started in this turn
    aborted   \* aborted[p]: the signal of the turn

turnVars == <<phase, left, doing, begun, aborted>>
vars == <<gateVars, turnVars>>

(* A model call of an ensemble is made with a slot; candidates are pulled  *)
(* and lanes begin only within a turn.                                     *)
TurnOK ==
    /\ \A w \in doing : at[w] \in {"calling", "killed"}
    /\ \A p \in Ensembles : left[p] > 0 => phase[p] = "candidates"
    /\ \A w \in begun : phase[ProcessOf[w]] = "candidates"

TypeOK ==
    /\ GateTypeOK
    /\ TurnOK
    /\ phase \in [Ensembles -> {"none", "candidates", "synthesis"}]
    /\ left \in [Ensembles -> 0..Candidates]
    /\ doing \in SUBSET (Turns \cup Lanes)
    /\ begun \in SUBSET Lanes
    /\ aborted \in [Ensembles -> BOOLEAN]

Init ==
    /\ GateInit
    /\ phase = [p \in Ensembles |-> "none"]
    /\ left = [p \in Ensembles |-> 0]
    /\ doing = {}
    /\ begun = {}
    /\ aborted = [p \in Ensembles |-> FALSE]

(* Lane 0 found the queue empty: the signal of the waiting lanes fires.    *)
Drained(p) == phase[p] = "candidates" /\ left[p] = 0 /\ TurnOf[p] \notin doing

(* Mutant: waiting lanes are not told that the queue ran dry.              *)
HaltedByAbort(w) == aborted[ProcessOf[w]]

(* The signal w waits under has fired: acquire throws instead of scanning. *)
Halted(w) == aborted[ProcessOf[w]] \/ (w \in Lanes /\ Drained(ProcessOf[w]))

(* The first candidate is lane 0's at once, under the turn's slot.         *)
FanOut(p) ==
    /\ at[TurnOf[p]] = "calling"
    /\ phase[p] = "none"
    /\ phase' = [phase EXCEPT ![p] = "candidates"]
    /\ left' = [left EXCEPT ![p] = Candidates - 1]
    /\ doing' = doing \cup {TurnOf[p]}
    /\ UNCHANGED <<gateVars, begun, aborted>>

LaneBegin(w) ==
    /\ phase[ProcessOf[w]] = "candidates"
    /\ w \notin begun
    /\ IF Halted(w) THEN at[w] = "idle" /\ UNCHANGED gateVars ELSE Begin(w)
    /\ begun' = begun \cup {w}
    /\ UNCHANGED <<phase, left, doing, aborted>>

(* A lane that got its slot pulls a candidate, if there is one.            *)
Pull(w) ==
    /\ at[w] = "calling"
    /\ w \notin doing
    /\ left[ProcessOf[w]] > 0
    /\ left' = [left EXCEPT ![ProcessOf[w]] = @ - 1]
    /\ doing' = doing \cup {w}
    /\ UNCHANGED <<gateVars, phase, begun, aborted>>

(* A candidate's call ends (with a reply, an error, a timeout or the       *)
(* abort): the lane pulls the next one.                                    *)
CallEnds(w) ==
    /\ at[w] = "calling"
    /\ w \in doing
    /\ phase[ProcessOf[w]] = "candidates"
    /\ IF left[ProcessOf[w]] > 0
         THEN left' = [left EXCEPT ![ProcessOf[w]] = @ - 1] /\ UNCHANGED doing
         ELSE doing' = doing \ {w} /\ UNCHANGED left
    /\ UNCHANGED <<gateVars, phase, begun, aborted>>

(* Mutant: a lane gives its slot back when the queue is dry.               *)
LaneReturnEarly(w) ==
    /\ left[ProcessOf[w]] = 0
    /\ Return(w)
    /\ UNCHANGED turnVars

LaneReturn(w) ==
    /\ w \notin doing
    /\ left[ProcessOf[w]] = 0
    /\ Return(w)
    /\ UNCHANGED turnVars

LaneGiveUp(w) == Halted(w) /\ GiveUp(w) /\ UNCHANGED turnVars

(* The poll interval is over.                                              *)
TryAgain(w) == ~Halted(w) /\ Wake(w) /\ UNCHANGED turnVars

(* Promise.all over the lanes, then the synthesis, in the turn's slot.     *)
Synthesize(p) ==
    /\ Drained(p)
    /\ p \notin dead
    /\ \A w \in LanesOf(p) : w \in begun /\ at[w] = "idle"
    /\ phase' = [phase EXCEPT ![p] = "synthesis"]
    /\ doing' = IF aborted[p] THEN doing ELSE doing \cup {TurnOf[p]}
    /\ begun' = begun \ LanesOf(p)
    /\ UNCHANGED <<gateVars, left, aborted>>

(* The reply's message_end: the turn's slot is given back.                 *)
EndTurn(p) ==
    /\ phase[p] = "synthesis"
    /\ Return(TurnOf[p])
    /\ phase' = [phase EXCEPT ![p] = "none"]
    /\ doing' = doing \ {TurnOf[p]}
    /\ aborted' = [aborted EXCEPT ![p] = FALSE]
    /\ UNCHANGED <<left, begun>>

(* The user or a budget aborts the turn while it waits or calls.           *)
Abort(p) ==
    /\ at[TurnOf[p]] \in {"asleep", "calling"}
    /\ ~aborted[p]
    /\ aborted' = [aborted EXCEPT ![p] = TRUE]
    /\ UNCHANGED <<gateVars, phase, left, doing, begun>>

(* A turn aborted while it waits for its slot ends without one.            *)
TurnGiveUp(p) ==
    /\ aborted[p]
    /\ GiveUp(TurnOf[p])
    /\ aborted' = [aborted EXCEPT ![p] = FALSE]
    /\ UNCHANGED <<phase, left, doing, begun>>

LaneStep(w) == LaneBegin(w) \/ LaneReturn(w) \/ LaneGiveUp(w)

TurnStep(p) ==
    \/ (Begin(TurnOf[p]) /\ UNCHANGED turnVars)
    \/ FanOut(p) \/ Synthesize(p) \/ EndTurn(p) \/ Abort(p) \/ TurnGiveUp(p)

Next ==
    \/ \E w \in Plain : CallerStep(w) /\ UNCHANGED turnVars
    \/ \E w \in Turns \cup Lanes :
          TryAgain(w) \/ CallEnds(w) \/ (Synchronous(w) /\ UNCHANGED turnVars)
    \/ \E w \in Lanes : LaneStep(w) \/ Pull(w)
    \/ \E p \in Ensembles : TurnStep(p)
    \/ \E p \in Processes : Kill(p) /\ UNCHANGED turnVars

(***************************************************************************)
(* A synchronous section runs on, timers fire and the event loop gets to   *)
(* every callback.  Model calls come to an end only in the responsive      *)
(* processes: nothing is asked of the others, which may keep their slots.  *)
(***************************************************************************)
GateFairness ==
    /\ \A w \in Callers : WF_vars(Synchronous(w) /\ UNCHANGED turnVars)
    /\ \A w \in Plain : WF_vars(Wake(w) /\ UNCHANGED turnVars)
    /\ \A w \in Turns \cup Lanes : WF_vars(TryAgain(w))
    /\ \A w \in Lanes : WF_vars(LaneStep(w) \/ Pull(w))
    /\ \A p \in Ensembles : WF_vars(FanOut(p) \/ Synthesize(p) \/ TurnGiveUp(p))
    /\ \A p \in Ensembles \cap Responsive :
          /\ WF_vars(EndTurn(p))
          /\ \A w \in LanesOf(p) \cup {TurnOf[p]} : WF_vars(CallEnds(w))

Spec == Init /\ [][Next]_vars

FairSpec == Spec /\ GateFairness

---------------------------------------------------------------------------
(* Properties.                                                             *)

(* A turn that has its slot is over in the end, though its lanes wait for  *)
(* slots other processes may never give back: a lane leaves when the turn  *)
(* has no candidate left for it (ensemble.ts:37-39, :278-279).             *)
TurnEnds ==
    \A p \in Ensembles \cap Responsive :
        phase[p] = "candidates" ~> phase[p] = "none" \/ p \in dead

(* The slot of a killed process is taken over (api-gate.ts:8-9), unless    *)
(* its file was left empty, nobody waits, or who waits finds another slot. *)
OfTheDead(i) == file[i] # Nobody /\ pid[i] \in dead

Waiting(w) == at[w] \in Scanning \cup {"asleep"}

DeadSlotTakenOver ==
    \A i \in Slots :
        OfTheDead(i) ~> \/ ~OfTheDead(i)
                        \/ \A w \in Callers : ~Waiting(w)
                        \/ \E j \in Slots : file[j] = Nobody
=============================================================================
