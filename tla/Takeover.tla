------------------------------ MODULE Takeover ------------------------------
(***************************************************************************)
(* Who drives the robot, the agent or an operator (class Takeover of       *)
(* packages/embodied/src/capabilities/gumi/index.ts).                      *)
(*                                                                         *)
(* The agent's robot calls pass a gate that holds them while the operator  *)
(* has the robot or an operator's batch runs, and that drops a call        *)
(* decided on an observation older than the operator's last step.  The     *)
(* operators below are the methods; RobotEpisode says who calls them.      *)
(***************************************************************************)
EXTENDS Naturals

CONSTANT MaxSteps   \* bound on the operator's steps

ASSUME TakeoverAssumption == MaxSteps \in Nat

VARIABLES
    mode,         \* "agent", "requested" or "human"
    operating,    \* an operator's batch or manual call runs
    handBack,     \* the operator released the robot during it
    busy,         \* a robot call of the agent has passed the gate
    generation,   \* operator steps so far
    informed,     \* the generation of the agent's latest robot result
    observed,     \* the generation its current request rests on
    parked        \* the gate waits for release() or end()

driver == <<mode, operating, handBack, parked>>
steps == <<generation, informed, observed>>
takeoverVars == <<driver, busy, steps>>

TakeoverTypeOK ==
    /\ mode \in {"agent", "requested", "human"}
    /\ operating \in BOOLEAN
    /\ handBack \in BOOLEAN
    /\ busy \in BOOLEAN
    /\ generation \in 0..MaxSteps
    /\ informed \in 0..MaxSteps
    /\ observed \in 0..MaxSteps
    /\ parked \in BOOLEAN

TakeoverInit ==
    /\ mode = "agent"
    /\ operating = FALSE /\ handBack = FALSE /\ busy = FALSE /\ parked = FALSE
    /\ generation = 0 /\ informed = 0 /\ observed = 0

(* Mutant: the operator has the robot at once.                             *)
TakeAtOnce ==
    /\ mode' = IF mode = "agent" THEN "human" ELSE mode
    /\ handBack' = FALSE
    /\ UNCHANGED <<operating, busy, steps, parked>>

(* During a call of the agent the operator waits for its end.              *)
Take ==
    /\ mode' = IF mode # "agent" THEN mode ELSE IF busy THEN "requested" ELSE "human"
    /\ handBack' = FALSE
    /\ UNCHANGED <<operating, busy, steps, parked>>

(* release(): now, or when the running batch ends.                         *)
HandBack ==
    /\ IF operating
         THEN handBack' = TRUE /\ UNCHANGED mode
         ELSE mode' = "agent" /\ UNCHANGED handBack
    /\ parked' = FALSE
    /\ UNCHANGED <<operating, busy, steps>>

Begin ==
    /\ operating' = TRUE
    /\ UNCHANGED <<mode, handBack, busy, steps, parked>>

(* Mutant: the end of a batch wakes nobody.                                *)
EndSilently ==
    /\ operating' = FALSE
    /\ mode' = IF handBack THEN "agent" ELSE mode
    /\ handBack' = FALSE
    /\ UNCHANGED <<busy, steps, parked>>

End ==
    /\ operating' = FALSE
    /\ mode' = IF handBack THEN "agent" ELSE mode
    /\ handBack' = FALSE
    /\ parked' = FALSE
    /\ UNCHANGED <<busy, steps>>

HumanStep ==
    /\ generation < MaxSteps
    /\ generation' = generation + 1
    /\ UNCHANGED <<driver, busy, informed, observed>>

Seen ==
    /\ informed' = generation
    /\ UNCHANGED <<driver, busy, generation, observed>>

(* Mutant: a decision rests on the robot as it is, seen or not.            *)
DecideNow ==
    /\ observed' = generation
    /\ UNCHANGED <<driver, busy, generation, informed>>

Decide ==
    /\ observed' = informed
    /\ UNCHANGED <<driver, busy, generation, informed>>

Held == mode # "agent" \/ operating

Park ==
    /\ Held
    /\ ~parked
    /\ parked' = TRUE
    /\ UNCHANGED <<mode, operating, handBack, busy, steps>>

Stale == generation # observed

(* The gate lets a call through, or drops it: the notice is an observation.*)
Pass ==
    /\ ~parked
    /\ ~Held
    /\ IF Stale
         THEN informed' = generation /\ UNCHANGED busy
         ELSE busy' = TRUE /\ UNCHANGED informed
    /\ UNCHANGED <<driver, generation, observed>>

Done ==
    /\ busy' = FALSE
    /\ mode' = IF mode = "requested" THEN "human" ELSE mode
    /\ UNCHANGED <<operating, handBack, steps, parked>>
=============================================================================
