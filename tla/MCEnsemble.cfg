\* A process with an ensemble of three candidates (two lanes), two ordinary
\* ones, two slots; one process may be killed, and the ordinary ones may
\* never end their calls.
CONSTANTS
    p = p
    q = q
    r = r
    turn = turn
    lane = lane
    u = u
    v = v
    Nobody = Nobody
    Processes <- Processes3
    Callers <- Callers4
    ProcessOf <- Home
    N = 2
    MaxKills = 1
    Ensembles <- OneEnsemble
    TurnOf <- ItsTurn
    Candidates = 3
    Responsive <- OneEnsemble
SPECIFICATION FairSpec
INVARIANTS
    TypeOK
    SlotsBoundCalls
    NoSlotForgotten
PROPERTIES
    TurnEnds
    DeadSlotTakenOver
CHECK_DEADLOCK FALSE
