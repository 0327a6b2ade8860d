\* An agent and an operator on one robot, one turn of budget and a time
\* limit, one step of the operator.
CONSTANTS
    agent_ = agent_
    operator_ = operator_
    Callers <- Callers2
    Nobody = Nobody
    Agent = agent_
    Operator = operator_
    MaxTurns = 1
    MaxSteps = 1
    Replies <- Batches
SPECIFICATION FairSpec
INVARIANTS
    TypeOK
    RunsAloneWithItsSignal
    OneDriver
    AgentActsOnWhatItSaw
    NoLostWakeup
    OneResult
    TimeLimitIsNoPlannerError
PROPERTIES
    OperatorActsInEpisode
    DeadlineEndsRun
    OperatorGetsItsTurn
\* the run ends with the process
CHECK_DEADLOCK FALSE
