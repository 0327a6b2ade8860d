\* One program and an ordinary call under the run's fairness, one client stop.
CONSTANTS
    p = p
    q = q
    b = b
    NoCall = NoCall
    MaxGen = 1
    Calls <- OneRunAndCall
    SessionCalls <- NoSessions
    CodeCalls <- OneRun
SPECIFICATION CodeRunFairSpec
PROPERTIES
    RunEnds
    HaltLifted
CHECK_DEADLOCK FALSE
