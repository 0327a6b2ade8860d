\* Two programs and one ordinary call, one stop from a client.
CONSTANTS
    p = p
    q = q
    b = b
    NoCall = NoCall
    MaxGen = 1
    Calls <- TwoRunsAndCall
    SessionCalls <- NoSessions
    CodeCalls <- TwoRuns
SPECIFICATION CodeRunSpec
SYMMETRY RunSymmetry
INVARIANTS
    MotionExclusive
    HaltCoversAbandoned
    TimeoutAnswerStops
PROPERTIES
    CodeRunImplementsSafeMotion
CHECK_DEADLOCK FALSE
