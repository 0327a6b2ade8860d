\* One program, one client stop.
CONSTANTS
    p = p
    q = q
    b = b
    NoCall = NoCall
    MaxGen = 1
    Calls <- OneRunAndCall
    SessionCalls <- NoSessions
    CodeCalls <- OneRun
SPECIFICATION CodeRunSpec
INVARIANTS
    StopKillsProgram
CHECK_DEADLOCK FALSE
