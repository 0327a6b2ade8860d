\* Three concurrent requests of one client, one of them a session call, two
\* stops and the sweep of sessions, under the fairness of the threads.
CONSTANTS
    a = a
    b = b
    s = s
    x = x
    NoSession = NoSession
    Sessions <- OneClient
    SessionOf <- AllItsCalls
    NoCall = NoCall
    MaxGen = 2
    Calls <- TwoCallsAndSession
    SessionCalls <- OneSession
SPECIFICATION FairSessionSpec
INVARIANTS
    OneCallAtATime
    StopBoundsMotion
    SessionTypeOK
    NoOrphanState
PROPERTIES
    ImplementsSafeMotion
    StopDrains
    OnlyIdleExpires
CHECK_DEADLOCK FALSE
