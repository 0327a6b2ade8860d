\* Two calls and the stop of one abort.
CONSTANTS
    k1 = k1
    k2 = k2
    k3 = k3
    NoCall = NoCall
    MaxGen = 1
    Calls <- TwoCalls
SPECIFICATION SystemSpec
INVARIANTS
    AbortedCallStops
CHECK_DEADLOCK FALSE
