\* Three calls, at most one of their stops delivered, the others lost.
CONSTANTS
    k1 = k1
    k2 = k2
    k3 = k3
    NoCall = NoCall
    MaxGen = 1
    Calls <- ThreeCalls
SPECIFICATION SystemSpec
SYMMETRY CallSymmetry
INVARIANTS
    OneCallAtServer
CHECK_DEADLOCK FALSE
