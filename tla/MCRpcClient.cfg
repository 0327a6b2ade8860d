\* Three calls on one endpoint, any of them timing out or aborted,
\* whose service may never answer.
CONSTANTS
    k1 = k1
    k2 = k2
    k3 = k3
    NoCall = NoCall
    Calls <- ThreeCalls
SPECIFICATION ClientFairSpec
INVARIANTS
    ClientTypeOK
    OneAtATimeInOrder
PROPERTIES
    DeadOnlyIfUnanswered
    LineMoves
CHECK_DEADLOCK FALSE
