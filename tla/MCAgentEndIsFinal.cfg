SPECIFICATION AgentSpec
CONSTANTS
    s1 = s1
    s2 = s2
    f1 = f1
    t1 = t1
    t2 = t2
    Steers <- MCSteers
    Follows <- MCFollows
    Tools <- MCTools
    MaxTurns = 2
    MaxFailures = 1
SYMMETRY Symmetry
INVARIANT AgentEndIsFinal
