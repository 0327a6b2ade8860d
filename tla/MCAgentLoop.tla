----------------------------- MODULE MCAgentLoop -----------------------------
(* Instances of AgentLoop for TLC. *)
EXTENDS AgentLoop, TLC

CONSTANTS s1, s2, f1, t1, t2

MCSteers == {s1, s2}
MCFollows == {f1}
MCTools == {t1, t2}

Symmetry == Permutations(MCSteers) \cup Permutations(MCTools)
=============================================================================
