----------------------------- MODULE MCCodeRun -----------------------------
(* Instances of CodeRun for TLC. *)
EXTENDS CodeRun, TLC

CONSTANTS p, q, b

TwoRuns == {p, q}
TwoRunsAndCall == {p, q, b}
OneRunAndCall == {p, b}
OneRun == {p}
NoSessions == {}

RunSymmetry == Permutations({p, q})
=============================================================================
