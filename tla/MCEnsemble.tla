----------------------------- MODULE MCEnsemble ----------------------------
(* Instances of Ensemble for TLC. *)
EXTENDS Ensemble, TLC

CONSTANTS p, q, r, turn, lane, u, v

Processes3 == {p, q, r}
Callers4 == {turn, lane, u, v}
Home == (turn :> p) @@ (lane :> p) @@ (u :> q) @@ (v :> r)
OneEnsemble == {p}
ItsTurn == (p :> turn)
=============================================================================
