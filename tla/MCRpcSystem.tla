---------------------------- MODULE MCRpcSystem ----------------------------
(* Instances of RpcSystem for TLC. *)
EXTENDS RpcSystem, TLC

CONSTANTS k1, k2, k3

TwoCalls == {k1, k2}
ThreeCalls == {k1, k2, k3}

CallSymmetry == Permutations({k1, k2, k3})
=============================================================================
