---------------------------- MODULE MCRpcClient ----------------------------
(* Instances of RpcClient for TLC. *)
EXTENDS RpcClient

CONSTANTS k1, k2, k3

ThreeCalls == {k1, k2, k3}
=============================================================================
