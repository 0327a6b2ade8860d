---------------------------- MODULE MCRpcFacade ----------------------------
(* Instances of RpcFacade, with the sessions of its calls, for TLC. *)
EXTENDS RpcSessions, TLC

CONSTANTS a, b, s, x

TwoCallsAndSession == {a, b, s}
OneSession == {s}
OneClient == {x}
AllItsCalls == [c \in TwoCallsAndSession |-> x]
=============================================================================
