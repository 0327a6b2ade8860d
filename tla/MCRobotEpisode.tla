--------------------------- MODULE MCRobotEpisode ---------------------------
(* An instance of RobotEpisode for TLC. *)
EXTENDS RobotEpisode, TLC

CONSTANTS agent_, operator_

Callers2 == {agent_, operator_}
Batches == {<<"move", "finish">>, <<"bad", "move">>}
=============================================================================
