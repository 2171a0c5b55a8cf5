-------------------------- MODULE MCGatewayHistory --------------------------
(***************************************************************************)
(* Requests of one agent that use one tool, for TLC.                       *)
(***************************************************************************)
EXTENDS GatewayHistory, TLC

CONSTANTS c1, c2, agent, tool, group

MCKeyOf ==
  [c \in Requests |-> [group |-> group, tool |-> tool, agent |-> agent]]

\* The requests differ by their name only.
Symmetry == Permutations({c1, c2})
=============================================================================
