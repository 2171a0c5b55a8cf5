----------------------------- MODULE MCApprovals -----------------------------
(* Three calls for TLC: two of one tool by one agent, one by another agent. *)
EXTENDS Approvals, TLC

CONSTANTS c1, c2, c3, agent1, agent2, tool, group

MCCalls == {c1, c2, c3}

MCKeyOf ==
  [c \in MCCalls |-> [group |-> group, tool |-> tool,
                      agent |-> IF c = c3 THEN agent2 ELSE agent1]]

\* The two calls that differ by their name only.
Symmetry == Permutations({c1, c2})
=============================================================================
