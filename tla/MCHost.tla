------------------------------- MODULE MCHost -------------------------------
(***************************************************************************)
(* A small instance of Host for TLC: two terminals and two servers.        *)
(***************************************************************************)
EXTENDS Host, TLC

CONSTANTS t1, t2, s1, s2

\* The terminals and the servers differ by their names only.
Symmetry == Permutations({t1, t2}) \cup Permutations({s1, s2})
=============================================================================
