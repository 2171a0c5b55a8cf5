----------------------------- MODULE MCKeycloak -----------------------------
(***************************************************************************)
(* A small instance of Keycloak for TLC: two profiles, each with the       *)
(* secret of one of two clients, and three calls, two of them for a same   *)
(* profile.  One profile has a secret of its own, the other the shared one.*)
(***************************************************************************)
EXTENDS Keycloak, TLC

CONSTANTS c1, c2, c3, bfs, sas, k1, k2, s1, s2

MCProfileOf == [c \in Calls |-> IF c = c3 THEN sas ELSE bfs]
MCSecretOf == [k \in Clients |-> IF k = k1 THEN s1 ELSE s2]
MCOwn == [p \in Profiles |-> IF p = bfs THEN s1 ELSE None]

\* The calls of one profile differ by their name only.
Symmetry == Permutations({c1, c2})
=============================================================================
