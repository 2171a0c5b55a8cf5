------------------------------ MODULE MCOracle -------------------------------
(***************************************************************************)
(* Small instances of Oracle for TLC: w1 deletes two rows; w2 aims at one  *)
(* of them and a third row, and expects to find one of the two only.       *)
(***************************************************************************)
EXTENDS Oracle

CONSTANTS w1, w2, r1, r2, r3

MCTargets == [c \in Writes |-> IF c = w1 THEN {r1, r2} ELSE {r2, r3}]
MCExpected == [c \in Writes |-> IF c = w1 THEN 2 ELSE 1]
=============================================================================
