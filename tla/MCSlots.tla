------------------------------- MODULE MCSlots -------------------------------
\* Launches of one profile with two slots, alike but for their names.
EXTENDS Slots, TLC

Symmetry == Permutations(Launches)
=============================================================================
