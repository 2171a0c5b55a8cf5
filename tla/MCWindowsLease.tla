--------------------------- MODULE MCWindowsLease ---------------------------
(* A small instance of Windows with its history, checked against the lease; *)
(* no symmetry, since a liveness property is checked with the others.       *)
EXTENDS WindowsLease
=============================================================================
