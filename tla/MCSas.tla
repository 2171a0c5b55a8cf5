-------------------------------- MODULE MCSas --------------------------------
(***************************************************************************)
(* A small instance of Sas for TLC: a put and two gets of one file of the  *)
(* drop folder, and a command.                                             *)
(***************************************************************************)
EXTENDS Sas

CONSTANT p1

MCFilesOf == [c \in Puts |-> {p1}]
MCLocalOf == [c \in Gets |-> p1]
=============================================================================
