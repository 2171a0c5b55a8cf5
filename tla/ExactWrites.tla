----------------------------- MODULE ExactWrites -----------------------------
(***************************************************************************)
(* What oracle_write promises: the table changes by whole statements only, *)
(* each one at most once, changing exactly the number of rows that its     *)
(* caller expected and before it is answered; a call answered with its     *)
(* result did change the table, one answered as rolled back did not.  A    *)
(* call that ends with an error, or without an answer, may have done so:   *)
(* nothing is promised to it.                                              *)
(***************************************************************************)
EXTENDS Integers, FiniteSets

CONSTANTS Writes, Targets, Expected, Rows, None

VARIABLES
  table,   \* rows of the table
  applied, \* calls whose statement changed it
  answer   \* of each call, None before

vars == <<table, applied, answer>>

Answers == {"result", "rolled back", "error", "failed", "lost"}

Init ==
  /\ table = Rows
  /\ applied = {}
  /\ answer = [c \in Writes |-> None]

Apply(c) ==
  /\ answer[c] = None /\ c \notin applied
  /\ Cardinality(Targets[c] \cap table) = Expected[c]
  /\ table' = table \ Targets[c]
  /\ applied' = applied \cup {c}
  /\ UNCHANGED answer

MayTell(c, a) ==
  /\ a = "result" => c \in applied
  /\ a = "rolled back" => c \notin applied

\* Several calls end at once when the server stops.
Tell ==
  /\ answer' \in [Writes -> Answers \cup {None}]
  /\ \A c \in Writes :
       answer'[c] # answer[c] => answer[c] = None /\ MayTell(c, answer'[c])
  /\ UNCHANGED <<table, applied>>

Next == Tell \/ \E c \in Writes : Apply(c)

Spec == Init /\ [][Next]_vars
=============================================================================
