-------------------------------- MODULE Lease --------------------------------
(***************************************************************************)
(* What the person is promised when opening a group: a request is granted  *)
(* only while the person's authorisation stands (not withdrawn since it    *)
(* was given), less than MaxLimit after it was given, and less than        *)
(* IdleLimit after the group was last opened or used.  The times are those *)
(* of the request (its own reading of the clock, when it arrived).         *)
(* A request may always be refused: the promise is about what goes through.*)
(***************************************************************************)
EXTENDS Integers

CONSTANTS Groups, Threads, IdleLimit, MaxLimit, None

VARIABLES
  clock,
  authority, \* when the authorisation of a group was given, None without one
  touched,   \* latest arrival of a granted request, or the opening
  request    \* the request of each thread

vars == <<clock, authority, touched, request>>

NoRequest == [state |-> "none", group |-> None, arrival |-> 0]

Init ==
  /\ clock = 0
  /\ authority = [g \in Groups |-> None]
  /\ touched = [g \in Groups |-> 0]
  /\ request = [t \in Threads |-> NoRequest]

Later(a, b) == IF a > b THEN a ELSE b

Authorise(g) ==
  /\ authority' = [authority EXCEPT ![g] = clock]
  /\ touched' = [touched EXCEPT ![g] = clock]
  /\ UNCHANGED <<clock, request>>

Withdraw(S) ==
  /\ authority' = [g \in Groups |-> IF g \in S THEN None ELSE authority[g]]
  /\ UNCHANGED <<clock, touched, request>>

Arrive(t, g) ==
  /\ request[t].state = "none"
  /\ request' = [request EXCEPT ![t] =
                   [state |-> "asked", group |-> g, arrival |-> clock]]
  /\ UNCHANGED <<clock, authority, touched>>

Grant(t) ==
  LET g == request[t].group
      arrival == request[t].arrival
  IN /\ request[t].state = "asked"
     /\ authority[g] # None
     /\ arrival < authority[g] + MaxLimit
     /\ arrival < touched[g] + IdleLimit
     /\ touched' = [touched EXCEPT ![g] = Later(@, arrival)]
     /\ request' = [request EXCEPT ![t].state = "granted"]
     /\ UNCHANGED <<clock, authority>>

\* A refusal of what was asked, or the end of a granted request.
End(t) ==
  /\ request[t].state # "none"
  /\ request' = [request EXCEPT ![t] = NoRequest]
  /\ UNCHANGED <<clock, authority, touched>>

Pass ==
  /\ clock' > clock
  /\ UNCHANGED <<authority, touched, request>>

Next ==
  \/ Pass
  \/ \E g \in Groups : Authorise(g)
  \/ \E S \in SUBSET Groups : Withdraw(S)
  \/ \E t \in Threads :
       (\E g \in Groups : Arrive(t, g)) \/ Grant(t) \/ End(t)

Spec == Init /\ [][Next]_vars
=============================================================================
