--------------------------- MODULE GatewayHistory ---------------------------
(***************************************************************************)
(* Gateway with a history of the allowances that outlive the window in     *)
(* which they were given.  No step of the code reads it.                   *)
(***************************************************************************)
EXTENDS Gateway

VARIABLE
  outlived \* the allowances whose group was closed since they were given

hvars == <<vars, outlived>>

HInit == Init /\ outlived = {}

Given(k) ==
  \E c \in Requests, m \in Allowances : KeyOf[c] = k /\ A!Decide(c, TRUE, m)

Closed(g) == opened[g] # None /\ opened'[g] = None

HNext ==
  /\ Next
  /\ outlived' = {k \in A!Keys :
       /\ allowedUntil'[k] # None /\ ~Given(k)
       /\ k \in outlived \/ Closed(k.group)}

HSpec == HInit /\ [][HNext]_hvars

-----------------------------------------------------------------------------
\* An allowance outlives the closing of its window only as long as the thread
\* that closed the group has not reported it yet: once `revoke`, or the call that
\* collected the expired group, returns, none is left.  A group whose time was over but
\* that is opened again before anything collected it was never closed: its allowances
\* stay with it.
\* (claude_gateway.py _on_close, forget_group; access.py revoke, use)
ClosedAllowancesForgotten ==
  \A k \in outlived : \E t \in Threads : k.group \in toReport[t]
=============================================================================
