------------------------------ MODULE Approvals ------------------------------
(***************************************************************************)
(* Class Approvals of broker/claude_gateway.py: the write calls waiting    *)
(* for the decision of the person, and the tools approved for a while      *)
(* (`approve --tool`).  The thread of a call waits on an event, with a     *)
(* timeout, without the lock; it is told of the decision by the event and  *)
(* reads it under the lock.  A decision may come before the wait begins,   *)
(* while it lasts, or after it timed out but before the call left.         *)
(*                                                                         *)
(* A call has no number here: `decide` without an id takes the oldest      *)
(* waiting call, which is one of those it may take with an id.             *)
(***************************************************************************)
EXTENDS Integers

CONSTANTS
  Calls,      \* write calls, each served by a thread of its own
  KeyOf,      \* [group, tool, agent] of each call
  Timeout,    \* GATEWAY_APPROVAL_SECONDS
  Allowances, \* durations that `--tool` may be given
  MaxTime,    \* bound of the clock
  None

Keys == {KeyOf[c] : c \in Calls}
Groups == {k.group : k \in Keys}

ASSUME ApprovalsAssumption ==
  /\ Timeout \in Nat
  /\ Allowances \subseteq Nat
  /\ MaxTime \in Nat
  /\ None \notin Nat
  /\ None # "approved" /\ None # "denied"

ASSUME KeyAssumption ==
  \A c \in Calls : {"group", "tool", "agent"} = DOMAIN KeyOf[c]

VARIABLES
  clock,
  step,         \* where the thread of each call is in `request`
  pending,      \* self._pending
  decided,      \* calls whose event is set
  approved,     \* calls with approved=True
  allowedUntil, \* self._allowed_until
  deadline,     \* when the wait of a call times out
  answered,     \* the last answer of `decide` to the host about each call
  announced     \* until when, at most, the host was told a tool may be used

state == <<pending, decided, approved, allowedUntil>>
told == <<answered, announced>>
vars == <<clock, step, state, deadline, told>>

Times == Nat \cup {None}
Granting == {"approved", "approved for the tool"}
Refusing == {"denied", "no approval in time"}
Final == Granting \cup Refusing
Steps == {"new", "notifying", "waiting", "woken"} \cup Final
Answers == {"approved", "denied"}

TypeOK ==
  /\ clock \in Nat
  /\ step \in [Calls -> Steps]
  /\ pending \subseteq Calls
  /\ decided \subseteq Calls
  /\ approved \subseteq Calls
  /\ allowedUntil \in [Keys -> Times]
  /\ deadline \in [Calls -> Times]
  /\ answered \in [Calls -> Answers \cup {None}]
  /\ announced \in [Keys -> Times]

Init ==
  /\ clock = 0
  /\ step = [c \in Calls |-> "new"]
  /\ pending = {}
  /\ decided = {}
  /\ approved = {}
  /\ allowedUntil = [k \in Keys |-> None]
  /\ deadline = [c \in Calls |-> None]
  /\ answered = [c \in Calls |-> None]
  /\ announced = [k \in Keys |-> None]

At(c, point) == step[c] = point
Goto(c, point) == step' = [step EXCEPT ![c] = point]

-----------------------------------------------------------------------------
\* request, in the thread of the call.

\* Mutant of Allowed: an allowance has no end.
AllowedForEver(k) == allowedUntil[k] # None

Allowed(k) == allowedUntil[k] # None /\ clock < allowedUntil[k]

Request(c) ==
  /\ At(c, "new")
  /\ \/ /\ Allowed(KeyOf[c])
        /\ Goto(c, "approved for the tool")
        /\ UNCHANGED pending
     \/ /\ ~Allowed(KeyOf[c])
        /\ Goto(c, "notifying")
        /\ pending' = pending \cup {c}
  /\ UNCHANGED <<clock, decided, approved, allowedUntil, deadline, told>>

\* Mutant of StartWait: the event is cleared when the wait begins.
StartWaitCleared(c) ==
  /\ At(c, "notifying")
  /\ Goto(c, "waiting")
  /\ deadline' = [deadline EXCEPT ![c] = clock + Timeout]
  /\ decided' = decided \ {c}
  /\ UNCHANGED <<clock, pending, approved, allowedUntil, told>>

StartWait(c) ==
  /\ At(c, "notifying")
  /\ Goto(c, "waiting")
  /\ deadline' = [deadline EXCEPT ![c] = clock + Timeout]
  /\ UNCHANGED <<clock, state, told>>

\* The event is set, or the wait timed out; a thread may be late to wake up.
Wake(c) ==
  /\ At(c, "waiting")
  /\ c \in decided \/ clock >= deadline[c]
  /\ Goto(c, "woken")
  /\ UNCHANGED <<clock, state, deadline, told>>

\* Mutant of Outcome: the result of the wait counts, not the state of the event.
OutcomeOfTheWait(c) ==
  IF clock >= deadline[c] THEN "no approval in time"
  ELSE IF c \in approved THEN "approved" ELSE "denied"

Outcome(c) ==
  IF c \notin decided THEN "no approval in time"
  ELSE IF c \in approved THEN "approved" ELSE "denied"

\* Mutant of Leave: the call stays in the list.
LeaveListed(c) ==
  /\ At(c, "woken")
  /\ Goto(c, Outcome(c))
  /\ UNCHANGED <<clock, state, deadline, told>>

Leave(c) ==
  /\ At(c, "woken")
  /\ pending' = pending \ {c}
  /\ Goto(c, Outcome(c))
  /\ UNCHANGED <<clock, decided, approved, allowedUntil, deadline, told>>

-----------------------------------------------------------------------------
\* decide, for a waiting call: `deny`, `approve`, `approve --tool <minutes>m`
\* (minutes is None without --tool).  The host is answered what was decided.

Latest(a, b) == IF a # None /\ a > b THEN a ELSE b

Decide(c, approve, minutes) ==
  LET answer == IF approve THEN "approved" ELSE "denied"
      until == clock + minutes
  IN /\ c \in pending
     /\ approved' = IF approve THEN approved \cup {c} ELSE approved \ {c}
     /\ decided' = decided \cup {c}
     /\ allowedUntil' = IF minutes = None THEN allowedUntil
                        ELSE [allowedUntil EXCEPT ![KeyOf[c]] = until]
     /\ answered' = [answered EXCEPT ![c] = answer]
     /\ announced' = IF minutes = None THEN announced
                     ELSE [announced EXCEPT ![KeyOf[c]] = Latest(@, until)]
     /\ UNCHANGED <<clock, step, pending, deadline>>

Deny(c) == Decide(c, FALSE, None)
Approve(c) == Decide(c, TRUE, None)
ApproveTool(c) == \E m \in Allowances : Decide(c, TRUE, m)

\* forget_group
Forget(g) ==
  /\ allowedUntil' = [k \in Keys |-> IF k.group = g THEN None ELSE allowedUntil[k]]
  /\ UNCHANGED <<clock, step, pending, decided, approved, deadline, told>>

Tick ==
  /\ clock < MaxTime
  /\ clock' = clock + 1
  /\ UNCHANGED <<step, state, deadline, told>>

\* The thread of a call goes on.
Continue(c) == StartWait(c) \/ Wake(c) \/ Leave(c)

Next ==
  \/ Tick
  \/ \E c \in Calls :
       Request(c) \/ Continue(c) \/ Approve(c) \/ ApproveTool(c) \/ Deny(c)
  \/ \E g \in Groups : Forget(g)

Spec == Init /\ [][Next]_vars

\* The thread of a waiting call runs when it is woken; nobody has to decide.
FairSpec == Spec /\ \A c \in Calls : WF_vars(Continue(c))

-----------------------------------------------------------------------------
TimedOut(c) == deadline[c] # None /\ clock >= deadline[c]

\* The last word of the person is what happens: a call is approved or denied
\* as the host was last answered, and refused for want of an approval only when
\* the host was answered nothing and the whole time went by.  In particular a
\* decision made after the wait timed out, but before the call left the list,
\* counts.  (claude_gateway.py request, decide)
LastAnswerHolds ==
  \A c \in Calls :
    /\ step[c] \in Answers => answered[c] = step[c]
    /\ At(c, "no approval in time") => answered[c] = None /\ TimedOut(c)
    /\ At(c, "approved for the tool") => answered[c] = None

Listed == {"notifying", "waiting", "woken"}

\* What the list, the event and the last answer of a call say of one another.
Consistent(c) ==
  /\ c \in pending <=> step[c] \in Listed
  /\ c \in decided <=> answered[c] # None
  /\ c \in approved <=> answered[c] = "approved"
  /\ At(c, "new") => answered[c] = None
  /\ At(c, "waiting") => deadline[c] # None
  /\ At(c, "woken") => c \in decided \/ TimedOut(c)

NoneUnannounced ==
  \A k \in Keys :
    allowedUntil[k] # None =>
      announced[k] # None /\ allowedUntil[k] <= announced[k]

\* The list, the events, the answers and the allowances agree, at every point
\* of every thread: LastAnswerHolds and AllowanceAnnounced rest on it.
\* (claude_gateway.py request, decide, forget_group)
ApprovalsInv ==
  /\ TypeOK
  /\ LastAnswerHolds
  /\ \A c \in Calls : Consistent(c)
  /\ NoneUnannounced

\* A call goes through without a decision of its own only if the host was told
\* so: for this tool of this group, called by this agent, and at most for the
\* time announced.  (claude_gateway.py request, decide --tool)
AllowanceAnnounced ==
  [][\A c \in Calls :
       At(c, "new") /\ step'[c] = "approved for the tool" =>
         announced[KeyOf[c]] # None /\ clock < announced[KeyOf[c]]]_vars

\* A decision ends the wait of its call, even when it came before the wait
\* began and no time passes.  (claude_gateway.py request, decided.wait)
AnswerEndsTheWait ==
  \A c \in Calls : c \in decided ~> step[c] \in Final
=============================================================================
