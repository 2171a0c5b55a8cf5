------------------------------- MODULE Gateway -------------------------------
(***************************************************************************)
(* The MCP gateway, broker/claude_gateway.py: the handler of each request  *)
(* of an agent (do_POST, check, _refusal, _forward), the commands of the   *)
(* host, and the object they share, made of Windows and Approvals.  Each   *)
(* request has a thread of its own; so has each command.                   *)
(***************************************************************************)
EXTENDS Integers, FiniteSets

CONSTANTS
  Requests,       \* requests of the agents, one thread each
  KeyOf,          \* [group, tool, agent] of each request
  Admins,         \* threads of the commands of the host
  IdleLimit, MaxLimit, NotifyInterval, Timeout, Allowances, MaxTime, None

ASSUME GatewayAssumption ==
  /\ Requests \cap Admins = {}
  /\ \A c \in Requests : {"group", "tool", "agent"} = DOMAIN KeyOf[c]
  /\ IdleLimit \in Nat /\ MaxLimit \in Nat /\ Timeout \in Nat
  /\ NotifyInterval \in Nat \ {0}
  /\ Allowances \subseteq Nat
  /\ MaxTime \in Nat
  /\ None \notin Int \cup {"approved", "denied"}

VARIABLES
  clock,
  opened, lastUsed, lastNotified, pc, reading, asks, toReport,       \* Windows
  step, pending, decided, approved, allowedUntil,                    \* Approvals
  deadline, answered, announced,
  handler, \* where the handler of each request is
  kind,    \* of each request: one of Kinds, once it is received
  gone     \* requests whose agent closed its connection

Threads == Requests \cup Admins
Groups == {KeyOf[c].group : c \in Requests}

W == INSTANCE Windows WITH OtherKeys <- {}
A == INSTANCE Approvals WITH Calls <- Requests

windowState == <<opened, lastUsed, lastNotified, pc, reading, asks, toReport>>
approvalState ==
  <<step, pending, decided, approved, allowedUntil, deadline, answered, announced>>
service == <<handler, kind, gone>>
vars == <<clock, windowState, approvalState, service>>

\* A request other than tools/call, or what Policy.classify says of the tool.
Kinds == {"other", "denied", "read", "write"}
Final == {"refused", "dropped", "ended"}
Points ==
  {"new", "using", "asking", "checked", "forwarding", "sent"} \cup Final

TypeOK ==
  /\ W!TypeOK
  /\ A!TypeOK
  /\ handler \in [Requests -> Points]
  /\ kind \in [Requests -> Kinds \cup {None}]
  /\ gone \subseteq Requests

Init ==
  /\ W!Init
  /\ A!Init
  /\ handler = [c \in Requests |-> "new"]
  /\ kind = [c \in Requests |-> None]
  /\ gone = {}

At(c, point) == handler[c] = point
Goto(c, point) == handler' = [handler EXCEPT ![c] = point]

-----------------------------------------------------------------------------
\* check and _refusal, in the thread of a request.

\* A tool denied by the policy is refused, a request other than a tool call is
\* forwarded at once, and any other tool needs the group of its route.
Receive(c) ==
  /\ At(c, "new")
  /\ \E k \in Kinds : kind' = [kind EXCEPT ![c] = k]
  /\ UNCHANGED <<approvalState, gone>>
  /\ \/ /\ kind'[c] = "denied"
        /\ Goto(c, "refused")
        /\ UNCHANGED <<clock, windowState>>
     \/ /\ kind'[c] = "other"
        /\ Goto(c, "forwarding")
        /\ UNCHANGED <<clock, windowState>>
     \/ /\ kind'[c] \in {"read", "write"}
        /\ Goto(c, "using")
        /\ W!UseCall(c, KeyOf[c].group)

\* windows.use returns, or raises WindowClosedError.
AfterUse(c) ==
  /\ At(c, "using")
  /\ W!Return(c)
  /\ Goto(c, IF pc[c] = "refused" THEN "refused"
             ELSE IF kind[c] = "read" THEN "checked" ELSE "asking")
  /\ UNCHANGED <<approvalState, kind, gone>>

\* Mutant of Decided: a refusal isn't an end.
DecidedIfGranted(c) ==
  Goto(c, IF step'[c] \in A!Granting THEN "checked" ELSE "asking")

\* approvals.request decides, at once or after the wait.
Decided(c) ==
  Goto(c, IF step'[c] \in A!Granting THEN "checked"
          ELSE IF step'[c] \in A!Refusing THEN "refused" ELSE "asking")

Ask(c) ==
  /\ At(c, "asking")
  /\ A!Request(c) \/ A!Continue(c)
  /\ Decided(c)
  /\ UNCHANGED <<windowState, kind, gone>>

\* Mutant of CheckClient: the agent isn't looked for.
SkipCheckClient(c) ==
  /\ At(c, "checked")
  /\ Goto(c, "forwarding")
  /\ UNCHANGED <<clock, windowState, approvalState, kind, gone>>

\* _client_gone, for a tool call.
CheckClient(c) ==
  /\ At(c, "checked")
  /\ Goto(c, IF c \in gone THEN "dropped" ELSE "forwarding")
  /\ UNCHANGED <<clock, windowState, approvalState, kind, gone>>

\* _forward: the request reaches the MCP server, or the server is unreachable.
Send(c) ==
  /\ At(c, "forwarding")
  /\ Goto(c, "sent") \/ Goto(c, "ended")
  /\ UNCHANGED <<clock, windowState, approvalState, kind, gone>>

\* The answer is relayed; or the connection to the server breaks before its
\* answer, which the agent is told as a server that can't be reached; or one of
\* the two connections breaks during the answer.
Relay(c) ==
  /\ At(c, "sent")
  /\ Goto(c, "ended")
  /\ UNCHANGED <<clock, windowState, approvalState, kind, gone>>

-----------------------------------------------------------------------------
\* A thread inside a call of Windows: on_close forgets the allowances of the
\* group.

\* Mutant of Report: the allowances are kept.
ReportKeepingAllowances(t, g) ==
  /\ W!Report(t, g)
  /\ UNCHANGED <<approvalState, service>>

Report(t, g) ==
  /\ W!Report(t, g)
  /\ A!Forget(g)
  /\ UNCHANGED service

Inside(t) ==
  \/ /\ W!UseLocked(t) \/ W!StatusLocked(t) \/ W!NotifyRefusal(t) \/ W!NotifyLocked(t)
     /\ UNCHANGED <<approvalState, service>>
  \/ \E g \in Groups : Report(t, g)

-----------------------------------------------------------------------------
\* Commands of the host: allow, revoke, status, approve, deny.

Allow(a, g) == W!Open(a, g) /\ UNCHANGED <<approvalState, service>>

Revoke(a, names) == W!Revoke(a, names) /\ UNCHANGED <<approvalState, service>>

Status(a) == W!StatusCall(a) /\ UNCHANGED <<approvalState, service>>

EndCommand(a) == W!Return(a) /\ UNCHANGED <<approvalState, service>>

Decide(c) ==
  /\ A!Approve(c) \/ A!ApproveTool(c) \/ A!Deny(c)
  /\ UNCHANGED <<windowState, service>>

-----------------------------------------------------------------------------
\* The agent gives a tool call up (Esc, or its container stops).  The handler looks
\* for its agent once, after the approval; a connection closed later breaks the
\* answer (Relay).
GiveUp(c) ==
  /\ c \notin gone
  /\ handler[c] \in {"using", "asking", "checked"}
  /\ gone' = gone \cup {c}
  /\ UNCHANGED <<clock, windowState, approvalState, handler, kind>>

Tick == W!Tick /\ UNCHANGED <<approvalState, service>>

\* The thread of a request goes on, up to the MCP server.
Serve(c) ==
  \/ AfterUse(c)
  \/ Ask(c)
  \/ CheckClient(c)
  \/ Send(c)
  \/ Inside(c)

Command(a) ==
  \/ \E g \in Groups : Allow(a, g) \/ Revoke(a, {g})
  \/ Revoke(a, Groups)
  \/ Status(a)
  \/ Inside(a)
  \/ EndCommand(a)

Next ==
  \/ Tick
  \/ \E c \in Requests :
       Receive(c) \/ Serve(c) \/ Relay(c) \/ GiveUp(c) \/ Decide(c)
  \/ \E a \in Admins : Command(a)

Spec == Init /\ [][Next]_vars

\* The threads of the requests run and time passes; the agent and the person
\* need not do anything, and the MCP server may never answer (_forward sets no
\* timeout on its connection).
FairSpec ==
  /\ Spec
  /\ WF_vars(Tick)
  /\ \A c \in Requests : WF_vars(Serve(c))

-----------------------------------------------------------------------------
\* Every request the gateway receives is refused, dropped or handed to the MCP
\* server, even if nobody ever decides on it; only a wait that would time out
\* after the end of the model's time may last.  (claude_gateway.py do_POST,
\* request)
WaitsBeyondTheModel(c) ==
  step[c] = "waiting" /\ deadline[c] > MaxTime

EveryRequestEnds ==
  \A c \in Requests :
    ~At(c, "new") ~> (handler[c] \in Final \cup {"sent"} \/ WaitsBeyondTheModel(c))

\* What the place of a request says of its kind and of its thread in Windows and
\* in Approvals.
Placed(c) ==
  /\ At(c, "using") <=> pc[c] # "idle"
  /\ At(c, "using") =>
       kind[c] \in {"read", "write"} /\ pc[c] \notin {"status", "reporting"}
  /\ pc[c] = "use" => asks[c] = KeyOf[c].group
  /\ At(c, "asking") => kind[c] = "write" /\ step[c] \notin A!Final
  /\ step[c] # "new" => kind[c] = "write" /\ handler[c] \notin {"new", "using"}
  /\ step[c] \in A!Listed => At(c, "asking")

\* The handlers agree with the two objects they share: a call that the person
\* can decide on is a write whose handler waits for it, and whoever has closings
\* to report is still inside Windows.  The refinement below rests on it.
\* (claude_gateway.py check, request; access.py use, revoke, status_lines)
GatewayInv ==
  /\ TypeOK
  /\ W!ReportsOK
  /\ A!ApprovalsInv
  /\ \A c \in Requests : Placed(c)

\* The gateway keeps the promise of Consent: whatever the order of the requests,
\* of the decisions, of the timeouts and of the closings, a call of a tool that runs
\* was let through by its open group, a write that runs was wanted by the person,
\* and a call given up before it was let through never runs.
\* (claude_gateway.py check, request, decide, _client_gone; access.py use)
CallAt(point) ==
  CASE point = "new" -> "none"
    [] point = "using" -> "received"
    [] point = "asking" -> "admitted"
    [] point = "checked" -> "cleared"
    [] point = "forwarding" -> "through"
    [] point = "sent" -> "run"
    [] point \in Final -> "over"

\* windows.use has let the call through, but has not returned yet.
Granted(c) == At(c, "using") /\ pc[c] = "using"

CallOf(c) == IF Granted(c) THEN "admitted" ELSE CallAt(handler[c])

C == INSTANCE Consent WITH open <- {g \in Groups : opened[g] # None},
                           word <- answered,
                           permit <- announced,
                           call <- [c \in Requests |-> CallOf(c)]

ImplementsConsent == C!Spec
=============================================================================
