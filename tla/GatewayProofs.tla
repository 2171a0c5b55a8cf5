---------------------------- MODULE GatewayProofs ---------------------------
(***************************************************************************)
(* Theorems about Gateway and GatewayHistory, for any requests, commands,  *)
(* keys and durations, and about Relay, one connection of the gateway.     *)
(* The lemmas of WindowsProofs and ApprovalsProofs are used through        *)
(* instances; the history variables of WindowsLease play no part in those  *)
(* cited here.                                                             *)
(***************************************************************************)
EXTENDS GatewayHistory, Relay, TLAPS

AP == INSTANCE ApprovalsProofs WITH Calls <- Requests
WP == INSTANCE WindowsProofs WITH OtherKeys <- {}, authority <- opened,
                                  touched <- lastUsed

-----------------------------------------------------------------------------
\* The lemmas on the two objects, under the names of Gateway.

LEMMA Assumptions ==
  /\ \A c \in Requests : {"group", "tool", "agent"} = DOMAIN KeyOf[c]
  /\ /\ Timeout \in Nat
     /\ Allowances \subseteq Nat
     /\ MaxTime \in Nat
     /\ None \notin Nat
     /\ None # "approved" /\ None # "denied"
  /\ /\ IdleLimit \in Nat
     /\ MaxLimit \in Nat
     /\ NotifyInterval \in Nat \ {0}
     /\ MaxTime \in Nat
     /\ None \notin Int
BY GatewayAssumption

LEMMA ApprovalsInit == A!Init => A!ApprovalsInv
BY GatewayAssumption
   DEF A!Init, A!ApprovalsInv, A!TypeOK, A!LastAnswerHolds, A!Consistent,
       A!NoneUnannounced, A!Times, A!Steps, A!Final, A!Granting, A!Refusing,
       A!Answers, A!Listed, A!At

LEMMA ApprovalsNext == A!ApprovalsInv /\ [A!Next]_(A!vars) => A!ApprovalsInv'
<1> SUFFICES ASSUME A!ApprovalsInv, [A!Next]_(A!vars) PROVE A!ApprovalsInv'
  OBVIOUS
<1>1. AP!ApprovalsInv /\ (AP!ApprovalsInv' => A!ApprovalsInv')
  BY DEF A!ApprovalsInv, A!TypeOK, A!LastAnswerHolds, A!Consistent, A!NoneUnannounced,
         A!Keys, A!Times, A!Steps, A!Final, A!Granting, A!Refusing, A!Answers, A!Listed,
         A!TimedOut, A!At,
         AP!ApprovalsInv, AP!TypeOK, AP!LastAnswerHolds, AP!Consistent,
         AP!NoneUnannounced,
         AP!Keys, AP!Times, AP!Steps, AP!Final, AP!Granting, AP!Refusing, AP!Answers,
         AP!Listed, AP!TimedOut, AP!At
<1>2. [AP!Next]_(AP!vars)
  BY DEF A!Next, A!Request, A!Continue, A!StartWait, A!Wake, A!Leave, A!Outcome,
         A!Approve,
         A!ApproveTool, A!Deny, A!Decide, A!Latest, A!Forget, A!Tick, A!Allowed, A!At,
         A!Goto,
         A!Keys, A!Groups, A!vars, A!state, A!told,
         AP!Next, AP!Request, AP!Continue, AP!StartWait, AP!Wake, AP!Leave, AP!Outcome,
         AP!Approve, AP!ApproveTool, AP!Deny, AP!Decide, AP!Latest, AP!Forget, AP!Tick,
         AP!Allowed, AP!At, AP!Goto, AP!Keys, AP!Groups, AP!vars, AP!state, AP!told
<1>3. QED
  BY <1>1, <1>2, Assumptions, AP!InvNext

LEMMA WindowsInit == W!Init => W!TypeOK /\ W!ReportsOK
BY DEF W!Init, W!TypeOK, W!ReportsOK, W!Times, W!Points

LEMMA WindowsNext ==
  W!TypeOK /\ W!ReportsOK /\ [W!Next]_(W!vars) => (W!TypeOK /\ W!ReportsOK)'
<1> SUFFICES ASSUME W!TypeOK, W!ReportsOK, [W!Next]_(W!vars)
             PROVE  (W!TypeOK /\ W!ReportsOK)'
  OBVIOUS
<1>1. /\ WP!TypeOK /\ WP!ReportsOK
      /\ (WP!TypeOK /\ WP!ReportsOK)' => (W!TypeOK /\ W!ReportsOK)'
  BY DEF W!TypeOK, W!ReportsOK, W!Times, W!Keys, W!Points,
         WP!TypeOK, WP!ReportsOK, WP!Times, WP!Keys, WP!Points
<1>2. [WP!Next]_(WP!vars)
  BY DEF W!Next, W!Tick, W!Begin, W!Open, W!Revoke, W!CloseAll, W!UseCall, W!NotifyCall,
         W!StatusCall, W!Continue, W!UseLocked, W!Report, W!NotifyRefusal, W!NotifyLocked,
         W!StatusLocked, W!Return, W!ReadClock, W!MayNotify, W!Close, W!Expired, W!IsOpen,
         W!Without, W!At, W!Goto, W!vars, W!object, W!locals,
         WP!Next, WP!Tick, WP!Begin, WP!Open, WP!Revoke, WP!CloseAll, WP!UseCall,
         WP!NotifyCall, WP!StatusCall, WP!Continue, WP!UseLocked, WP!Report,
         WP!NotifyRefusal, WP!NotifyLocked, WP!StatusLocked, WP!Return, WP!ReadClock,
         WP!MayNotify, WP!Close, WP!Expired, WP!IsOpen, WP!Without, WP!At, WP!Goto,
         WP!vars, WP!object, WP!locals
<1>3. QED
  BY <1>1, <1>2, Assumptions, WP!TypeNext, WP!ReportsNext

-----------------------------------------------------------------------------
\* A step of the gateway is one of Windows or leaves it alone, and one of
\* Approvals or leaves it alone.

LEMMA AGroups == A!Groups = Groups
BY DEF A!Groups, A!Keys, Groups

LEMMA InsideStep ==
  ASSUME NEW t \in Threads, Inside(t)
  PROVE  W!Continue(t) /\ [A!Next]_(A!vars) /\ UNCHANGED service
<1>1. ASSUME NEW g \in Groups, Report(t, g) PROVE W!Continue(t) /\ A!Next
  BY <1>1, AGroups DEF Report, W!Continue, A!Next
<1>2. CASE /\ W!UseLocked(t) \/ W!StatusLocked(t) \/ W!NotifyRefusal(t) \/ W!NotifyLocked(t)
           /\ UNCHANGED <<approvalState, service>>
  <2>1. W!Continue(t)
    BY <1>2 DEF W!Continue
  <2>2. UNCHANGED clock
    BY <1>2 DEF W!UseLocked, W!StatusLocked, W!NotifyRefusal, W!NotifyLocked, W!ReadClock
  <2>3. QED
    BY <1>2, <2>1, <2>2 DEF A!vars, A!state, A!told, approvalState
<1>3. QED
  BY <1>1, <1>2 DEF Inside, Report

LEMMA RequestStep ==
  ASSUME NEW c \in Requests,
         Receive(c) \/ Serve(c) \/ Relay(c) \/ GiveUp(c) \/ Decide(c)
  PROVE  /\ W!Begin(c) \/ W!Continue(c) \/ UNCHANGED W!vars
         /\ [A!Next]_(A!vars)
<1> c \in Threads /\ KeyOf[c].group \in Groups
  BY DEF Threads, Groups
<1> USE DEF W!vars, W!object, W!locals, windowState, A!vars, A!state, A!told,
            approvalState
<1>1. CASE Receive(c)
  BY <1>1 DEF Receive, W!UseCall, W!ReadClock, W!Begin
<1>2. CASE AfterUse(c)
  BY <1>2 DEF AfterUse, W!Return, W!Continue
<1>3. CASE Ask(c)
  BY <1>3 DEF Ask, A!Next, A!Request, A!Continue, A!StartWait, A!Wake, A!Leave
<1>4. CASE CheckClient(c) \/ Send(c) \/ Relay(c) \/ GiveUp(c)
  BY <1>4 DEF CheckClient, Send, Relay, GiveUp
<1>5. CASE Inside(c)
  BY <1>5, InsideStep
<1>6. CASE Decide(c)
  BY <1>6 DEF Decide, A!Next, A!Approve, A!ApproveTool, A!Deny, A!Decide
<1>7. QED
  BY <1>1, <1>2, <1>3, <1>4, <1>5, <1>6 DEF Serve

LEMMA CommandStep ==
  ASSUME NEW a \in Admins, Command(a)
  PROVE  /\ W!Begin(a) \/ W!Continue(a)
         /\ [A!Next]_(A!vars)
         /\ UNCHANGED service
<1> a \in Threads
  BY DEF Threads
<1>1. CASE Inside(a)
  BY <1>1, InsideStep
<1>2. CASE ~Inside(a)
  <2>1. W!Begin(a) \/ W!Return(a)
    BY <1>2 DEF Command, Allow, Revoke, Status, EndCommand, W!Begin
  <2>2. UNCHANGED clock /\ UNCHANGED <<approvalState, service>>
    BY <1>2 DEF Command, Allow, Revoke, Status, EndCommand, W!Open, W!Revoke,
                W!StatusCall,
       W!ReadClock, W!Return
  <2>3. QED
    BY <2>1, <2>2 DEF W!Continue, A!vars, A!state, A!told, approvalState
<1>3. QED
  BY <1>1, <1>2

LEMMA ObjectSteps == [Next]_vars => [W!Next]_(W!vars) /\ [A!Next]_(A!vars)
<1> SUFFICES ASSUME [Next]_vars PROVE [W!Next]_(W!vars) /\ [A!Next]_(A!vars)
  OBVIOUS
<1>1. CASE Tick
  BY <1>1 DEF Tick, W!Tick, W!Next, A!Tick, A!Next, A!state, A!told, approvalState
<1>2. CASE UNCHANGED vars
  BY <1>2 DEF vars, windowState, approvalState, W!vars, W!object, W!locals,
              A!vars, A!state, A!told
<1>3. QED
  BY <1>1, <1>2, RequestStep, CommandStep DEF Next, W!Next, Threads

\* The gateway uses its two objects as their specifications say: what is proved
\* of Windows and of Approvals holds in it.
THEOREM ObjectsUsed == Spec => W!Spec /\ A!Spec
<1>1. Init => W!Init /\ A!Init
  BY DEF Init
<1>2. QED
  BY <1>1, ObjectSteps, PTL DEF Spec, W!Spec, A!Spec

-----------------------------------------------------------------------------
\* The inductive invariant of the gateway.

\* A thread of Windows moves itself only.
LEMMA OtherThreads ==
  ASSUME W!TypeOK, NEW t \in Threads, W!Begin(t) \/ W!Continue(t),
         NEW u \in Threads, u # t
  PROVE  pc'[u] = pc[u] /\ toReport'[u] = toReport[u] /\ asks'[u] = asks[u]
BY DEF W!TypeOK, W!Begin, W!Continue, W!Open, W!Revoke, W!UseCall, W!CloseAll,
       W!NotifyCall,
       W!StatusCall, W!ReadClock, W!UseLocked, W!Report, W!NotifyRefusal, W!NotifyLocked,
       W!StatusLocked, W!Return, W!At, W!Goto, W!object, W!locals

LEMMA GatewayInit == Init => GatewayInv
<1> SUFFICES ASSUME Init PROVE GatewayInv
  OBVIOUS
<1>1. W!TypeOK /\ W!ReportsOK /\ A!ApprovalsInv
  BY WindowsInit, ApprovalsInit DEF Init
<1>2. TypeOK /\ \A c \in Requests : Placed(c)
  BY <1>1 DEF Init, TypeOK, Placed, At, Points, A!ApprovalsInv, A!Init, A!Listed,
              W!Init, Threads
<1>3. QED
  BY <1>1, <1>2 DEF GatewayInv

\* What a step of the request c may change of the places.
LEMMA HandlersNext ==
  ASSUME GatewayInv, NEW c \in Requests,
         Receive(c) \/ Serve(c) \/ Relay(c) \/ GiveUp(c) \/ Decide(c)
  PROVE  /\ handler' \in [Requests -> Points]
         /\ kind' \in [Requests -> Kinds \cup {None}]
         /\ gone' \subseteq Requests
         /\ \A d \in Requests \ {c} :
              handler'[d] = handler[d] /\ kind'[d] = kind[d] /\ step'[d] = step[d]
         /\ Placed(c)'
<1> c \in Threads /\ Placed(c)
  BY DEF Threads, GatewayInv
<1> USE DEF GatewayInv, TypeOK, W!TypeOK, A!ApprovalsInv, A!TypeOK, Points, Final, Placed,
            At, Goto, W!At, W!Goto, A!At, A!Goto, windowState, approvalState, service
<1>1. CASE Receive(c)
  BY <1>1 DEF Receive, W!UseCall, W!ReadClock
<1>2. CASE AfterUse(c)
  BY <1>2 DEF AfterUse, W!Return, A!Final, A!Granting, A!Refusing
<1>3. CASE Ask(c)
  BY <1>3 DEF Ask, Decided, A!Request, A!Continue, A!StartWait, A!Wake, A!Leave,
              A!Outcome,
     A!Steps, A!Final, A!Granting, A!Refusing, A!Listed
<1>4. CASE CheckClient(c) \/ Send(c) \/ Relay(c) \/ GiveUp(c)
  BY <1>4 DEF CheckClient, Send, Relay, GiveUp
<1>5. CASE Inside(c)
  BY <1>5 DEF Inside, Report, W!UseLocked, W!StatusLocked, W!NotifyRefusal,
              W!NotifyLocked,
     W!ReadClock, W!Report, A!Forget
<1>6. CASE Decide(c)
  BY <1>6 DEF Decide, A!Approve, A!ApproveTool, A!Deny, A!Decide
<1>7. QED
  BY <1>1, <1>2, <1>3, <1>4, <1>5, <1>6 DEF Serve

LEMMA GatewayNext == GatewayInv /\ [Next]_vars => GatewayInv'
<1> SUFFICES ASSUME GatewayInv, [Next]_vars PROVE GatewayInv'
  OBVIOUS
<1>1. W!TypeOK' /\ W!ReportsOK' /\ A!ApprovalsInv'
  BY ObjectSteps, WindowsNext, ApprovalsNext DEF GatewayInv, TypeOK
<1>2. A!TypeOK'
  BY <1>1 DEF A!ApprovalsInv
<1>3. ASSUME NEW c \in Requests,
             Receive(c) \/ Serve(c) \/ Relay(c) \/ GiveUp(c) \/ Decide(c)
      PROVE  GatewayInv'
  <2>1. ASSUME NEW d \in Requests, d # c PROVE pc'[d] = pc[d] /\ asks'[d] = asks[d]
    BY <1>3, <2>1, RequestStep, OtherThreads
       DEF GatewayInv, TypeOK, Threads, W!vars, W!locals
  <2>2. \A d \in Requests : Placed(d)'
    BY <1>3, <2>1, HandlersNext DEF GatewayInv, Placed, At
  <2>3. QED
    BY <1>1, <1>2, <1>3, <2>2, HandlersNext DEF GatewayInv, TypeOK
<1>4. ASSUME UNCHANGED <<handler, kind, gone, step>>,
             \A c \in Requests : pc'[c] = pc[c] /\ asks'[c] = asks[c]
      PROVE  GatewayInv'
  BY <1>1, <1>2, <1>4 DEF GatewayInv, TypeOK, Placed, At
<1>5. ASSUME NEW a \in Admins, Command(a) PROVE GatewayInv'
  <2>1. \A c \in Requests : pc'[c] = pc[c] /\ asks'[c] = asks[c]
    BY <1>5, CommandStep, OtherThreads, GatewayAssumption DEF GatewayInv, TypeOK, Threads
  <2>2. UNCHANGED step
    BY <1>5 DEF Command, Inside, Report, Allow, Revoke, Status, EndCommand, A!Forget,
       approvalState
  <2>3. QED
    BY <1>4, <1>5, <2>1, <2>2, CommandStep DEF service
<1>6. CASE Tick
  BY <1>4, <1>6 DEF Tick, W!Tick, W!locals, approvalState, service
<1>7. CASE UNCHANGED vars
  BY <1>4, <1>7 DEF vars, windowState, approvalState, service
<1>8. QED
  BY <1>3, <1>5, <1>6, <1>7 DEF Next

\* The handlers agree with Windows and Approvals at every point, for any number
\* of requests and commands.
THEOREM Consistency == Spec => []GatewayInv
<1>1. QED
  BY GatewayInit, GatewayNext, PTL DEF Spec

-----------------------------------------------------------------------------
\* The allowances of a closed group are forgotten.

\* Whoever closes a group has it to report.
LEMMA ClosingReported ==
  ASSUME GatewayInv, [Next]_vars, NEW g \in Groups, Closed(g)
  PROVE  \E t \in Threads : g \in toReport'[t]
<1> USE DEF GatewayInv, TypeOK, W!TypeOK, W!Times
<1>1. opened' # opened
  BY DEF Closed
<1>2. PICK t \in Threads : \/ W!UseLocked(t) \/ W!StatusLocked(t)
                           \/ \E h \in Groups : W!Open(t, h) \/ W!Revoke(t, {h})
                           \/ W!Revoke(t, Groups)
  <2>1. CASE \E c \in Requests :
               Receive(c) \/ Serve(c) \/ Relay(c) \/ GiveUp(c) \/ Decide(c)
    BY <1>1, <2>1
       DEF Threads, Receive, Serve, AfterUse, Ask, CheckClient, Send, Relay, GiveUp,
           Decide,
           Inside, Report, W!UseCall, W!Return, W!NotifyRefusal, W!NotifyLocked,
           W!ReadClock,
           W!Report, W!object, windowState
  <2>2. CASE \E a \in Admins : Command(a)
    BY <1>1, <2>2
       DEF Threads, Command, Allow, Revoke, Status, EndCommand, Inside, Report,
           W!StatusCall,
           W!Return, W!NotifyRefusal, W!NotifyLocked, W!ReadClock, W!Report, W!object
  <2>3. QED
    BY <1>1, <2>1, <2>2 DEF Next, Tick, W!Tick, W!object, vars, windowState
<1>3. CASE W!UseLocked(t) \/ W!StatusLocked(t)
  BY <1>3 DEF Closed, W!UseLocked, W!StatusLocked, W!Close, W!Without
<1>4. ASSUME NEW h \in Groups, W!Open(t, h) PROVE FALSE
  BY <1>4, GatewayAssumption DEF Closed, W!Open
<1>5. ASSUME NEW S \in SUBSET Groups, W!Revoke(t, S) PROVE g \in toReport'[t]
  BY <1>5 DEF Closed, W!Revoke, W!Close, W!Without, W!IsOpen
<1>6. QED
  BY <1>2, <1>3, <1>4, <1>5

\* What a thread has to report goes by its report only.
LEMMA ReportedOnly ==
  ASSUME GatewayInv, [Next]_vars, NEW t \in Threads, NEW g \in toReport[t],
         g \notin toReport'[t]
  PROVE  Report(t, g)
<1> USE DEF GatewayInv, TypeOK, W!TypeOK
<1>1. pc[t] \in {"using", "refusing", "reporting"}
  BY DEF W!ReportsOK
<1>2. W!Begin(t) \/ W!Continue(t)
  BY RequestStep, CommandStep, OtherThreads
     DEF Next, Threads, Tick, W!Tick, W!locals, W!vars, vars, windowState
<1>3. ASSUME NEW u \in Threads, Inside(u) PROVE Report(t, g)
  <2>1. u = t
    BY <1>3, InsideStep, OtherThreads
  <2>2. QED
    BY <1>1, <1>3, <2>1 DEF Inside, Report, W!UseLocked, W!StatusLocked, W!NotifyRefusal,
       W!NotifyLocked, W!ReadClock, W!Report, W!At
<1>4. CASE \E c \in Requests :
             Receive(c) \/ Serve(c) \/ Relay(c) \/ GiveUp(c) \/ Decide(c)
  BY <1>3, <1>4 DEF Threads, Receive, Serve, AfterUse, Ask, CheckClient, Send, Relay,
                    GiveUp,
     Decide, W!UseCall, W!Return, W!ReadClock, windowState
<1>5. ASSUME NEW a \in Admins, Command(a), ~Inside(a) PROVE FALSE
  <2>1. CASE a = t
    BY <1>1, <1>5, <2>1 DEF Command, Allow, Revoke, Status, EndCommand, W!Open, W!Revoke,
       W!StatusCall, W!Return, W!At
  <2>2. CASE a # t
    BY <1>5, <2>2, CommandStep, OtherThreads DEF Threads
  <2>3. QED
    BY <2>1, <2>2
<1>6. QED
  BY <1>3, <1>4, <1>5 DEF Next, Threads, Tick, W!Tick, W!locals, vars, windowState

LEMMA OutlivedNext ==
  GatewayInv /\ ClosedAllowancesForgotten /\ [HNext]_hvars => ClosedAllowancesForgotten'
<1> SUFFICES ASSUME GatewayInv, ClosedAllowancesForgotten, [HNext]_hvars,
                    NEW k \in outlived'
             PROVE  \E t \in Threads : k.group \in toReport'[t]
  BY DEF ClosedAllowancesForgotten, Threads
<1>1. CASE UNCHANGED hvars
  BY <1>1 DEF ClosedAllowancesForgotten, hvars, vars, windowState
<1>2. CASE HNext
  <2>1. /\ [Next]_vars /\ k \in A!Keys /\ allowedUntil'[k] # None
        /\ k \in outlived \/ Closed(k.group)
    BY <1>2 DEF HNext
  <2>2. k.group \in Groups
    BY <2>1 DEF A!Keys, Groups
  <2>3. CASE Closed(k.group)
    BY <2>1, <2>2, <2>3, ClosingReported
  <2>4. CASE k \in outlived
    <3>1. PICK t \in Threads : k.group \in toReport[t]
      BY <2>4 DEF ClosedAllowancesForgotten
    <3>2. ASSUME k.group \notin toReport'[t] PROVE FALSE
      <4>1. A!Forget(k.group)
        BY <2>1, <3>1, <3>2, ReportedOnly DEF Report
      <4>2. QED
        BY <2>1, <4>1 DEF A!Forget
    <3>3. QED
      BY <3>2
  <2>5. QED
    BY <2>1, <2>3, <2>4
<1>3. QED
  BY <1>1, <1>2

\* An allowance outlives the closing of its group only as long as the thread
\* that closed it hasn't reported it, for any number of threads and groups.
THEOREM Forgotten == HSpec => []ClosedAllowancesForgotten
<1>1. HInit => GatewayInv /\ ClosedAllowancesForgotten
  BY GatewayInit DEF HInit, ClosedAllowancesForgotten
<1>2. [HNext]_hvars => [Next]_vars
  BY DEF HNext, hvars
<1>3. QED
  BY <1>1, <1>2, GatewayNext, OutlivedNext, PTL DEF HSpec

-----------------------------------------------------------------------------
\* The gateway implements Consent.

LEMMA ConsentInit == Init => C!Init
BY DEF Init, W!Init, A!Init, C!Init, CallOf, Granted, At, CallAt, Final, A!Keys, C!Keys,
       Groups

\* A step of a request leaves the threads of the others where they are.
LEMMA OtherRequests ==
  ASSUME GatewayInv, NEW c \in Requests, Receive(c) \/ Serve(c) \/ Relay(c),
         NEW d \in Requests, d # c
  PROVE  pc'[d] = pc[d]
BY RequestStep, OtherThreads DEF GatewayInv, TypeOK, Threads, W!vars, W!locals

\* A move of a handler is one of its call.
LEMMA CallMoves ==
  ASSUME GatewayInv, NEW c \in Requests, Receive(c) \/ Serve(c) \/ Relay(c),
         NEW point \in Points, Goto(c, point), point = "using" => pc'[c] # "using"
  PROVE  C!Goto(c, CallAt(point))
<1>1. \A d \in Requests : handler'[d] = IF d = c THEN point ELSE handler[d]
  BY DEF Goto, GatewayInv, TypeOK
<1>2. \A d \in Requests : CallOf(d)' = IF d = c THEN CallAt(point) ELSE CallOf(d)
  BY <1>1, OtherRequests DEF CallOf, Granted, At
<1>3. QED
  BY <1>2 DEF C!Goto

LEMMA ReceiveRefines ==
  ASSUME GatewayInv, NEW c \in Requests, Receive(c)
  PROVE  C!Receive(c)
<1> USE DEF GatewayInv, TypeOK, Points, Final
<1>1. PICK k \in Kinds : kind' = [kind EXCEPT ![c] = k]
  BY DEF Receive
<1>2. UNCHANGED <<clock, answered, announced, gone, opened>>
  BY DEF Receive, W!UseCall, W!ReadClock, W!object, approvalState, windowState
<1>3. CallOf(c) = "none"
  BY DEF Receive, At, CallOf, Granted, CallAt
<1>4. kind'[c] = k
  BY <1>1
<1>5. CASE k = "denied"
  <2>1. C!Goto(c, "over")
    BY <1>4, <1>5, CallMoves DEF Receive, CallAt
  <2>2. QED
    BY <1>1, <1>2, <1>3, <1>5, <2>1 DEF C!Receive, C!Kinds, Kinds
<1>6. CASE k = "other"
  <2>1. C!Goto(c, "through")
    BY <1>4, <1>6, CallMoves DEF Receive, CallAt
  <2>2. QED
    BY <1>1, <1>2, <1>3, <1>6, <2>1 DEF C!Receive, C!Kinds, Kinds
<1>7. CASE k \in {"read", "write"}
  <2>1. Goto(c, "using") /\ pc'[c] # "using"
    BY <1>4, <1>7 DEF Receive, W!UseCall, W!ReadClock, W!Goto, W!TypeOK, Threads
  <2>2. C!Goto(c, "received")
    BY <2>1, CallMoves DEF CallAt
  <2>3. QED
    BY <1>1, <1>2, <1>3, <1>7, <2>2 DEF C!Receive, C!Kinds, Kinds
<1>8. QED
  BY <1>5, <1>6, <1>7 DEF Kinds

LEMMA AfterUseRefines ==
  ASSUME GatewayInv, NEW c \in Requests, AfterUse(c)
  PROVE  C!End(c) \/ C!Clear(c) \/ UNCHANGED C!vars
<1> USE DEF Points, Final
<1>1. UNCHANGED <<clock, opened, answered, announced, kind, gone>> /\ Serve(c)
  BY DEF AfterUse, W!Return, W!object, approvalState, Serve
<1>2. At(c, "using") /\ pc[c] \in {"refused", "using"}
  BY DEF AfterUse, W!Return, W!At, GatewayInv, Placed
<1>3. CASE pc[c] = "refused"
  <2>1. C!Goto(c, "over")
    BY <1>1, <1>3, CallMoves DEF AfterUse, CallAt
  <2>2. CallOf(c) = "received"
    BY <1>2, <1>3 DEF CallOf, Granted, At, CallAt
  <2>3. QED
    BY <1>1, <2>1, <2>2 DEF C!End
<1>4. CASE pc[c] # "refused"
  <2>1. CallOf(c) = "admitted"
    BY <1>2, <1>4 DEF CallOf, Granted
  <2>2. CASE kind[c] = "read"
    <3>1. C!Goto(c, "cleared")
      BY <1>1, <1>4, <2>2, CallMoves DEF AfterUse, CallAt
    <3>2. QED
      BY <1>1, <2>1, <2>2, <3>1 DEF C!Clear, C!MayRun
  <2>3. CASE kind[c] # "read"
    <3>1. C!Goto(c, "admitted")
      BY <1>1, <1>4, <2>3, CallMoves DEF AfterUse, CallAt
    <3>2. QED
      BY <1>1, <2>1, <3>1 DEF C!Goto, C!vars
  <2>4. QED
    BY <2>2, <2>3
<1>5. QED
  BY <1>3, <1>4

LEMMA AskRefines ==
  ASSUME GatewayInv, NEW c \in Requests, Ask(c)
  PROVE  C!End(c) \/ C!Clear(c) \/ UNCHANGED C!vars
<1> USE DEF GatewayInv, TypeOK, Points, Final
<1>1. UNCHANGED <<clock, opened, answered, announced, kind, gone>> /\ Serve(c)
  BY DEF Ask, A!Request, A!Continue, A!StartWait, A!Wake, A!Leave, A!told, windowState,
         Serve
<1>2. CallOf(c) = "admitted" /\ kind[c] = "write"
  BY DEF Ask, At, CallOf, Granted, CallAt, Placed
<1>3. CASE step'[c] \in A!Granting
  <2>1. C!Goto(c, "cleared")
    BY <1>1, <1>3, CallMoves DEF Ask, Decided, CallAt
  <2>2. C!MayRun(c)
    <3>1. CASE A!Request(c)
      <4>1. answered[c] = None /\ A!Allowed(KeyOf[c])
        BY <1>3, <3>1 DEF A!Request, A!ApprovalsInv, A!TypeOK, A!Consistent, A!Granting,
           A!At, A!Goto
      <4>2. KeyOf[c] \in A!Keys
        BY DEF A!Keys
      <4>3. C!Permitted(KeyOf[c])
        BY <4>1, <4>2, GatewayAssumption
           DEF C!Permitted, A!Allowed, A!ApprovalsInv, A!TypeOK, A!NoneUnannounced,
               A!Times
      <4>4. QED
        BY <1>2, <4>1, <4>3 DEF C!MayRun
    <3>2. CASE A!Continue(c)
      <4>1. answered[c] = "approved"
        BY <1>3, <3>2 DEF A!Continue, A!StartWait, A!Wake, A!Leave, A!Outcome,
                          A!ApprovalsInv,
           A!TypeOK, A!Consistent, A!Granting, A!At, A!Goto
      <4>2. QED
        BY <1>2, <4>1 DEF C!MayRun
    <3>3. QED
      BY <3>1, <3>2 DEF Ask
  <2>3. QED
    BY <1>1, <1>2, <2>1, <2>2 DEF C!Clear
<1>4. CASE step'[c] \in A!Refusing
  <2>1. C!Goto(c, "over")
    BY <1>1, <1>4, CallMoves DEF Ask, Decided, CallAt, A!Granting, A!Refusing
  <2>2. QED
    BY <1>1, <1>2, <2>1 DEF C!End
<1>5. CASE step'[c] \notin A!Granting \cup A!Refusing
  <2>1. C!Goto(c, "admitted")
    BY <1>1, <1>5, CallMoves DEF Ask, Decided, CallAt
  <2>2. QED
    BY <1>1, <1>2, <2>1 DEF C!Goto, C!vars
<1>6. QED
  BY <1>3, <1>4, <1>5

LEMMA ForwardRefines ==
  ASSUME GatewayInv, NEW c \in Requests, CheckClient(c) \/ Send(c) \/ Relay(c)
  PROVE  C!LetThrough(c) \/ C!Run(c) \/ C!End(c)
<1> USE DEF GatewayInv, TypeOK, Points, Final
<1>1. /\ UNCHANGED <<clock, opened, answered, announced, kind, gone>>
      /\ Serve(c) \/ Relay(c)
  BY DEF CheckClient, Send, Relay, approvalState, windowState, Serve
<1>2. CASE CheckClient(c)
  <2>1. CallOf(c) = "cleared"
    BY <1>2 DEF CheckClient, At, CallOf, Granted, CallAt
  <2>2. CASE c \in gone
    <3>1. C!Goto(c, "over")
      BY <1>1, <1>2, <2>2, CallMoves DEF CheckClient, CallAt
    <3>2. QED
      BY <1>1, <2>1, <3>1 DEF C!End
  <2>3. CASE c \notin gone
    <3>1. C!Goto(c, "through")
      BY <1>1, <1>2, <2>3, CallMoves DEF CheckClient, CallAt
    <3>2. QED
      BY <1>1, <2>1, <2>3, <3>1 DEF C!LetThrough
  <2>4. QED
    BY <2>2, <2>3
<1>3. CASE Send(c)
  <2>1. CallOf(c) = "through"
    BY <1>3 DEF Send, At, CallOf, Granted, CallAt
  <2>2. C!Goto(c, "run") \/ C!Goto(c, "over")
    BY <1>1, <1>3, CallMoves DEF Send, CallAt
  <2>3. QED
    BY <1>1, <2>1, <2>2 DEF C!Run, C!End
<1>4. CASE Relay(c)
  <2>1. CallOf(c) = "run"
    BY <1>4 DEF Relay, At, CallOf, Granted, CallAt
  <2>2. C!Goto(c, "over")
    BY <1>1, <1>4, CallMoves DEF Relay, CallAt
  <2>3. QED
    BY <1>1, <2>1, <2>2 DEF C!End
<1>5. QED
  BY <1>2, <1>3, <1>4

LEMMA DecideRefines ==
  ASSUME GatewayInv, NEW c \in Requests, Decide(c)
  PROVE  \E said \in {"approved", "denied"} : C!Say(c, said)
<1> USE DEF GatewayInv, TypeOK
<1>1. PICK approve \in BOOLEAN, minutes \in Allowances \cup {None} :
        A!Decide(c, approve, minutes) /\ (minutes = None \/ approve)
  BY DEF Decide, A!Approve, A!ApproveTool, A!Deny
<1> DEFINE said == IF approve THEN "approved" ELSE "denied"
           k == KeyOf[c]
<1>2. c \in pending /\ UNCHANGED <<clock, opened, pc, handler, kind, gone>>
  BY <1>1 DEF A!Decide, Decide, service, windowState
<1>3. kind[c] = "write" /\ CallOf(c) = "admitted"
  <2>1. At(c, "asking") /\ Placed(c)
    BY <1>2 DEF Placed, A!ApprovalsInv, A!Consistent
  <2>2. QED
    BY <2>1 DEF Placed, At, CallOf, Granted, CallAt, Final
<1>a. UNCHANGED <<{g \in Groups : opened[g] # None}, [d \in Requests |-> CallOf(d)]>>
  BY <1>2 DEF CallOf, Granted, At
<1>4. answered' = [answered EXCEPT ![c] = said]
  BY <1>1 DEF A!Decide
<1>5. CASE minutes = None
  <2>1. UNCHANGED announced
    BY <1>1, <1>5 DEF A!Decide
  <2>2. QED
    BY <1>2, <1>3, <1>a, <1>4, <2>1 DEF C!Say
<1>6. CASE minutes # None
  <2> DEFINE until == A!Latest(announced[k], clock + minutes)
  <2>1. announced' = [announced EXCEPT ![k] = until]
    BY <1>1, <1>6 DEF A!Decide
  <2>2. k \in A!Keys /\ announced \in [A!Keys -> A!Times]
    BY DEF A!Keys, A!ApprovalsInv, A!TypeOK
  <2>3. until \in Nat
    BY <1>6, <2>2, GatewayAssumption DEF A!Latest, A!Times, A!ApprovalsInv, A!TypeOK
  <2>4. announced'[k] = until
    BY <2>1, <2>2
  <2>5. QED
    BY <1>1, <1>2, <1>3, <1>a, <1>4, <1>6, <2>1, <2>3, <2>4 DEF C!Say
<1>7. QED
  BY <1>5, <1>6

\* A call is admitted when windows.use lets it through; any other step inside Windows, of
\* a request or of a command, changes the open groups at most.
LEMMA InsideRefines ==
  ASSUME GatewayInv, NEW t \in Threads, Inside(t)
  PROVE  (t \in Requests /\ C!Admit(t)) \/ C!ChangeGroups
<1> DEFINE Open == {g \in Groups : opened[g] # None}
<1>1. UNCHANGED <<clock, answered, announced, handler, kind, gone>>
  BY DEF Inside, Report, W!UseLocked, W!StatusLocked, W!NotifyRefusal, W!NotifyLocked,
         W!ReadClock, W!Report, A!Forget, A!told, approvalState, service
<1>2. \A d \in Requests \ {t} : pc'[d] = pc[d]
  BY InsideStep, OtherThreads DEF GatewayInv, TypeOK, Threads
<1>3. \A d \in Requests \ {t} : CallOf(d)' = CallOf(d)
  BY <1>1, <1>2 DEF CallOf, Granted, At
<1>4. CASE t \in Requests /\ W!UseLocked(t) /\ pc'[t] = "using"
  <2>1. /\ pc[t] = "use" /\ At(t, "using") /\ asks[t] = KeyOf[t].group
        /\ KeyOf[t].group \in Groups
    BY <1>4 DEF W!UseLocked, W!At, GatewayInv, Placed, Groups
  <2>2. CallOf(t) = "received" /\ CallOf(t)' = "admitted"
    BY <1>1, <1>4, <2>1 DEF CallOf, Granted, At, CallAt, Final
  <2>3. /\ KeyOf[t].group \in Open /\ KeyOf[t].group \in Open' /\ Open' \subseteq Open
    BY <1>4, <2>1 DEF W!UseLocked, W!Without, W!IsOpen, W!Goto, GatewayInv, TypeOK, W!TypeOK
  <2>4. C!Goto(t, "admitted")
    BY <1>3, <1>4, <2>2 DEF C!Goto
  <2>5. QED
    BY <1>1, <1>4, <2>2, <2>3, <2>4 DEF C!Admit
<1>5. CASE ~(t \in Requests /\ W!UseLocked(t) /\ pc'[t] = "using")
  <2>1. t \in Requests => (pc'[t] = "using" <=> pc[t] = "using")
    BY <1>5 DEF Inside, Report, W!UseLocked, W!StatusLocked, W!NotifyRefusal,
                W!NotifyLocked, W!ReadClock, W!Report, W!At, W!Goto, GatewayInv, TypeOK,
                W!TypeOK
  <2>2. t \in Requests => CallOf(t)' = CallOf(t)
    BY <1>1, <2>1 DEF CallOf, Granted, At
  <2>3. UNCHANGED [d \in Requests |-> CallOf(d)]
    BY <1>3, <2>2
  <2>4. QED
    BY <1>1, <2>3 DEF C!ChangeGroups, C!Groups, Groups
<1>6. QED
  BY <1>4, <1>5

LEMMA CommandRefines ==
  ASSUME GatewayInv, NEW a \in Admins, Command(a), ~Inside(a)
  PROVE  C!ChangeGroups
<1>1. UNCHANGED <<clock, answered, announced, handler, kind, gone>>
  BY DEF Command, Allow, Revoke, Status, EndCommand, W!Open, W!Revoke, W!StatusCall,
         W!ReadClock, W!Return, approvalState, service
<1>2. \A d \in Requests : pc'[d] = pc[d]
  BY CommandStep, OtherThreads, GatewayAssumption DEF GatewayInv, TypeOK, Threads
<1>3. UNCHANGED [d \in Requests |-> CallOf(d)]
  BY <1>1, <1>2 DEF CallOf, Granted, At
<1>4. QED
  BY <1>1, <1>3 DEF C!ChangeGroups, C!Groups, Groups

\* Every step is a step of Consent, or leaves it alone.
LEMMA ConsentNext == GatewayInv /\ [Next]_vars => [C!Next]_(C!vars)
<1> SUFFICES ASSUME GatewayInv, [Next]_vars PROVE [C!Next]_(C!vars)
  OBVIOUS
<1>1. ASSUME UNCHANGED <<opened, pc, handler>>
      PROVE  UNCHANGED <<{g \in Groups : opened[g] # None}, [d \in Requests |-> CallOf(d)]>>
  BY <1>1 DEF CallOf, Granted, At
<1>2. ASSUME NEW t \in Threads, Inside(t) PROVE [C!Next]_(C!vars)
  BY <1>2, InsideRefines DEF C!Next
<1>3. ASSUME NEW c \in Requests, GiveUp(c) PROVE C!GiveUp(c)
  BY <1>1, <1>3 DEF GiveUp, C!GiveUp, approvalState, windowState
<1>4. ASSUME NEW c \in Requests,
             Receive(c) \/ Serve(c) \/ Relay(c) \/ GiveUp(c) \/ Decide(c)
      PROVE  [C!Next]_(C!vars)
  BY <1>2, <1>3, <1>4, ReceiveRefines, AfterUseRefines, AskRefines, ForwardRefines, DecideRefines
     DEF Serve, Threads, C!Next
<1>5. ASSUME NEW a \in Admins, Command(a) PROVE [C!Next]_(C!vars)
  BY <1>2, <1>5, CommandRefines DEF Threads, C!Next
<1>6. CASE Tick
  <2>1. C!Pass
    BY <1>1, <1>6 DEF Tick, W!Tick, W!object, W!locals, C!Pass, GatewayInv, TypeOK, W!TypeOK,
                      approvalState, service
  <2>2. QED
    BY <2>1 DEF C!Next
<1>7. CASE UNCHANGED vars
  BY <1>1, <1>7 DEF vars, C!vars, windowState, approvalState, service
<1>8. QED
  BY <1>4, <1>5, <1>6, <1>7 DEF Next

\* A call of a tool runs only if its open group let it through, a write only on the word
\* of the person, and a call given up before it was let through never runs: every
\* behaviour of the gateway is one of Consent (claude_gateway.py check, request).
THEOREM GatewayImplementsConsent == Spec => ImplementsConsent
<1>1. QED
  BY GatewayInit, GatewayNext, ConsentInit, ConsentNext, PTL DEF Spec,
                                                                 ImplementsConsent, C!Spec

-----------------------------------------------------------------------------
\* Relay: mcp-call, the thread of its connection and the server.

\* What the answers are.
LEMMA AnswerTypes ==
  /\ \A b \in Bodies : /\ Saying(b) \in Answers
                       /\ ~Saying(b).closes /\ ~Saying(b).session
  /\ [body |-> "error", session |-> FALSE, closes |-> TRUE] \in Answers
  /\ \A s \in BOOLEAN : [body |-> "result", session |-> s, closes |-> FALSE] \in Answers
  /\ \A a \in Answers : a.session \in BOOLEAN
  /\ Head \notin Answers /\ Chunk \notin Answers
BY DEF Saying, Answers, Bodies, Head, Chunk

LEMMA ClientTypes == ASSUME RelayTypeOK, Client \/ Killed PROVE RelayTypeOK'
<1> USE DEF RelayTypeOK, Messages
<1>1. CASE Post
  BY <1>1 DEF Post, client, gateway, server
<1>2. CASE PostFails
  BY <1>2 DEF PostFails, Finish, Close, client, gateway, server
<1>3. CASE ReadHead
  BY <1>3 DEF ReadHead, client, gateway, server
<1>4. CASE ReadChunk
  BY <1>4 DEF ReadChunk, client, gateway, server
<1>5. CASE ReadAnswer
  BY <1>5, AnswerTypes DEF ReadAnswer, Finish, Close, Outcome, NextMessage, client, gateway, server
<1>6. CASE Disconnected
  BY <1>6 DEF Disconnected, Finish, Close, client, gateway, server
<1>7. CASE Abandon
  BY <1>7 DEF Abandon, Finish, Close, client, gateway, server
<1>8. CASE Killed
  BY <1>8 DEF Killed, client, gateway, server
<1> QED
  BY <1>1, <1>2, <1>3, <1>4, <1>5, <1>6, <1>7, <1>8
  DEF Client, TimesOut, Incomplete

LEMMA ReadRequestTypes == ASSUME RelayTypeOK, ReadRequest PROVE RelayTypeOK'
<1>1. CASE Unrouted
  BY <1>1, AnswerTypes DEF RelayTypeOK, ReadRequest, Unrouted, Reply, client, server
<1>2. CASE ~Unrouted
  BY <1>2 DEF RelayTypeOK, ReadRequest, client, server
<1> QED BY <1>1, <1>2

LEMMA GatewayTypes == ASSUME RelayTypeOK, Gateway PROVE RelayTypeOK'
<1>1. CASE ReadRequest
  BY <1>1, ReadRequestTypes
<1> USE DEF RelayTypeOK, Messages
<1>2. CASE EndOfConnection
  BY <1>2 DEF EndOfConnection, client, gateway, server
<1>3. CASE LookForClient
  BY <1>3 DEF LookForClient, client, gateway, server
<1>4. CASE Forward
  BY <1>4 DEF Forward, client, gateway, server
<1>5. CASE Unreachable
  BY <1>5, AnswerTypes DEF Unreachable, Reply, Bodies, client, gateway, server
<1>6. CASE Broken
  BY <1>6, AnswerTypes DEF Broken, Reply, Bodies, client, gateway, server
<1>7. CASE RelayWhole
  BY <1>7, AnswerTypes DEF RelayWhole, Reply, client, gateway, server
<1>8. CASE RelayHead
  BY <1>8 DEF RelayHead, client, gateway, server
<1>9. CASE RelayChunk
  BY <1>9 DEF RelayChunk, client, gateway, server
<1>10. CASE RelayEnd
  BY <1>10, AnswerTypes DEF RelayEnd, Reply, client, gateway, server
<1>11. CASE ClientLeft
  BY <1>11 DEF ClientLeft, client, gateway, server
<1>12. CASE Restart
  BY <1>12 DEF Restart, client, gateway, server
<1>13. CASE Check
  <2>1. /\ thread' \in {"none", "idle", "checked"} /\ refused' \in BOOLEAN
        /\ answer' \in Answers \cup {Nothing, Head, Chunk}
    BY <1>13, AnswerTypes DEF Check, Reply, Bodies
  <2>2. UNCHANGED <<client, arrived, request, routed, reply, server, disturbed>>
    BY <1>13 DEF Check
  <2> QED BY <2>1, <2>2 DEF client, server
<1> QED
  BY <1>1, <1>2, <1>3, <1>4, <1>5, <1>6, <1>7, <1>8, <1>9, <1>10, <1>11, <1>12, <1>13
  DEF Gateway

LEMMA ServerTypes == ASSUME RelayTypeOK, Server PROVE RelayTypeOK'
<1>1. UNCHANGED <<at, message, line, known, outcome, arrived, answer, thread, request,
                  routed, refused, disturbed>>
  BY DEF Server, client, gateway
<1>2. /\ work' \subseteq Messages /\ session' \in BOOLEAN /\ ran' \in Nat
      /\ failed' \in BOOLEAN /\ reply' \in Answers \cup {Nothing}
  <2> USE DEF RelayTypeOK, Respond
  <2>1. CASE Initialize
    BY <2>1, AnswerTypes DEF Initialize, Bodies
  <2>2. CASE Call
    BY <2>2, AnswerTypes DEF Call, Bodies
  <2>3. CASE CallUnknown \/ \E m \in Messages : Accept(m)
    BY <2>3, AnswerTypes DEF CallUnknown, Accept, Bodies
  <2>4. CASE Crash
    BY <2>4 DEF Crash
  <2> QED BY <2>1, <2>2, <2>3, <2>4 DEF Server
<1> QED BY <1>1, <1>2 DEF RelayTypeOK

LEMMA RelayTypes == RelayTypeOK /\ [RelayNext]_relayVars => RelayTypeOK'
<1> SUFFICES ASSUME RelayTypeOK, [RelayNext]_relayVars PROVE RelayTypeOK'
  OBVIOUS
<1>1. CASE UNCHANGED relayVars
  BY <1>1 DEF relayVars, client, gateway, server, RelayTypeOK
<1> QED BY <1>1, ClientTypes, GatewayTypes, ServerTypes DEF RelayNext

\* The three parts in step.
LEMMA StepNext == RelayInv /\ [RelayNext]_relayVars => InStep'
<1> SUFFICES ASSUME RelayInv, [RelayNext]_relayVars PROVE InStep'
  OBVIOUS
<1> USE RelayAssumption, AnswerTypes
    DEF RelayInv, RelayTypeOK, InStep, Messages, client, gateway, server
<1>1. CASE Client \/ Killed
  BY <1>1 DEF Client, Killed, Post, PostFails, ReadHead, ReadChunk, ReadAnswer, Disconnected,
              TimesOut, Incomplete, Abandon, Finish, Close, NextMessage
<1>2. CASE Check \/ Unreachable \/ Broken
  <2>1. ASSUME NEW b \in Bodies, Reply(Saying(b)) PROVE InStep'
    <3>1. /\ Saying(b) \in Answers /\ Saying(b) # Nothing /\ ~Saying(b).closes
          /\ Saying(b) # Head /\ Saying(b) # Chunk
      OBVIOUS
    <3> QED BY <1>2, <2>1, <3>1 DEF Reply, Check, Unreachable, Broken
  <2>2. CASE thread' \in {"checked", "none"} /\ UNCHANGED answer
    <3>1. /\ thread \in {"checking", "forwarding", "sent", "streaming"}
          /\ thread' = "checked" => thread = "checking"
          /\ UNCHANGED <<at, message, line, arrived, answer, request>>
      BY <1>2, <2>2 DEF Check, Unreachable, Broken, Reply
    <3>2. thread \notin {"none", "idle"} /\ InStep
      BY <3>1
    <3> HIDE AnswerTypes, RelayAssumption DEF RelayInv, RelayTypeOK, Messages
    <3> QED BY <2>2, <3>1, <3>2
  <2>3. CASE Reply(Saying("isError")) \/ Reply(Saying("error"))
    BY <2>1, <2>3 DEF Bodies
  <2> HIDE DEF InStep
  <2> QED BY <1>2, <2>2, <2>3 DEF Check, Unreachable, Broken
<1>3. CASE ReadRequest
  BY <1>3 DEF ReadRequest, Unrouted, Reply
<1>4. CASE \/ EndOfConnection \/ LookForClient \/ Forward \/ RelayWhole \/ RelayHead
           \/ RelayChunk \/ RelayEnd \/ ClientLeft \/ Restart
  BY <1>4 DEF EndOfConnection, LookForClient, Forward, RelayWhole, RelayHead, RelayChunk,
              RelayEnd, ClientLeft, Restart, Reply
<1>5. CASE Server \/ UNCHANGED relayVars
  BY <1>5 DEF Server, relayVars
<1> QED BY <1>1, <1>2, <1>3, <1>4, <1>5 DEF RelayNext, Gateway

LEMMA OnceNext == RelayInv /\ [RelayNext]_relayVars => CallOnce'
<1> SUFFICES ASSUME RelayInv, [RelayNext]_relayVars PROVE CallOnce'
  OBVIOUS
<1> USE RelayAssumption
    DEF RelayInv, RelayTypeOK, InStep, Messages, CallOnce, OnItsWay, WithThread, NeverRan,
        client, gateway, server
<1>1. CASE Client \/ Killed
  BY <1>1 DEF Client, Killed, Post, PostFails, ReadHead, ReadChunk, ReadAnswer, Disconnected,
              TimesOut, Incomplete, Abandon, Finish, Close, NextMessage
<1>2. CASE Gateway
  BY <1>2 DEF Gateway, ReadRequest, EndOfConnection, Check, LookForClient, Forward,
              Unreachable, Broken, RelayWhole, RelayHead, RelayChunk, RelayEnd, ClientLeft,
              Restart, Unrouted, Reply
<1>3. CASE Server
  BY <1>3 DEF Server, Initialize, Accept, Call, CallUnknown, Crash
<1>4. CASE UNCHANGED relayVars
  BY <1>4 DEF relayVars
<1> QED BY <1>1, <1>2, <1>3, <1>4 DEF RelayNext

LEMMA TrueNext == RelayInv /\ [RelayNext]_relayVars => AnswersTrue'
<1> SUFFICES ASSUME RelayInv, [RelayNext]_relayVars PROVE AnswersTrue'
  OBVIOUS
<1> USE RelayAssumption
    DEF RelayInv, RelayTypeOK, InStep, Messages, CallOnce, OnItsWay, WithThread, NeverRan,
        AnswersTrue, TrueOf, Replied, Answers, Bodies, Saying, Head, Chunk,
        client, gateway, server
<1>1. CASE Client \/ Killed
  BY <1>1 DEF Client, Killed, Post, PostFails, ReadHead, ReadChunk, ReadAnswer, Disconnected,
              TimesOut, Incomplete, Abandon, Finish, Close, NextMessage
<1>2. CASE Gateway
  BY <1>2 DEF Gateway, ReadRequest, EndOfConnection, Check, LookForClient, Forward,
              Unreachable, Broken, RelayWhole, RelayHead, RelayChunk, RelayEnd, ClientLeft,
              Restart, Unrouted, Reply
<1>3. CASE Server
  BY <1>3 DEF Server, Initialize, Accept, Call, CallUnknown, Crash, Respond
<1>4. CASE UNCHANGED relayVars
  BY <1>4 DEF relayVars
<1> QED BY <1>1, <1>2, <1>3, <1>4 DEF RelayNext

LEMMA KnownNext == RelayInv /\ [RelayNext]_relayVars => SessionKnown'
<1> SUFFICES ASSUME RelayInv, [RelayNext]_relayVars PROVE SessionKnown'
  OBVIOUS
<1> USE RelayAssumption
    DEF RelayInv, RelayTypeOK, InStep, Messages, SessionKnown, Replied, Answers, Bodies,
        Saying, Head, Chunk, client, gateway, server
<1>1. CASE Client \/ Killed
  <2>1. CASE Post
    BY <2>1 DEF Post
  <2>2. CASE PostFails
    BY <2>2 DEF PostFails, Finish, Close
  <2>3. CASE ReadHead
    BY <2>3 DEF ReadHead
  <2>4. CASE ReadChunk
    BY <2>4 DEF ReadChunk
  <2>5. CASE ReadAnswer
    BY <2>5 DEF ReadAnswer, Finish, Close, NextMessage
  <2>6. CASE Disconnected
    BY <2>6 DEF Disconnected, Finish, Close
  <2>7. CASE Abandon /\ at \in {"wait", "read"}
    BY <2>7 DEF Abandon, Finish, Close
  <2>8. CASE Killed
    BY <2>8 DEF Killed
  <2> HIDE DEF SessionKnown
  <2> QED
    BY <1>1, <2>1, <2>2, <2>3, <2>4, <2>5, <2>6, <2>7, <2>8
    DEF Client, TimesOut, Incomplete
<1>2. CASE Gateway
  <2>1. CASE ReadRequest
    BY <2>1 DEF ReadRequest, Unrouted, Reply
  <2>2. CASE EndOfConnection
    BY <2>2 DEF EndOfConnection
  <2>3. CASE Check
    BY <2>3 DEF Check, Reply
  <2>4. CASE LookForClient
    BY <2>4 DEF LookForClient
  <2>5. CASE Forward
    BY <2>5 DEF Forward
  <2>6. CASE Unreachable
    BY <2>6 DEF Unreachable, Reply
  <2>7. CASE Broken
    BY <2>7 DEF Broken, Reply
  <2>8. CASE RelayWhole
    BY <2>8 DEF RelayWhole, Reply
  <2>9. CASE RelayHead
    BY <2>9 DEF RelayHead
  <2>10. CASE RelayChunk
    BY <2>10 DEF RelayChunk
  <2>11. CASE RelayEnd
    BY <2>11 DEF RelayEnd, Reply
  <2>12. CASE ClientLeft
    BY <2>12 DEF ClientLeft
  <2>13. CASE Restart
    BY <2>13 DEF Restart
  <2> HIDE DEF SessionKnown
  <2> QED
    BY <1>2, <2>1, <2>2, <2>3, <2>4, <2>5, <2>6, <2>7, <2>8, <2>9, <2>10, <2>11, <2>12, <2>13
    DEF Gateway
<1>3. CASE Server
  <2>1. CASE Initialize
    <3>1. SUFFICES ASSUME ~disturbed PROVE SessionKnown'
      BY <1>3 DEF Server
    <3>2. /\ request = "initialize" /\ thread \in {"sent", "streaming"} /\ reply = Nothing
          /\ work' = {} /\ at # "end" /\ routed
          /\ at \in {"wait", "read"} => message = "initialize"
      BY <2>1, <3>1 DEF Initialize
    <3>3. CASE /\ session' \in BOOLEAN
               /\ reply' = [body |-> "result", session |-> session', closes |-> FALSE]
      <4>1. reply' # Nothing /\ (session' => reply'.session)
        <5> HIDE DEF RelayInv, Answers
        <5>1. reply' # Nothing
          BY <3>3, AnswerTypes
        <5> QED BY <3>3, <5>1
      <4>2. UNCHANGED <<at, message, known, arrived, answer, thread, request, routed>>
        BY <1>3 DEF Server
      <4>3. SessionKnown
        OBVIOUS
      <4> HIDE RelayAssumption DEF RelayInv, RelayTypeOK, InStep, Messages, Answers
      <4> QED BY <3>1, <3>2, <4>1, <4>2, <4>3
    <3>4. CASE session' = session
      BY <1>3, <3>1, <3>2, <3>4 DEF Server
    <3> QED BY <2>1, <3>2, <3>3, <3>4 DEF Initialize, Respond
  <2>2. CASE Call \/ CallUnknown \/ Crash \/ \E m \in Messages : Accept(m)
    BY <1>3, <2>2 DEF Server, Accept, Call, CallUnknown, Crash, Respond
  <2> QED BY <1>3, <2>1, <2>2 DEF Server
<1>4. CASE UNCHANGED relayVars
  BY <1>4 DEF relayVars
<1> QED BY <1>1, <1>2, <1>3, <1>4 DEF RelayNext

LEMMA RelayInvInit == RelayInit => RelayInv
<1> SUFFICES ASSUME RelayInit PROVE RelayInv
  OBVIOUS
<1> USE DEF RelayInit, Messages
<1>1. RelayTypeOK
  BY DEF RelayTypeOK
<1>2. InStep /\ CallOnce /\ AnswersTrue
  BY RelayAssumption
  DEF InStep, CallOnce, OnItsWay, WithThread, NeverRan, AnswersTrue, Replied
<1>3. SessionKnown
  BY DEF SessionKnown, Replied
<1> QED BY <1>1, <1>2, <1>3 DEF RelayInv

LEMMA RelayInvNext == RelayInv /\ [RelayNext]_relayVars => RelayInv'
BY RelayTypes, StepNext, OnceNext, TrueNext, KnownNext DEF RelayInv

\* mcp-call, the thread of the gateway and the server always agree on where the call and
\* the session are (mcp_call.py:102-119, claude_gateway.py:735-776).
THEOREM RelayConsistency == RelaySpec => []RelayInv
BY RelayInvInit, RelayInvNext, PTL DEF RelaySpec

\* However connections break, parts are slow and the gateway or the server stop, the tool
\* runs at most once for one mcp-call (claude_gateway.py:742, mcp_call.py:112).
THEOREM AtMostOnce == RelaySpec => []RunsAtMostOnce
<1>1. RelayInv => RunsAtMostOnce
  BY DEF RelayInv, CallOnce, RunsAtMostOnce
<1> QED BY <1>1, RelayConsistency, PTL

\* A session that the server still keeps when everything is over is the trace of a
\* connection that broke or of a wait given up (mcp_call.py:102-107, 138-139).
THEOREM Sessions == RelaySpec => []SessionsEnded
<1>1. RelayInv => SessionsEnded
  BY DEF RelayInv, SessionKnown, SessionsEnded
<1> QED BY <1>1, RelayConsistency, PTL

\* The outcome is set by an answer to the call, which tells what happened; and after
\* that the call is nowhere any more, so what happened does not change.
LEMMA OutcomeNext ==
  ASSUME RelayInv, OutcomeTrue, [RelayNext]_relayVars
  PROVE  OutcomeTrue'
<1>1. CASE outcome' \in {outcome, "failure"} /\ UNCHANGED <<ran, failed, refused>>
  BY <1>1 DEF OutcomeTrue
<1>2. CASE ReadAnswer
  BY <1>2 DEF OutcomeTrue, RelayInv, AnswersTrue, TrueOf, InStep, ReadAnswer, Finish, Outcome,
              server
<1>3. CASE Client \/ Killed
  <2>1. \/ outcome' \in {outcome, "failure"} /\ UNCHANGED <<ran, failed, refused>>
        \/ ReadAnswer
    BY <1>3 DEF Client, Post, PostFails, ReadHead, ReadChunk, Disconnected, TimesOut,
                Incomplete, Abandon, Finish, Killed, client, server
  <2> QED BY <1>1, <1>2, <2>1
<1>4. CASE Check
  BY <1>4 DEF OutcomeTrue, RelayInv, RelayTypeOK, InStep, CallOnce, OnItsWay, WithThread,
              NeverRan, Check, client, server
<1>5. CASE Gateway
  <2>1. Check \/ UNCHANGED <<outcome, ran, failed, refused>>
    BY <1>5 DEF Gateway, ReadRequest, EndOfConnection, LookForClient, Forward, Unreachable,
                Broken, RelayWhole, RelayHead, RelayChunk, RelayEnd, ClientLeft, Restart,
                client, server
  <2> QED BY <1>1, <1>4, <2>1
<1>6. CASE Server
  <2>1. UNCHANGED <<outcome, refused>>
    BY <1>6 DEF Server, client
  <2>2. Call \/ UNCHANGED <<ran, failed>>
    BY <1>6 DEF Server, Initialize, Accept, CallUnknown, Crash
  <2>3. CASE Call
    BY <2>1, <2>3 DEF Call, OutcomeTrue, RelayInv, CallOnce, NeverRan
  <2> QED BY <1>1, <2>1, <2>2, <2>3
<1>7. CASE UNCHANGED relayVars
  BY <1>1, <1>7 DEF relayVars, client, server
<1> QED BY <1>3, <1>5, <1>6, <1>7 DEF RelayNext

\* What mcp-call prints and returns is what happened: a text after the tool ran and
\* succeeded, a tool error after it ran and failed or after the gateway refused it, which
\* then never runs it (mcp_call.py:8, 123-146).
THEOREM OutcomeIsTrue == RelaySpec => []OutcomeTrue
<1>1. RelayInit => OutcomeTrue
  BY RelayAssumption DEF RelayInit, OutcomeTrue
<1>2. RelayInv /\ OutcomeTrue /\ [RelayNext]_relayVars => OutcomeTrue'
  BY OutcomeNext
<1> QED BY <1>1, <1>2, RelayConsistency, PTL DEF RelaySpec
=============================================================================
