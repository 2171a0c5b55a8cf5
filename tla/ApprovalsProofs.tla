--------------------------- MODULE ApprovalsProofs ---------------------------
(***************************************************************************)
(* Proofs about Approvals for every set of calls, keys and durations: the  *)
(* last answer to the host is what happens, and a call that goes through   *)
(* by an allowance was announced.                                          *)
(***************************************************************************)
EXTENDS Approvals, TLAPS

LEMMA KeyOfCall == ASSUME NEW c \in Calls PROVE KeyOf[c] \in Keys
BY DEF Keys

LEMMA InvInit == Init => ApprovalsInv
BY ApprovalsAssumption
   DEF Init, ApprovalsInv, TypeOK, LastAnswerHolds, Consistent, NoneUnannounced,
       Times, Steps, Final, Granting, Refusing, Answers, Listed, At

\* The steps of the thread of a call: the other calls are not concerned.
LEMMA InvThread ==
  ASSUME ApprovalsInv, NEW c \in Calls, Request(c) \/ Continue(c)
  PROVE  ApprovalsInv'
<1>0. clock + Timeout \in Times /\ clock + Timeout # None
  BY ApprovalsAssumption DEF ApprovalsInv, TypeOK, Times
<1> USE ApprovalsAssumption DEF At, Goto, TimedOut
<1>1. /\ UNCHANGED <<clock, decided, approved, allowedUntil, told>>
      /\ step' \in [Calls -> Steps]
      /\ deadline' \in [Calls -> Times]
      /\ \A d \in Calls \ {c} :
           /\ step'[d] = step[d]
           /\ deadline'[d] = deadline[d]
           /\ d \in pending' <=> d \in pending
      /\ pending' \subseteq Calls
  <2> USE DEF ApprovalsInv, TypeOK, Steps, Final, Granting, Refusing, state, told
  <2>1. CASE Request(c)
    BY <2>1 DEF Request
  <2>2. CASE StartWait(c)
    BY <2>2, <1>0 DEF StartWait
  <2>3. CASE Wake(c)
    BY <2>3 DEF Wake
  <2>4. CASE Leave(c)
    BY <2>4 DEF Leave, Outcome
  <2>5. QED
    BY <2>1, <2>2, <2>3, <2>4 DEF Continue
<1>2. TypeOK'
  BY <1>1 DEF ApprovalsInv, TypeOK, told
<1>3. NoneUnannounced'
  BY <1>1 DEF ApprovalsInv, NoneUnannounced, told
<1> DEFINE Right(d) == /\ step[d] \in Answers => answered[d] = step[d]
                       /\ At(d, "no approval in time") =>
                            answered[d] = None /\ TimedOut(d)
                       /\ At(d, "approved for the tool") => answered[d] = None
<1>4. ASSUME NEW d \in Calls, d # c PROVE (Consistent(d) /\ Right(d))'
  <2>1. /\ step'[d] = step[d]
        /\ deadline'[d] = deadline[d]
        /\ d \in pending' <=> d \in pending
    BY <1>1, <1>4
  <2>2. Consistent(d) /\ Right(d)
    BY DEF ApprovalsInv, LastAnswerHolds
  <2>3. QED
    BY <1>1, <2>1, <2>2 DEF Consistent, told
<1>5. (Consistent(c) /\ Right(c))'
  <2> USE DEF ApprovalsInv, TypeOK, LastAnswerHolds, Consistent, Times, Steps,
              Final, Granting, Refusing, Answers, Listed, state, told
  <2>1. CASE Request(c)
    BY <2>1 DEF Request
  <2>2. CASE StartWait(c)
    <3>1. /\ step'[c] = "waiting"
          /\ deadline'[c] = clock + Timeout
          /\ UNCHANGED <<clock, pending, decided, approved, answered>>
      BY <2>2 DEF StartWait
    <3>2. At(c, "notifying")
      BY <2>2 DEF StartWait
    <3>3. QED
      BY <1>0, <3>1, <3>2
  <2>3. CASE Wake(c)
    BY <2>3 DEF Wake
  <2>4. CASE Leave(c)
    BY <2>4 DEF Leave, Outcome
  <2>5. QED
    BY <2>1, <2>2, <2>3, <2>4 DEF Continue
<1>6. QED
  BY <1>2, <1>3, <1>4, <1>5 DEF ApprovalsInv, LastAnswerHolds

\* A decision of the person.
LEMMA InvDecide ==
  ASSUME ApprovalsInv, NEW c \in Calls, NEW approve \in BOOLEAN,
         NEW minutes \in Allowances \cup {None}, Decide(c, approve, minutes)
  PROVE  ApprovalsInv'
<1> DEFINE answer == IF approve THEN "approved" ELSE "denied"
           until == clock + minutes
           k == KeyOf[c]
<1> USE ApprovalsAssumption DEF At, TimedOut
<1>1. k \in Keys
  BY KeyOfCall
<1>2. /\ answered' = [answered EXCEPT ![c] = answer]
      /\ decided' = decided \cup {c}
      /\ approved' = IF approve THEN approved \cup {c} ELSE approved \ {c}
      /\ c \in pending
      /\ UNCHANGED <<clock, step, pending, deadline>>
  BY DEF Decide
<1>3. CASE minutes = None
  <2>1. UNCHANGED <<allowedUntil, announced>>
    BY <1>3 DEF Decide
  <2>2. QED
    BY <1>2, <2>1
       DEF ApprovalsInv, TypeOK, LastAnswerHolds, Consistent, NoneUnannounced,
           Answers, Listed, Steps, Final, Granting, Refusing
<1>4. CASE minutes # None
  <2>1. until \in Nat /\ until # None
    BY <1>4 DEF ApprovalsInv, TypeOK
  <2>2. /\ announced' = [announced EXCEPT ![k] = Latest(announced[k], until)]
        /\ allowedUntil' = [allowedUntil EXCEPT ![k] = until]
    BY <1>4, <1>1 DEF Decide, ApprovalsInv, TypeOK
  <2>3. /\ Latest(announced[k], until) \in Nat
        /\ until <= Latest(announced[k], until)
        /\ announced[k] # None => announced[k] <= Latest(announced[k], until)
    BY <1>1, <2>1 DEF Latest, ApprovalsInv, TypeOK, Times
  <2>4. allowedUntil' \in [Keys -> Times] /\ announced' \in [Keys -> Times]
    BY <1>1, <2>1, <2>2, <2>3 DEF ApprovalsInv, TypeOK, Times
  <2>5. NoneUnannounced'
    BY <1>1, <2>1, <2>2, <2>3 DEF ApprovalsInv, TypeOK, NoneUnannounced, Times
  <2>6. TypeOK'
    BY <1>2, <2>4 DEF ApprovalsInv, TypeOK, Answers
  <2>7. LastAnswerHolds' /\ \A d \in Calls : Consistent(d)'
    BY <1>2 DEF ApprovalsInv, TypeOK, LastAnswerHolds, Consistent,
                Answers, Listed, Steps, Final, Granting, Refusing
  <2>8. QED
    BY <2>5, <2>6, <2>7 DEF ApprovalsInv
<1>5. QED
  BY <1>3, <1>4

\* The steps that concern no call.
LEMMA InvOther ==
  ASSUME ApprovalsInv, Tick \/ (\E g \in Groups : Forget(g)) \/ UNCHANGED vars
  PROVE  ApprovalsInv'
<1>1. CASE Tick
  <2>1. /\ clock' = clock + 1
        /\ clock' \in Nat
        /\ UNCHANGED <<step, pending, decided, approved, allowedUntil,
                       deadline, answered, announced>>
    BY <1>1 DEF ApprovalsInv, TypeOK, Tick, state, told
  <2>2. ASSUME NEW c \in Calls, TimedOut(c) PROVE TimedOut(c)'
    <3>1. deadline[c] \in Nat
      BY <2>2 DEF ApprovalsInv, TypeOK, Times, TimedOut
    <3>2. QED
      BY <2>1, <2>2, <3>1 DEF ApprovalsInv, TypeOK, TimedOut
  <2>3. TypeOK' /\ NoneUnannounced'
    BY <2>1 DEF ApprovalsInv, TypeOK, NoneUnannounced
  <2>4. LastAnswerHolds' /\ \A c \in Calls : Consistent(c)'
    BY <2>1, <2>2 DEF ApprovalsInv, LastAnswerHolds, Consistent, At
  <2>5. QED
    BY <2>3, <2>4 DEF ApprovalsInv
<1>2. ASSUME NEW g \in Groups, Forget(g) PROVE ApprovalsInv'
  BY <1>2 DEF Forget, ApprovalsInv, TypeOK, LastAnswerHolds, Consistent,
              NoneUnannounced, Times, TimedOut, At, told
<1>3. CASE UNCHANGED vars
  BY <1>3 DEF vars, state, told, ApprovalsInv, TypeOK, LastAnswerHolds,
              Consistent, NoneUnannounced, TimedOut, At
<1>4. QED
  BY <1>1, <1>2, <1>3

LEMMA InvNext == ApprovalsInv /\ [Next]_vars => ApprovalsInv'
<1> SUFFICES ASSUME ApprovalsInv, [Next]_vars PROVE ApprovalsInv'
  OBVIOUS
<1>1. ASSUME NEW c \in Calls, Approve(c) \/ ApproveTool(c) \/ Deny(c) PROVE ApprovalsInv'
  BY <1>1, InvDecide DEF Approve, ApproveTool, Deny
<1>2. QED
  BY <1>1, InvThread, InvOther DEF Next

\* The list, the events, the answers and the allowances agree at every point of
\* every thread of `request`.
THEOREM Consistency == Spec => []ApprovalsInv
BY InvInit, InvNext, PTL DEF Spec

\* What the host was last answered about a call is its outcome, and without an
\* answer it is refused after its whole time: for any number of calls.
THEOREM LastAnswer == Spec => []LastAnswerHolds
<1>1. ApprovalsInv => LastAnswerHolds
  BY DEF ApprovalsInv
<1>2. QED
  BY <1>1, InvInit, InvNext, PTL DEF Spec

\* A call goes through by an allowance only within the time announced for its
\* tool, group and agent.
THEOREM Announced == Spec => AllowanceAnnounced
<1> DEFINE AnnouncedStep ==
      \A c \in Calls :
        At(c, "new") /\ step'[c] = "approved for the tool" =>
          announced[KeyOf[c]] # None /\ clock < announced[KeyOf[c]]
<1>1. ASSUME ApprovalsInv, [Next]_vars, NEW c \in Calls,
             At(c, "new"), step'[c] = "approved for the tool"
      PROVE  announced[KeyOf[c]] # None /\ clock < announced[KeyOf[c]]
  <2>1. PICK d \in Calls : Request(d) \/ Continue(d)
    BY <1>1 DEF Next, Approve, ApproveTool, Deny, Decide, Forget, Tick, vars, At
  <2>2. d = c
    BY <1>1, <2>1 DEF ApprovalsInv, TypeOK, Continue, Request, StartWait, Wake,
                      Leave, At, Goto
  <2>3. Allowed(KeyOf[c])
    BY <1>1, <2>1, <2>2 DEF ApprovalsInv, TypeOK, Continue, Request, StartWait,
                            Wake, Leave, At, Goto
  <2> DEFINE k == KeyOf[c]
  <2>4. k \in Keys
    BY KeyOfCall
  <2>5. /\ allowedUntil[k] \in Nat /\ clock \in Nat
        /\ announced[k] \in Times
        /\ clock < allowedUntil[k]
    BY <1>1, <2>3, <2>4 DEF ApprovalsInv, TypeOK, Times, Allowed
  <2>6. announced[k] # None /\ allowedUntil[k] <= announced[k]
    BY <1>1, <2>3, <2>4 DEF ApprovalsInv, NoneUnannounced, Allowed
  <2>7. QED
    BY <2>5, <2>6 DEF Times
<1>2. ApprovalsInv /\ [Next]_vars => [AnnouncedStep]_vars
  BY <1>1
<1>3. QED
  BY <1>2, InvInit, InvNext, PTL DEF Spec, AllowanceAnnounced
=============================================================================
