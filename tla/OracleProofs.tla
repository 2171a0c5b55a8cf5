----------------------------- MODULE OracleProofs -----------------------------
(***************************************************************************)
(* Proofs about Oracle for any calls, rows and expected numbers of rows:   *)
(* the writes keep the promise of ExactWrites, and no processing area is   *)
(* left silently.                                                          *)
(***************************************************************************)
EXTENDS Oracle, TLAPS

LEMMA InvInit == Init => OracleInv
BY OracleAssumption
   DEF Init, OracleInv, TypeOK, CallConsistent, WriteConsistent, RunConsistent, At, Calls, Points,
       Areas, Outcomes, Errors, InSession, AfterStatement

LEMMA InvStop == ASSUME OracleInv, Stop PROVE OracleInv'
BY OracleAssumption
   DEF Stop, OracleInv, TypeOK, CallConsistent, WriteConsistent, RunConsistent, At, Calls, Points,
       Areas, Outcomes, Errors, InSession, AfterStatement

\* What a step of a call may change of the other calls: nothing but the table.
Apart(c) ==
  /\ \A d \in Calls \ {c} :
       at'[d] = at[d] /\ outcome'[d] = outcome[d] /\ answer'[d] = answer[d]
  /\ \A d \in Runs \ {c} : area'[d] = area[d] /\ (d \in warned => d \in warned')
  /\ \A d \in Writes \ {c} :
       changed'[d] = changed[d] /\ (d \in applied' <=> d \in applied)

CallType ==
  /\ at \in [Calls -> Points]
  /\ outcome \in [Calls -> Outcomes \cup {None}]
  /\ answer \in [Calls -> Outcomes \cup {"lost", None}]
  /\ warned \subseteq Runs

LEMMA TypeMoves ==
  ASSUME CallType, NEW c \in Calls, NEW point \in Points, NEW o \in Outcomes,
         \/ Goto(c, point)
         \/ Come(c, o, point)
         \/ End(c, o) /\ warned' \subseteq Runs
  PROVE  CallType'
<1>1. "end" \in Points
  BY DEF Points
<1>2. CASE Goto(c, point)
  BY <1>2 DEF Goto, CallType
<1>3. CASE Come(c, o, point)
  BY <1>3 DEF Come, CallType
<1>4. CASE End(c, o) /\ warned' \subseteq Runs
  BY <1>1, <1>4 DEF End, CallType
<1>5. QED
  BY <1>2, <1>3, <1>4

LEMMA StepType == ASSUME OracleInv, NEW c \in Calls, Step(c) PROVE TypeOK'
<1>1. CallType /\ CallConsistent(c)
  BY DEF OracleInv, TypeOK, CallType
<1>2. CallType'
  <2>1. /\ {"recreating", "describing", "connecting", "preparing", "executing", "counting",
             "rolling back", "closing", "dropping"} \subseteq Points
        /\ {"result", "rolled back", "error", "failed"} = Outcomes
        /\ Errors \subseteq Outcomes
    BY DEF Points, Outcomes, Errors
  <2>2. at[c] \in {"dropping", "closing"} => outcome[c] \in Outcomes
    BY <1>1, OracleAssumption DEF CallConsistent, CallType, AfterStatement
  <2> USE <1>1, <2>1, <2>2, TypeMoves DEF At, Throw
  <2>3. CASE Begin(c)
    BY <2>3 DEF Begin, CallType
  <2>4. CASE Recreate(c)
    <3>1. c \in Runs
      BY <2>4, <1>1 DEF Recreate, CallConsistent, InSession
    <3>2. QED
      BY <2>4, <3>1 DEF Recreate, CallType
  <2>5. CASE Describe(c)
    BY <2>5 DEF Describe
  <2>6. CASE Connect(c)
    BY <2>6 DEF Connect, Leave, CallType
  <2>7. CASE Prepare(c)
    BY <2>7 DEF Prepare
  <2>8. CASE Execute(c)
    BY <2>8 DEF Execute
  <2>9. CASE Commit(c)
    BY <2>9 DEF Commit
  <2>10. CASE Rollback(c)
    BY <2>10 DEF Rollback
  <2>11. CASE Close(c)
    BY <2>11 DEF Close, Leave, CallType
  <2>12. CASE Drop(c)
    <3>1. c \in Runs
      BY <2>12, <1>1 DEF Drop, CallConsistent, InSession
    <3>2. QED
      BY <2>12, <3>1 DEF Drop, CallType
  <2>13. QED
    BY <2>3, <2>4, <2>5, <2>6, <2>7, <2>8, <2>9, <2>10, <2>11, <2>12 DEF Step
<1>3. area' \in [Runs -> Areas]
  BY DEF OracleInv, TypeOK, Areas, Step, Begin, Recreate, Describe, Connect, Prepare,
         Execute, Commit, Rollback, Close, Drop
<1>4. table' \subseteq Rows /\ changed' \in [Writes -> SUBSET Rows] /\ applied' \subseteq Writes
  <2> USE OracleAssumption DEF OracleInv, TypeOK, database
  <2>1. CASE Execute(c)
    BY <2>1 DEF Execute
  <2>2. CASE Commit(c)
    <3>1. c \in Writes
      BY <2>2, <1>1 DEF Commit, CallConsistent, InSession, At
    <3>2. QED
      BY <2>2, <3>1 DEF Commit, Committed
  <2>3. CASE Rollback(c) \/ Close(c)
    BY <2>3 DEF Rollback, Close, Undone
  <2>4. CASE Begin(c) \/ Recreate(c) \/ Describe(c) \/ Connect(c) \/ Prepare(c) \/ Drop(c)
    BY <2>4 DEF Begin, Recreate, Describe, Connect, Prepare, Drop
  <2>5. QED
    BY <2>1, <2>2, <2>3, <2>4 DEF Step
<1>5. QED
  BY <1>2, <1>3, <1>4 DEF TypeOK, CallType

LEMMA StepApart == ASSUME OracleInv, NEW c \in Calls, Step(c) PROVE Apart(c)
<1> USE OracleAssumption
    DEF OracleInv, TypeOK, CallConsistent, At, Apart, Goto, Come, End, Throw, Calls,
        database
<1>1. CASE Begin(c)
  BY <1>1 DEF Begin
<1>2. CASE Recreate(c)
  BY <1>2 DEF Recreate
<1>3. CASE Describe(c)
  BY <1>3 DEF Describe
<1>4. CASE Connect(c)
  BY <1>4 DEF Connect, Leave
<1>5. CASE Prepare(c)
  BY <1>5 DEF Prepare
<1>6. CASE Execute(c)
  BY <1>6 DEF Execute
<1>7. CASE Commit(c)
  BY <1>7 DEF Commit, Committed
<1>8. CASE Rollback(c)
  BY <1>8 DEF Rollback, Undone
<1>9. CASE Close(c)
  BY <1>9 DEF Close, Undone, Leave
<1>10. CASE Drop(c)
  BY <1>10 DEF Drop
<1>11. QED
  BY <1>1, <1>2, <1>3, <1>4, <1>5, <1>6, <1>7, <1>8, <1>9, <1>10 DEF Step

LEMMA StepCall ==
  ASSUME OracleInv, NEW c \in Calls, Step(c)
  PROVE  CallConsistent(c)'
<1>a. TypeOK /\ CallConsistent(c)
  BY DEF OracleInv
<1> USE <1>a, OracleAssumption
    DEF TypeOK, CallConsistent, At, Goto, Come, End, Throw, Calls,
        Outcomes, Errors, InSession, AfterStatement
<1>1. CASE Begin(c)
  BY <1>1 DEF Begin
<1>2. CASE Recreate(c)
  BY <1>2 DEF Recreate
<1>3. CASE Describe(c)
  BY <1>3 DEF Describe
<1>4. CASE Connect(c)
  BY <1>4 DEF Connect, Leave
<1>5. CASE Prepare(c)
  BY <1>5 DEF Prepare
<1>6. CASE Execute(c)
  BY <1>6 DEF Execute
<1>7. CASE Commit(c)
  BY <1>7 DEF Commit, Committed
<1>8. CASE Rollback(c)
  BY <1>8 DEF Rollback, Undone
<1>9. CASE Close(c)
  BY <1>9 DEF Close, Undone, Leave
<1>10. CASE Drop(c)
  BY <1>10 DEF Drop
<1>11. QED
  BY <1>1, <1>2, <1>3, <1>4, <1>5, <1>6, <1>7, <1>8, <1>9, <1>10 DEF Step

\* AreaNeverLeftSilently, of one run.
Accounted(c) ==
  At(c, "end") /\ answer[c] # "lost" =>
    /\ area[c] # "created"
    /\ area[c] \in {"unknown", "undropped"} => c \in warned \/ answer[c] = "failed"

LEMMA StepRun ==
  ASSUME OracleInv, NEW c \in Runs, Step(c)
  PROVE  RunConsistent(c)' /\ Accounted(c)'
<1>a. c \in Calls /\ TypeOK /\ CallConsistent(c) /\ RunConsistent(c)
  BY DEF OracleInv, Calls
<1> USE <1>a, OracleAssumption
    DEF TypeOK, CallConsistent, RunConsistent, Accounted, At, Goto, Come, End, Throw,
        Calls, Outcomes, Errors, InSession, AfterStatement
<1>1. CASE Begin(c)
  BY <1>1 DEF Begin
<1>2. CASE Recreate(c)
  BY <1>2 DEF Recreate
<1>3. CASE Describe(c)
  BY <1>3 DEF Describe
<1>4. CASE Connect(c)
  BY <1>4 DEF Connect, Leave
<1>5. CASE Prepare(c)
  BY <1>5 DEF Prepare
<1>6. CASE Execute(c)
  BY <1>6 DEF Execute
<1>7. CASE Commit(c)
  BY <1>7 DEF Commit, Committed
<1>8. CASE Rollback(c)
  BY <1>8 DEF Rollback, Undone
<1>9. CASE Close(c)
  BY <1>9 DEF Close, Undone, Leave
<1>10. CASE Drop(c)
  BY <1>10 DEF Drop
<1>11. QED
  BY <1>1, <1>2, <1>3, <1>4, <1>5, <1>6, <1>7, <1>8, <1>9, <1>10 DEF Step

\* What a step of a write does to its own rows, and to the table.
LEMMA StepRows ==
  ASSUME OracleInv, NEW c \in Writes, Step(c)
  PROVE  \/ UNCHANGED table /\ changed'[c] \in {changed[c], {}}
         \/ /\ UNCHANGED table /\ ~Blocked(c) /\ At(c, "executing")
            /\ changed'[c] = Targets[c] \cap table
         \/ At(c, "counting") /\ table' = table \ changed[c] /\ changed'[c] = {}
<1>a. c \in Calls /\ TypeOK /\ CallConsistent(c)
  BY DEF OracleInv, Calls
<1> USE <1>a, OracleAssumption
    DEF TypeOK, CallConsistent, At, Calls, database
<1>1. CASE Begin(c)
  BY <1>1 DEF Begin
<1>2. CASE Recreate(c)
  BY <1>2 DEF Recreate
<1>3. CASE Describe(c)
  BY <1>3 DEF Describe
<1>4. CASE Connect(c)
  BY <1>4 DEF Connect
<1>5. CASE Prepare(c)
  BY <1>5 DEF Prepare
<1>6. CASE Execute(c)
  BY <1>6 DEF Execute
<1>7. CASE Commit(c)
  BY <1>7 DEF Commit, Committed
<1>8. CASE Rollback(c)
  BY <1>8 DEF Rollback, Undone
<1>9. CASE Close(c)
  BY <1>9 DEF Close, Undone
<1>10. CASE Drop(c)
  BY <1>10 DEF Drop
<1>11. QED
  BY <1>1, <1>2, <1>3, <1>4, <1>5, <1>6, <1>7, <1>8, <1>9, <1>10 DEF Step

\* The transactions hold rows of the table, and never the same.
LEMMA StepDisjoint ==
  ASSUME OracleInv, NEW c \in Calls, Step(c)
  PROVE  \A d \in Writes :
           /\ \A e \in Writes : d # e => changed'[d] \cap changed'[e] = {}
           /\ changed'[d] \subseteq Targets[d] \cap table'
           /\ d # c /\ At(d, "counting") => changed'[d] = Targets[d] \cap table'
<1>1. Apart(c)
  BY StepApart
<1>2. \A d \in Writes :
        /\ changed[d] \subseteq Targets[d] \cap table
        /\ At(d, "counting") => changed[d] = Targets[d] \cap table
        /\ \A e \in Writes : d # e => changed[d] \cap changed[e] = {}
  BY DEF OracleInv, WriteConsistent
<1>3. CASE c \in Writes
  BY <1>1, <1>2, <1>3, StepRows DEF Apart, Blocked
<1>4. CASE c \notin Writes
  <2>1. UNCHANGED <<table, changed>>
    BY <1>4, OracleAssumption
       DEF Step, Begin, Recreate, Describe, Connect, Prepare, Execute, Commit, Rollback,
           Close, Undone, Drop, OracleInv, CallConsistent, InSession, At, database, Calls
  <2>2. QED
    BY <1>2, <2>1
<1>5. QED
  BY <1>3, <1>4

LEMMA WriteLeaves ==
  ASSUME at \in [Calls -> Points], NEW c \in Calls, c \notin Runs, NEW o, Leave(c, o)
  PROVE  at'[c] = "end"
BY DEF Leave, End

LEMMA StepWrite ==
  ASSUME OracleInv, NEW c \in Writes, Step(c)
  PROVE  WriteConsistent(c)'
<1>1. changed'[c] \subseteq Targets[c] \cap table'
  BY StepDisjoint DEF Calls
<1> USE <1>1, OracleAssumption
    DEF OracleInv, TypeOK, CallConsistent, WriteConsistent, At, Goto, Come, End, Throw,
        Calls, Errors, InSession, AfterStatement, database
<1>2. CASE Begin(c)
  BY <1>2 DEF Begin
<1>3. CASE Recreate(c)
  BY <1>3 DEF Recreate
<1>4. CASE Describe(c)
  BY <1>4 DEF Describe
<1>5. CASE Connect(c)
  <2>1. c \notin Runs /\ At(c, "connecting")
    BY <1>5 DEF Connect
  <2>2. at'[c] \in {"preparing", "end"}
    BY ONLY <1>5, <2>1, WriteLeaves, at \in [Calls -> Points], c \in Calls DEF Connect, Goto
  <2>3. UNCHANGED <<table, changed, applied>>
    BY <1>5 DEF Connect
  <2>4. changed[c] = {} /\ c \notin applied
    BY <2>1
  <2>5. QED
    BY <2>2, <2>3, <2>4
<1>6. CASE Prepare(c)
  BY <1>6 DEF Prepare
<1>7. CASE Execute(c)
  BY <1>7 DEF Execute
<1>8. CASE Commit(c)
  BY <1>8 DEF Commit, Committed
<1>9. CASE Rollback(c)
  BY <1>9 DEF Rollback, Undone
<1>10. CASE Close(c)
  <2>1. c \notin Runs /\ changed'[c] = {} /\ UNCHANGED applied
    BY <1>10 DEF Close, Undone
  <2>2. at'[c] = "end"
    BY ONLY <1>10, <2>1, WriteLeaves, at \in [Calls -> Points], c \in Calls DEF Close
  <2>3. QED
    BY <2>1, <2>2
<1>11. CASE Drop(c)
  BY <1>11 DEF Drop
<1>12. QED
  BY <1>2, <1>3, <1>4, <1>5, <1>6, <1>7, <1>8, <1>9, <1>10, <1>11 DEF Step

LEMMA InvStep == ASSUME OracleInv, NEW c \in Calls, Step(c) PROVE OracleInv'
<1>1. TypeOK' /\ Apart(c) /\ CallConsistent(c)'
  BY StepType, StepApart, StepCall
<1>2. ASSUME NEW d \in Calls PROVE CallConsistent(d)'
  BY <1>1 DEF Apart, OracleInv, CallConsistent, At
<1>3. ASSUME NEW d \in Writes PROVE WriteConsistent(d)'
  <2>1. CASE d = c
    BY <2>1, StepWrite
  <2>2. CASE d # c
    <3>1. /\ at'[d] = at[d] /\ outcome'[d] = outcome[d]
          /\ changed'[d] = changed[d] /\ (d \in applied' <=> d \in applied)
      BY <1>1, <2>2 DEF Apart, Calls
    <3>2. /\ changed'[d] \subseteq Targets[d] \cap table'
          /\ At(d, "counting") => changed'[d] = Targets[d] \cap table'
      BY <2>2, StepDisjoint
    <3>3. WriteConsistent(d)
      BY DEF OracleInv
    <3>4. QED
      BY <3>1, <3>2, <3>3 DEF WriteConsistent, At
  <2>3. QED
    BY <2>1, <2>2
<1>4. ASSUME NEW d \in Runs PROVE RunConsistent(d)'
  <2>1. CASE d = c
    BY <2>1, StepRun
  <2>2. CASE d # c
    BY <1>1, <2>2 DEF Apart, OracleInv, RunConsistent, At, Calls
  <2>3. QED
    BY <2>1, <2>2
<1>5. \A d, e \in Writes : d # e => changed'[d] \cap changed'[e] = {}
  BY StepDisjoint
<1>6. QED
  BY <1>1, <1>2, <1>3, <1>4, <1>5 DEF OracleInv

LEMMA InvNext == OracleInv /\ [Next]_vars => OracleInv'
<1>1. CASE UNCHANGED vars
  BY <1>1 DEF vars, call, database, OracleInv, TypeOK, CallConsistent, WriteConsistent,
              RunConsistent, At
<1>2. QED
  BY <1>1, InvStep, InvStop DEF Next

\* A call that is answered left no transaction, whatever failed, and until then each
\* transaction holds the rows that its call counted (claude_mcp_oracle.py session, write).
THEOREM Consistency == Spec => []OracleInv
BY InvInit, InvNext, PTL DEF Spec

\* Only its own steps and a stop change the account of a run.
LEMMA AccountNext ==
  ASSUME OracleInv, AreaNeverLeftSilently, [Next]_vars
  PROVE  AreaNeverLeftSilently'
<1> SUFFICES ASSUME NEW d \in Runs PROVE Accounted(d)'
  BY DEF AreaNeverLeftSilently, Accounted
<1>1. Accounted(d) /\ d \in Calls
  BY DEF AreaNeverLeftSilently, Accounted, Calls
<1>2. ASSUME NEW c \in Calls, Step(c) PROVE Accounted(d)'
  <2>1. CASE c = d
    BY <1>2, <2>1, StepRun
  <2>2. CASE c # d
    BY <1>1, <1>2, <2>2, StepApart DEF Apart, Accounted, At
  <2>3. QED
    BY <2>1, <2>2
<1>3. CASE Stop
  <2>1. (at'[d] = at[d] /\ answer'[d] = answer[d]) \/ answer'[d] = "lost"
    BY <1>1, <1>3 DEF Stop
  <2>2. UNCHANGED <<warned, area>>
    BY <1>3 DEF Stop
  <2>3. QED
    BY <1>1, <2>1, <2>2 DEF Accounted, At
<1>4. CASE UNCHANGED vars
  BY <1>1, <1>4 DEF vars, call, Accounted, At
<1>5. QED
  BY <1>2, <1>3, <1>4 DEF Next

\* A run that ends answered has dropped its area, or the agent is told of it, or the
\* call ended with an unexpected exception.
THEOREM AreaAccounted == Spec => []AreaNeverLeftSilently
<1>1. Init => AreaNeverLeftSilently
  BY DEF Init, AreaNeverLeftSilently, At, Calls
<1>2. QED
  BY <1>1, InvInit, InvNext, AccountNext, PTL DEF Spec

-----------------------------------------------------------------------------
\* The steps of Oracle are steps of ExactWrites.

told == [c \in Writes |-> answer[c]]

\* A step that commits nothing: at most, a call is told its answer.
LEMMA TellStep ==
  ASSUME OracleInv, OracleInv', UNCHANGED <<table, applied>>,
         \A c \in Writes : answer'[c] # answer[c] =>
           answer[c] = None /\ W!MayTell(c, answer'[c])
  PROVE  W!Tell
<1>1. told' \in [Writes -> W!Answers \cup {None}]
  BY DEF told, OracleInv, TypeOK, Calls, Outcomes, Errors, W!Answers
<1>2. \A c \in Writes : told'[c] # told[c] => told[c] = None /\ W!MayTell(c, told'[c])
  BY DEF told
<1>3. QED
  BY <1>1, <1>2 DEF told, W!Tell

LEMMA CommitStep ==
  ASSUME OracleInv, NEW c \in Writes, At(c, "counting"), Exact(c), Committed(c),
         answer' = answer
  PROVE  W!Apply(c)
<1>1. answer[c] = None /\ c \notin applied /\ changed[c] = Targets[c] \cap table
  BY DEF OracleInv, CallConsistent, WriteConsistent, At, Calls, AfterStatement
<1>2. table' = table \ Targets[c]
  BY <1>1 DEF Committed
<1>3. Cardinality(Targets[c] \cap table) = Expected[c]
  BY <1>1 DEF Exact
<1>4. W!Cardinality(Targets[c] \cap table) = Cardinality(Targets[c] \cap table)
  BY Zenon DEF W!Cardinality, Cardinality
<1>5. QED
  BY <1>1, <1>2, <1>3, <1>4 DEF W!Apply, Committed

\* What a write is answered when it ends.
LEMMA AnswerStep ==
  ASSUME OracleInv, NEW c \in Writes, Step(c), answer'[c] # answer[c]
  PROVE  answer[c] = None /\ W!MayTell(c, answer'[c]) /\ UNCHANGED <<table, applied>>
<1>1. c \in Calls /\ c \notin Runs /\ CallConsistent(c) /\ WriteConsistent(c)
  BY OracleAssumption DEF Calls, OracleInv
<1>2. answer \in [Calls -> Outcomes \cup {"lost", None}]
  BY DEF OracleInv, TypeOK
<1>3. CASE Begin(c)
  BY <1>1, <1>2, <1>3
     DEF Begin, Goto, End, At, CallConsistent, Errors, W!MayTell, database
<1>4. CASE Connect(c)
  BY <1>1, <1>2, <1>4
     DEF Connect, Leave, Goto, End, At, CallConsistent, Errors, W!MayTell, database
<1>5. CASE Close(c)
  <2>1. PICK o \in Errors \cup {outcome[c]} : End(c, o)
    BY <1>1, <1>5 DEF Close, Leave
  <2>2. answer'[c] = o
    BY <1>1, <1>2, <2>1 DEF End
  <2>3. /\ answer[c] = None
        /\ outcome[c] = "result" => c \in applied
        /\ outcome[c] = "rolled back" => c \notin applied
    BY <1>1, <1>5 DEF Close, At, CallConsistent, WriteConsistent, AfterStatement
  <2>4. UNCHANGED <<table, applied>>
    BY <1>5 DEF Close, Undone
  <2>5. QED
    BY <2>2, <2>3, <2>4 DEF Errors, W!MayTell
<1>6. CASE Recreate(c) \/ Describe(c) \/ Drop(c)
  BY <1>1, <1>6 DEF Recreate, Describe, Drop, At, CallConsistent, InSession
<1>7. CASE Prepare(c) \/ Execute(c) \/ Commit(c) \/ Rollback(c)
  BY <1>7 DEF Prepare, Execute, Commit, Rollback, Goto, Come, Throw
<1>8. QED
  BY <1>3, <1>4, <1>5, <1>6, <1>7 DEF Step

LEMMA StepRefines ==
  ASSUME OracleInv, OracleInv', [Next]_vars
  PROVE  [W!Next]_(W!vars)
<1>1. ASSUME NEW c \in Calls, Step(c) PROVE W!Next
  <2>1. \A d \in Writes \ {c} : answer'[d] = answer[d]
    BY <1>1, StepApart DEF Apart, Calls
  <2>2. CASE UNCHANGED <<table, applied>>
    BY <1>1, <2>1, <2>2, AnswerStep, TellStep DEF W!Next
  <2>3. CASE ~UNCHANGED <<table, applied>>
    <3>1. Commit(c)
      BY <1>1, <2>3
         DEF Step, Begin, Recreate, Describe, Connect, Prepare, Execute, Rollback,
             Close, Undone, Drop, database
    <3>2. c \in Writes
      BY <3>1 DEF Commit, At, OracleInv, CallConsistent, InSession
    <3>3. At(c, "counting") /\ Exact(c) /\ Committed(c) /\ answer' = answer
      BY <2>3, <3>1 DEF Commit, Come, Throw, database
    <3>4. QED
      BY <3>2, <3>3, CommitStep DEF W!Next
  <2>4. QED
    BY <2>2, <2>3
<1>2. CASE Stop
  <2>1. UNCHANGED <<table, applied>>
    BY <1>2 DEF Stop
  <2>2. ASSUME NEW c \in Writes, answer'[c] # answer[c]
        PROVE  answer[c] = None /\ W!MayTell(c, answer'[c])
    BY <1>2, <2>2 DEF Stop, OracleInv, CallConsistent, At, Calls, W!MayTell
  <2>3. QED
    BY <2>1, <2>2, TellStep DEF W!Next
<1>3. CASE UNCHANGED vars
  BY <1>3 DEF vars, call, database, W!vars
<1>4. QED
  BY <1>1, <1>2, <1>3 DEF Next

\* Oracle implements ExactWrites: whatever fails and however the writes interleave, the
\* table changes by whole statements of exactly the expected number of rows, and
\* an answer tells the truth about it.
THEOREM WritesAreExact == Spec => ImplementsExactWrites
<1>1. Init => W!Init
  BY DEF Init, W!Init, Calls
<1>2. QED
  BY <1>1, StepRefines, InvInit, InvNext, PTL DEF Spec, ImplementsExactWrites, W!Spec
=============================================================================
