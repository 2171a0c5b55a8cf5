-------------------------------- MODULE Oracle --------------------------------
(***************************************************************************)
(* The Oracle server, broker/claude_mcp_oracle.py: each call of a tool has *)
(* a thread and a database session of its own, and meets the others only   *)
(* in the database (the rows they lock) and when the container stops.  Any *)
(* step towards the outside may fail: with a ToolError, whose text the     *)
(* agent reads ("error"), or with an exception nobody expected ("failed"), *)
(* of which the agent reads only that there was one.                       *)
(*                                                                         *)
(* A write is a DELETE of the rows it aims at: like any write, how many    *)
(* rows it changes depends on what the others committed.                   *)
(***************************************************************************)
EXTENDS Integers, FiniteSets

CONSTANTS
  Queries, Writes, Runs, \* calls of oracle_query, _write, _processing_run
  Rows,     \* rows of the table
  Targets,  \* rows that each write aims at
  Expected, \* expect_rows of each write
  None

Calls == Queries \cup Writes \cup Runs

ASSUME OracleAssumption ==
  /\ Writes \cap (Queries \cup Runs) = {}
  /\ Targets \in [Writes -> SUBSET Rows]
  /\ Expected \in [Writes -> Nat \ {0}]
  /\ None \notin {"result", "rolled back", "error", "failed", "lost"}

VARIABLES
  at,      \* where each call is
  outcome, \* what the call has come to: a result or an exception under way
  answer,  \* what the agent is answered
  warned,  \* calls whose answer says that an area may remain
  area,    \* the processing area of each run, as the services know it
  table,   \* rows of the table, as committed
  changed, \* rows changed, and locked, by the transaction of each write
  applied  \* writes that the database committed

call == <<at, outcome, answer, warned>>
database == <<table, changed, applied>>
vars == <<call, area, database>>

Errors == {"error", "failed"}
Outcomes == {"result", "rolled back"} \cup Errors
Points == {"new", "recreating", "describing", "connecting", "preparing",
           "executing", "counting", "rolling back", "closing", "dropping", "end"}
\* unknown: perhaps created, under a name the server doesn't know;
\* undropped: its drop was asked for, and failed.
Areas == {"none", "unknown", "created", "undropped", "dropped"}

TypeOK ==
  /\ at \in [Calls -> Points]
  /\ outcome \in [Calls -> Outcomes \cup {None}]
  /\ answer \in [Calls -> Outcomes \cup {"lost", None}]
  /\ warned \subseteq Runs
  /\ area \in [Runs -> Areas]
  /\ table \subseteq Rows
  /\ changed \in [Writes -> SUBSET Rows]
  /\ applied \subseteq Writes

Init ==
  /\ at = [c \in Calls |-> "new"]
  /\ outcome = [c \in Calls |-> None]
  /\ answer = [c \in Calls |-> None]
  /\ warned = {}
  /\ area = [c \in Runs |-> "none"]
  /\ table = Rows
  /\ changed = [c \in Writes |-> {}]
  /\ applied = {}

At(c, point) == at[c] = point

Goto(c, point) ==
  /\ at' = [at EXCEPT ![c] = point]
  /\ UNCHANGED <<outcome, answer, warned>>

\* The call comes to o: a result, or an exception that the steps at `point` handle.
Come(c, o, point) ==
  /\ at' = [at EXCEPT ![c] = point]
  /\ outcome' = [outcome EXCEPT ![c] = o]
  /\ UNCHANGED <<answer, warned>>

End(c, a) ==
  /\ at' = [at EXCEPT ![c] = "end"]
  /\ answer' = [answer EXCEPT ![c] = a]
  /\ UNCHANGED outcome

Throw(c, point) == \E o \in Errors : Come(c, o, point)

-----------------------------------------------------------------------------
\* The arguments and the statement are checked, and processing_run asks for its
\* token: nothing was done when it is refused.
Begin(c) ==
  /\ At(c, "new")
  /\ \/ Goto(c, IF c \in Runs THEN "recreating" ELSE "connecting")
     \/ \E a \in Errors : End(c, a) /\ UNCHANGED warned
  /\ UNCHANGED <<area, database>>

\* Mutant of Recreate: the agent isn't warned.
RecreateUnwarned(c) ==
  /\ At(c, "recreating")
  /\ \/ /\ area' = [area EXCEPT ![c] = "created"]
        /\ Goto(c, "describing")
     \/ /\ area' = [area EXCEPT ![c] = "unknown"]
        /\ \E a \in Errors : End(c, a)
        /\ UNCHANGED warned
  /\ UNCHANGED database

\* areas.recreate: Mediator creates the area and gives its schema; after an error
\* the area may exist all the same.
Recreate(c) ==
  /\ At(c, "recreating")
  /\ \/ /\ area' = [area EXCEPT ![c] = "created"]
        /\ Goto(c, "describing")
     \/ /\ area' = [area EXCEPT ![c] = "unknown"]
        /\ \/ End(c, "error") /\ warned' = warned \cup {c}
           \/ End(c, "failed") /\ UNCHANGED warned
  /\ UNCHANGED database

\* areas.connection: the DAL gives the account of the area.
Describe(c) ==
  /\ At(c, "describing")
  /\ Goto(c, "connecting") \/ Throw(c, "dropping")
  /\ UNCHANGED <<area, database>>

-----------------------------------------------------------------------------
\* Database.session, query and write.

\* Out of the session: the run drops its area, the other calls are answered.
Leave(c, o) ==
  IF c \in Runs THEN Come(c, o, "dropping")
  ELSE End(c, o) /\ UNCHANGED warned

Connect(c) ==
  /\ At(c, "connecting")
  /\ Goto(c, "preparing") \/ \E o \in Errors : Leave(c, o)
  /\ UNCHANGED <<area, database>>

\* The service is checked, the session tagged and its schema set; an error closes
\* the connection without a rollback, since nothing ran.
Prepare(c) ==
  /\ At(c, "preparing")
  /\ Goto(c, "executing") \/ Throw(c, "closing")
  /\ UNCHANGED <<area, database>>

\* A write waits for the rows that another transaction changed.
Blocked(c) == \E d \in Writes \ {c} : changed[d] \cap Targets[c] # {}

\* The statement runs, or fails: a write that waited for call_timeout, or a broken
\* connection, or a cursor that can't be closed after the rows were changed.
Execute(c) ==
  /\ At(c, "executing")
  /\ \/ c \notin Writes /\ Come(c, "result", "rolling back") /\ UNCHANGED changed
     \/ Throw(c, "rolling back") /\ UNCHANGED changed
     \/ /\ c \in Writes /\ ~Blocked(c)
        /\ changed' = [changed EXCEPT ![c] = Targets[c] \cap table]
        /\ Goto(c, "counting") \/ Throw(c, "rolling back")
  /\ UNCHANGED <<area, table, applied>>

\* Mutant of Exact: more rows than expected will do.
ExactOrMore(c) == Cardinality(changed[c]) >= Expected[c]

Exact(c) == Cardinality(changed[c]) = Expected[c]

Committed(c) ==
  /\ table' = table \ changed[c]
  /\ changed' = [changed EXCEPT ![c] = {}]
  /\ applied' = applied \cup {c}

\* The rows are counted, then committed: an error of the commit doesn't tell whether
\* the database did it.
Commit(c) ==
  /\ At(c, "counting")
  /\ \/ ~Exact(c) /\ Come(c, "rolled back", "rolling back") /\ UNCHANGED database
     \/ Exact(c) /\ Come(c, "result", "rolling back") /\ Committed(c)
     \/ Exact(c) /\ Throw(c, "rolling back") /\ (Committed(c) \/ UNCHANGED database)
  /\ UNCHANGED area

Undone(c) ==
  /\ changed' = IF c \in Writes THEN [changed EXCEPT ![c] = {}] ELSE changed
  /\ UNCHANGED <<table, applied>>

\* _rollback: an error is logged, and the outcome stays.
Rollback(c) ==
  /\ At(c, "rolling back")
  /\ Undone(c) \/ UNCHANGED database
  /\ Goto(c, "closing")
  /\ UNCHANGED area

\* Mutant of Close: an exception leaves the connection open, as without the `finally`.
CloseUnlessError(c) ==
  /\ At(c, "closing")
  /\ IF outcome[c] \in Errors THEN UNCHANGED database ELSE Undone(c)
  /\ \E o \in Errors \cup {outcome[c]} : Leave(c, o)
  /\ UNCHANGED area

\* The database ends the transaction with the connection.  An error of the close
\* takes the place of the outcome, even of a committed write.
Close(c) ==
  /\ At(c, "closing")
  /\ Undone(c)
  /\ \E o \in Errors \cup {outcome[c]} : Leave(c, o)
  /\ UNCHANGED area

-----------------------------------------------------------------------------
\* processing_run drops its area: after a ToolError, in `except`; otherwise, and when
\* that drop itself failed with an unexpected exception, in `finally`.  Only an
\* answer that is neither lost nor unexpected tells of a drop that failed.
Drop(c) ==
  /\ At(c, "dropping")
  /\ \/ /\ area' = [area EXCEPT ![c] = "dropped"]
        /\ End(c, outcome[c]) /\ UNCHANGED warned
     \/ /\ area' = [area EXCEPT ![c] = "undropped"]
        /\ \/ /\ End(c, outcome[c])
              /\ warned' = IF outcome[c] = "failed" THEN warned ELSE warned \cup {c}
           \/ IF outcome[c] = "error" THEN Come(c, "failed", "dropping")
              ELSE End(c, "failed") /\ UNCHANGED warned
  /\ UNCHANGED database

\* The container stops: its calls under way end without an answer and without their
\* `finally`, and the database undoes their transactions.
Stop ==
  LET underWay == {c \in Calls : at[c] \notin {"new", "end"}}
  IN /\ underWay # {}
     /\ at' = [c \in Calls |-> IF c \in underWay THEN "end" ELSE at[c]]
     /\ answer' = [c \in Calls |-> IF c \in underWay THEN "lost" ELSE answer[c]]
     /\ changed' = [c \in Writes |-> {}]
     /\ UNCHANGED <<outcome, warned, area, table, applied>>

Step(c) ==
  \/ Begin(c) \/ Recreate(c) \/ Describe(c)
  \/ Connect(c) \/ Prepare(c) \/ Execute(c) \/ Commit(c) \/ Rollback(c) \/ Close(c)
  \/ Drop(c)

Next == Stop \/ \E c \in Calls : Step(c)

Spec == Init /\ [][Next]_vars

-----------------------------------------------------------------------------
\* The writes keep the promise of ExactWrites: whatever fails, and however two writes
\* of the same rows interleave, the table changes by whole statements of exactly
\* the expected number of rows.  (claude_mcp_oracle.py write, session, _rollback)
W == INSTANCE ExactWrites WITH answer <- [c \in Writes |-> answer[c]]

ImplementsExactWrites == W!Spec

\* A processing area is never left silently: unless the server was stopped, a run that
\* knows its area has asked for its drop when it ends; and if the area may remain,
\* either the agent is told of it or the call ended with an unexpected exception.
\* (claude_mcp_oracle.py processing_run, _drop)
AreaNeverLeftSilently ==
  \A c \in Runs :
    At(c, "end") /\ answer[c] # "lost" =>
      /\ area[c] # "created"
      /\ area[c] \in {"unknown", "undropped"} => c \in warned \/ answer[c] = "failed"

InSession == {"connecting", "preparing", "executing", "rolling back", "closing"}
AfterStatement == {"rolling back", "closing"}

\* What the place of a call says of its kind, its outcome and its answer.
CallConsistent(c) ==
  /\ \/ at[c] \in {"new", "end"} \cup InSession
     \/ c \in Writes /\ At(c, "counting")
     \/ c \in Runs /\ at[c] \in {"recreating", "describing", "dropping"}
  /\ at[c] \in {"dropping"} \cup AfterStatement => outcome[c] # None
  /\ answer[c] = None <=> ~At(c, "end")

\* What the place of a write says of its transaction and of what the database did.
WriteConsistent(c) ==
  /\ changed[c] \subseteq Targets[c] \cap table
  /\ At(c, "counting") => changed[c] = Targets[c] \cap table
  /\ changed[c] # {} => at[c] \in {"counting"} \cup AfterStatement
  /\ c \in applied => at[c] \in {"end"} \cup AfterStatement
  /\ at[c] \in AfterStatement =>
       /\ outcome[c] = "result" => c \in applied
       /\ outcome[c] = "rolled back" => c \notin applied

\* What the place of a run says of its area.
RunConsistent(c) ==
  /\ at[c] \in {"new", "recreating"} => area[c] = "none"
  /\ at[c] \in {"describing"} \cup InSession => area[c] = "created"
  /\ At(c, "dropping") =>
       \/ area[c] = "created"
       \/ area[c] = "undropped" /\ outcome[c] = "failed"

\* A call that is answered left no transaction and locks no row, whatever failed: its
\* rollback, its close, or both.  Until then its transaction holds the rows that it
\* counted, which nobody else changes, and a run has its area as long as it needs it:
\* what the two properties above rest on.  That two transactions never hold the same
\* row is the database's part.  (claude_mcp_oracle.py session, write, _rollback)
OracleInv ==
  /\ TypeOK
  /\ \A c \in Calls : CallConsistent(c)
  /\ \A c \in Writes : WriteConsistent(c)
  /\ \A c \in Runs : RunConsistent(c)
  /\ \A c, d \in Writes : c # d => changed[c] \cap changed[d] = {}

\* The comment of processing_run after an error of Mediator: "Mediator may have
\* created the area without the server knowing its schema", hence the warning of
\* its answer.  A call that ends answered tells of the area it may have left.
AreaTold ==
  \A c \in Runs :
    At(c, "end") /\ answer[c] # "lost" =>
      area[c] \in {"none", "dropped"} \/ c \in warned
=============================================================================
