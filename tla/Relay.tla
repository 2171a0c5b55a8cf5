-------------------------------- MODULE Relay --------------------------------
(***************************************************************************)
(* One run of mcp-call (broker/mcp_call.py), the thread of the gateway     *)
(* that handles its connection (GatewayHandler of broker/claude_gateway.py)*)
(* and the MCP server it reaches (broker/mcp_server.py, or another server, *)
(* which may keep sessions and stream its answers).  mcp-call sends        *)
(* initialize, the notification initialized, then tools/call, and at the   *)
(* end DELETE if it knows of a session.  Either connection may break, each *)
(* part may be slow, and the gateway or the server may be started again.   *)
(***************************************************************************)
EXTENDS Integers, FiniteSets

CONSTANT Nothing

Messages == {"initialize", "initialized", "call", "delete"}
\* What mcp-call finds in an answer: a result, a result that says isError, or
\* anything else (a JSON-RPC error, another status than 200, no answer).
Bodies == {"result", "isError", "error"}
Answers == [body : Bodies, session : BOOLEAN, closes : BOOLEAN]

\* An answer with a body and nothing more.
Saying(body) == [body |-> body, session |-> FALSE, closes |-> FALSE]

\* The first part of a streamed answer, and the others before its end.
Head == Saying("head")
Chunk == Saying("chunk")

ASSUME RelayAssumption ==
  /\ Nothing \notin Answers \cup {Head, Chunk}
  /\ Nothing \notin Messages \cup {"text", "isError", "failure"}

VARIABLES
  at, message, \* mcp-call: what it does, for which message
  line,        \* its connection to the gateway
  known,       \* whether it knows the id of its session
  outcome,     \* what it prints and returns
  arrived,     \* the message on the connection, Nothing when the gateway has read it
  answer,      \* the answer on the connection, or a part of a stream
  thread, request, \* the handler of the connection: what it does, for which message
  routed,      \* whether the gateway has a route for the server
  work,        \* messages that the server handles
  reply,       \* the answer of the server to the request of the thread
  session,     \* whether the server keeps a session for mcp-call
  ran, failed, \* history: how often the tool ran, and whether it failed
  refused,     \* history: whether the gateway refused the call
  disturbed    \* history: whether a connection broke or a wait was given up

client == <<at, message, line, known, outcome>>
gateway == <<thread, request, routed>>
server == <<work, session, ran, failed>>
relayVars == <<client, arrived, answer, gateway, reply, server, refused, disturbed>>

RelayTypeOK ==
  /\ at \in {"send", "wait", "read", "end"}
  /\ message \in Messages
  /\ line \in {"closed", "open"}
  /\ known \in BOOLEAN
  /\ outcome \in {"text", "isError", "failure"} \cup {Nothing}
  /\ arrived \in Messages \cup {Nothing}
  /\ answer \in Answers \cup {Nothing, Head, Chunk}
  /\ thread \in {"none", "idle", "checking", "checked", "forwarding", "sent", "streaming"}
  /\ request \in Messages
  /\ routed \in BOOLEAN
  /\ work \subseteq Messages
  /\ reply \in Answers \cup {Nothing}
  /\ session \in BOOLEAN
  /\ ran \in Nat
  /\ failed \in BOOLEAN
  /\ refused \in BOOLEAN
  /\ disturbed \in BOOLEAN

RelayInit ==
  /\ at = "send" /\ message = "initialize" /\ line = "closed"
  /\ known = FALSE /\ outcome = Nothing
  /\ arrived = Nothing /\ answer = Nothing
  /\ thread = "none" /\ request = "initialize" /\ routed \in BOOLEAN
  /\ work = {} /\ reply = Nothing /\ session = FALSE
  /\ ran = 0 /\ failed = FALSE
  /\ refused = FALSE /\ disturbed = FALSE

-----------------------------------------------------------------------------
\* mcp-call.

\* Mutant of Close: the session is only closed after an answer to the call.
CloseAnswered(usable, left) ==
  IF known' /\ usable /\ message # "delete" /\ outcome' # "failure"
  THEN at' = "send" /\ message' = "delete" /\ line' = left
  ELSE at' = "end" /\ line' = "closed" /\ UNCHANGED message

\* Session.close, whatever happened: DELETE if a session is known and the
\* connection, left open or closed, can be used; its errors are suppressed.
Close(usable, left) ==
  IF known' /\ usable /\ message # "delete"
  THEN at' = "send" /\ message' = "delete" /\ line' = left
  ELSE at' = "end" /\ line' = "closed" /\ UNCHANGED message

\* The end of call, with its outcome; that of DELETE changes no outcome.
Finish(result, usable, left) ==
  /\ outcome' = IF message = "delete" THEN outcome ELSE result
  /\ Close(usable, left)

\* _send: the request is sent, on a new connection when there is none.
Post ==
  /\ at = "send"
  /\ at' = "wait"
  /\ line' = "open"
  /\ thread' = IF line = "closed" THEN "idle" ELSE thread
  /\ arrived' = message
  /\ answer' = Nothing
  /\ UNCHANGED <<message, known, outcome, request, routed, reply, server, refused, disturbed>>

\* The gateway can't be reached, or the connection breaks: http.client sends
\* nothing more on it.
PostFails ==
  /\ at = "send"
  /\ UNCHANGED known
  /\ Finish("failure", FALSE, "closed")
  /\ disturbed' = TRUE
  /\ UNCHANGED <<arrived, answer, gateway, reply, server, refused>>

\* getresponse, then the answer in one piece, or its parts as they come.
ReadHead ==
  /\ at = "wait" /\ answer = Head
  /\ at' = "read"
  /\ answer' = Nothing
  /\ UNCHANGED <<message, line, known, outcome, arrived, gateway, reply, server, refused, disturbed>>

ReadChunk ==
  /\ at = "read" /\ answer = Chunk
  /\ answer' = Nothing
  /\ UNCHANGED <<client, arrived, gateway, reply, server, refused, disturbed>>

\* Mutant of Outcome: isError isn't looked at.
OutcomeOfAny(body) == IF body = "error" THEN "failure" ELSE "text"

\* request and call: what the answer to tools/call means.
Outcome(body) ==
  CASE body = "result" -> "text"
    [] body = "isError" -> "isError"
    [] OTHER -> "failure"

NextMessage == [initialize |-> "initialized", initialized |-> "call"]

\* The answer to a notification is not looked at; an answer that closes the
\* connection leaves it closed, and http.client opens another one if needed.
ReadAnswer ==
  /\ at \in {"wait", "read"} /\ answer \in Answers
  /\ answer' = Nothing
  /\ known' = (known \/ answer.session)
  /\ LET left == IF answer.closes THEN "closed" ELSE "open"
     IN \/ /\ \/ message = "initialize" /\ answer.body # "error"
              \/ message = "initialized"
           /\ message' = NextMessage[message]
           /\ at' = "send"
           /\ line' = left
           /\ UNCHANGED outcome
        \/ /\ \/ message = "initialize" /\ answer.body = "error"
              \/ message \in {"call", "delete"}
           /\ Finish(Outcome(answer.body), TRUE, left)
  /\ UNCHANGED <<arrived, gateway, reply, server, refused, disturbed>>

\* The connection ends instead of an answer: http.client closes it, so DELETE
\* goes on another.
Disconnected ==
  /\ at = "wait" /\ thread = "none" /\ answer = Nothing
  /\ UNCHANGED known
  /\ Finish("failure", TRUE, "closed")
  /\ disturbed' = TRUE
  /\ UNCHANGED <<arrived, answer, gateway, reply, server, refused>>

\* Mutant of TimesOut: the connection has no timeout.
NeverTimesOut == FALSE /\ UNCHANGED relayVars

\* Mutant of Abandon: the connection is used again.
AbandonGoingOn ==
  /\ UNCHANGED known
  /\ Finish("failure", TRUE, "open")
  /\ disturbed' = TRUE
  /\ UNCHANGED <<arrived, answer, gateway, reply, server, refused>>

\* Nothing comes during the timeout of mcp-call.  In the middle of an answer,
\* or when it ends there, DELETE is sent but its answer isn't read; before an
\* answer, http.client refuses to send it.
Abandon ==
  /\ UNCHANGED known
  /\ Finish("failure", FALSE, "closed")
  /\ arrived' = IF at = "read" /\ known /\ message # "delete" THEN "delete" ELSE arrived
  /\ disturbed' = TRUE
  /\ UNCHANGED <<answer, gateway, reply, server, refused>>

TimesOut == at \in {"wait", "read"} /\ answer = Nothing /\ Abandon

Incomplete == at = "read" /\ thread = "none" /\ answer = Nothing /\ Abandon

\* The script of the agent is killed, and mcp-call with it.
Killed ==
  /\ at # "end"
  /\ at' = "end" /\ line' = "closed"
  /\ disturbed' = TRUE
  /\ UNCHANGED <<message, known, outcome, arrived, answer, gateway, reply, server, refused>>

Client ==
  \/ Post \/ PostFails \/ ReadHead \/ ReadChunk \/ ReadAnswer
  \/ Disconnected \/ TimesOut \/ Incomplete

-----------------------------------------------------------------------------
\* The thread of the gateway that handles the connection.

\* _reply and _relay: the handler then reads the next request.
Reply(a) ==
  IF line = "open"
  THEN /\ answer' = a
       /\ thread' = IF a.closes THEN "none" ELSE "idle"
  ELSE thread' = "none" /\ UNCHANGED answer

\* _reply_before_body.
Unrouted ==
  /\ ~routed
  /\ Reply([body |-> "error", session |-> FALSE, closes |-> TRUE])

\* do_POST and do_DELETE, from the request read to the check.
ReadRequest ==
  /\ thread = "idle" /\ arrived # Nothing
  /\ request' = arrived
  /\ arrived' = Nothing
  /\ \/ Unrouted
     \/ /\ routed
        /\ thread' = IF arrived = "call" THEN "checking" ELSE "forwarding"
        /\ UNCHANGED answer
  /\ UNCHANGED <<client, routed, reply, server, refused, disturbed>>

\* mcp-call closed the connection; a message it sent just before may be lost.
EndOfConnection ==
  /\ thread = "idle" /\ line = "closed"
  /\ thread' = "none"
  /\ arrived' = Nothing
  /\ UNCHANGED <<client, answer, request, routed, reply, server, refused, disturbed>>

\* check refuses the call (_reply_tool_error), or lets it through.
Check ==
  /\ thread = "checking"
  /\ \/ refused' = TRUE /\ Reply(Saying("isError"))
     \/ thread' = "checked" /\ UNCHANGED <<refused, answer>>
  /\ UNCHANGED <<client, arrived, request, routed, reply, server, disturbed>>

\* _client_gone.
LookForClient ==
  /\ thread = "checked"
  /\ thread' = IF line = "closed" THEN "none" ELSE "forwarding"
  /\ UNCHANGED <<client, arrived, answer, request, routed, reply, server, refused, disturbed>>

Forward ==
  /\ thread = "forwarding"
  /\ thread' = "sent"
  /\ work' = work \cup {request}
  /\ reply' = Nothing
  /\ UNCHANGED <<client, arrived, answer, request, routed, session, ran, failed, refused, disturbed>>

\* An OSError before the answer is a 502.
Unreachable ==
  /\ thread = "forwarding"
  /\ Reply(Saying("error"))
  /\ disturbed' = TRUE
  /\ UNCHANGED <<client, arrived, request, routed, reply, server, refused>>

\* Mutant of Broken: the request is sent again.
BrokenRetry ==
  /\ thread = "sent"
  /\ thread' = "forwarding"
  /\ disturbed' = TRUE
  /\ UNCHANGED <<client, arrived, answer, request, routed, reply, work, session, ran, failed, refused>>

\* The connection to the server breaks before its answer, which is a 502, or
\* in the middle of it, which ends the handler (IncompleteRead is no OSError).
Broken ==
  /\ thread \in {"sent", "streaming"}
  /\ \/ thread = "sent" /\ Reply(Saying("error"))
     \/ thread' = "none" /\ UNCHANGED answer
  /\ disturbed' = TRUE
  /\ UNCHANGED <<client, arrived, request, routed, reply, work, session, ran, failed, refused>>

\* _relay: an answer with a length is read in full, then sent.
RelayWhole ==
  /\ thread = "sent" /\ reply # Nothing
  /\ Reply(reply)
  /\ UNCHANGED <<client, arrived, request, routed, reply, server, refused, disturbed>>

\* _relay: a streamed answer is sent as it comes.
RelayHead ==
  /\ thread = "sent" /\ line = "open"
  /\ thread' = "streaming"
  /\ answer' = Head
  /\ UNCHANGED <<client, arrived, request, routed, reply, server, refused, disturbed>>

RelayChunk ==
  /\ thread = "streaming" /\ line = "open" /\ answer = Nothing
  /\ answer' = Chunk
  /\ UNCHANGED <<client, arrived, gateway, reply, server, refused, disturbed>>

RelayEnd ==
  /\ thread = "streaming" /\ line = "open" /\ answer = Nothing /\ reply # Nothing
  /\ Reply(reply)
  /\ UNCHANGED <<client, arrived, request, routed, reply, server, refused, disturbed>>

\* The client left: either the write fails, and the handler ends, or the stream
\* ended first, and the handler reads what was sent before the end.
ClientLeft ==
  /\ thread = "streaming" /\ line = "closed"
  /\ thread' \in {"none", "idle"}
  /\ UNCHANGED <<client, arrived, answer, request, routed, reply, server, refused, disturbed>>

\* claude_gateway on the host: the gateway ends, and starts with its routes.
Restart ==
  /\ thread' = "none"
  /\ routed' \in BOOLEAN
  /\ disturbed' = TRUE
  /\ UNCHANGED <<client, arrived, answer, request, reply, server, refused>>

Gateway ==
  \/ ReadRequest \/ EndOfConnection \/ Check \/ LookForClient \/ Forward \/ Unreachable
  \/ Broken \/ RelayWhole \/ RelayHead \/ RelayChunk \/ RelayEnd \/ ClientLeft \/ Restart

-----------------------------------------------------------------------------
\* The server: McpServer.handle, or a server that keeps sessions.

\* Its answer reaches the thread that waits for it, if it still does.
Respond(m, a) ==
  reply' = IF thread \in {"sent", "streaming"} /\ request = m THEN a ELSE reply

\* _initialize; another server may create a session, or refuse.
Initialize ==
  /\ "initialize" \in work
  /\ \/ /\ session' \in BOOLEAN
        /\ Respond("initialize", [body |-> "result", session |-> session', closes |-> FALSE])
     \/ UNCHANGED session /\ Respond("initialize", Saying("error"))
  /\ work' = work \ {"initialize"}
  /\ UNCHANGED <<ran, failed>>

\* A notification has no answer; DELETE ends the session.
Accept(m) ==
  /\ m \in work \cap {"initialized", "delete"}
  /\ session' = (session /\ m # "delete")
  /\ Respond(m, Saying("result"))
  /\ work' = work \ {m}
  /\ UNCHANGED <<ran, failed>>

\* _call: the tool runs and succeeds, or fails (a ToolError, or any exception).
Call ==
  /\ "call" \in work
  /\ ran' = ran + 1
  /\ failed' \in BOOLEAN
  /\ Respond("call", Saying(IF failed' THEN "isError" ELSE "result"))
  /\ work' = work \ {"call"}
  /\ UNCHANGED session

\* An unknown tool, or a session that the server doesn't know.
CallUnknown ==
  /\ "call" \in work
  /\ Respond("call", Saying("error"))
  /\ work' = work \ {"call"}
  /\ UNCHANGED <<session, ran, failed>>

\* The server stops: its requests and its sessions are gone.
Crash ==
  /\ work # {} \/ session
  /\ work' = {}
  /\ session' = FALSE
  /\ UNCHANGED <<reply, ran, failed>>

Server ==
  /\ Initialize \/ Call \/ CallUnknown \/ (\E m \in Messages : Accept(m)) \/ Crash
  /\ UNCHANGED <<client, arrived, answer, gateway, refused, disturbed>>

RelayNext == Client \/ Killed \/ Gateway \/ Server

RelaySpec == RelayInit /\ [][RelayNext]_relayVars

\* mcp-call is scheduled; nothing else is promised.
RelayFairSpec == RelaySpec /\ WF_relayVars(Client)

-----------------------------------------------------------------------------
\* mcp-call and the thread of its connection are in step: the thread handles
\* the message that mcp-call waits for, what is on the connection is its answer,
\* and no thread is left at work when a message is sent.
InStep ==
  /\ thread \in {"checking", "checked"} => request = "call"
  /\ at = "send" => /\ thread \in {"none", "idle"}
                    /\ line = "closed" => thread = "none"
                    /\ thread = "idle" => arrived = Nothing
                    /\ answer = Nothing
  /\ at \in {"wait", "read"} =>
       /\ line = "open"
       /\ thread \in {"none", "idle"} \/ (request = message /\ arrived = Nothing)
       /\ thread = "idle" => (arrived = message) # (answer # Nothing)
       /\ answer \in Answers => /\ thread \in {"none", "idle"} /\ arrived = Nothing
                                /\ answer.closes => thread = "none"
       /\ answer \in {Head, Chunk} => thread \in {"none", "streaming"}

\* The call is in one place at most: not sent yet, on its way to the server, with
\* the server, or run; and only a call on its way can be refused.
WithThread == request = "call" /\ thread \in {"checking", "checked", "forwarding"}
OnItsWay == arrived = "call" \/ WithThread
NeverRan == ran = 0 /\ "call" \notin work
CallOnce ==
  /\ message \in {"initialize", "initialized"} \/ (message = "call" /\ at = "send") =>
       NeverRan /\ ~OnItsWay /\ ~refused
  /\ OnItsWay => NeverRan /\ ~refused
  /\ ~(arrived = "call" /\ WithThread)
  /\ refused => NeverRan
  /\ "call" \in work => ran = 0
  /\ ran <= 1

\* What an answer to the call says is what happened.
TrueOf(body) ==
  /\ body = "result" => ran = 1 /\ ~failed /\ ~refused
  /\ body = "isError" => IF refused THEN ran = 0 ELSE ran = 1 /\ failed
Replied == thread \in {"sent", "streaming"} /\ reply # Nothing
AnswersTrue ==
  /\ Replied /\ request = "call" => TrueOf(reply.body)
  /\ at \in {"wait", "read"} /\ message = "call" /\ answer \in Answers =>
       TrueOf(answer.body)

\* As long as nothing breaks, the server only handles the message that mcp-call
\* waits for, and mcp-call knows of the session, or is about to, until DELETE ends it.
SessionKnown ==
  ~disturbed =>
    /\ work \subseteq {request} /\ (work # {} => thread \in {"sent", "streaming"})
    /\ Replied => request \notin work
    /\ at = "end" => thread \in {"none", "idle"} /\ arrived = Nothing /\ ~session
    /\ ~routed => thread \in {"none", "idle"} /\ ~session
    /\ session => \/ known
                  \/ answer \in Answers /\ answer.session
                  \/ Replied /\ request = "initialize" /\ reply.session
    /\ message = "delete" /\ at \in {"wait", "read"} /\ (answer \in Answers \/ Replied) =>
         ~session

\* The three parts agree on where the call and the session are: what the properties
\* below rest on (mcp_call.py:102-119, claude_gateway.py:735-776).
RelayInv == RelayTypeOK /\ InStep /\ CallOnce /\ AnswersTrue /\ SessionKnown

-----------------------------------------------------------------------------
\* What mcp-call prints is what happened: the text of a result, after the tool
\* ran and succeeded; a tool error, after it ran and failed, or after the
\* gateway refused it, which then never runs it (mcp_call.py:8, 123-146).
OutcomeTrue ==
  /\ outcome = "text" => ran = 1 /\ ~failed /\ ~refused
  /\ outcome = "isError" => IF refused THEN ran = 0 ELSE ran = 1 /\ failed

\* However connections break, the tool runs at most once for one mcp-call: no
\* part sends again what may have run (claude_gateway.py:742, mcp_call.py:112).
RunsAtMostOnce == ran <= 1

\* Once mcp-call is over and what it sent is handled, the server keeps no
\* session for it, whatever the answers were, unless a connection broke or a
\* wait was given up on the way (mcp_call.py:102-107, 138-139).
SessionsEnded ==
  at = "end" /\ thread = "none" /\ work = {} /\ session => disturbed

\* mcp-call ends even if the gateway or the server never answers, unless a
\* server keeps sending parts of an answer (the timeout of mcp_call.py:74 is
\* that of each read of the connection).
CallEnds == <>(at = "end") \/ []<>(answer = Chunk)
=============================================================================
