# Verification of the agent's services

This folder models, in TLA+, the services that stand between the coding agents
(each in a container of its own) and what the person lets them use: the MCP
gateway, the secret broker, the rules of access the two share, the servers of the
tools for Oracle, SAS and Keycloak, the client that scripts use to call them, and the
commands of the host that start and stop all this.  TLC checks the modules on small
instances, and TLAPS proves the main results for any number of groups, threads, calls,
files, terminals and slots.

1. [The system](#1-the-system): inventory
2. [Modules](#2-modules): what models what, and how
3. [Runs](#3-runs): what each run checks, its bounds, its fairness
4. [Proofs](#4-proofs)
5. [Where the code and its texts disagree](#5-where-the-code-and-its-texts-disagree)
6. [What is not modelled](#6-what-is-not-modelled)
7. [Plan](#7-plan)

Commands, in this folder: `tlc -workers 2 -config <run>.cfg <module>` for a run
(the table of section 3 gives the module), `tlapm <module>.tla` for the proofs.

## 1. The system

Agents run in containers without secrets.  What they need from outside goes
through services of the host's Docker network; the person, on the host, commands
these services through administration sockets (`launch.sh claude_broker ...`,
`launch.sh claude_gateway ...`).  A *group* is what the person opens and closes:
`git` and `gh` for the broker, one per MCP server for the gateway.

| Component | State | Operations | Hard behaviour |
|---|---|---|---|
| **Windows** (`broker/access.py`) | `_opened`, `_last_used`, `_last_notified`, one lock | `open`, `use`, `revoke`, `close_all`, `notify_once`, `status_lines` | the clock is read before the lock; expiry has no timer: the next call collects it; `on_close` runs after the lock |
| **Administration socket** (`broker/access.py`) | none | one command per connection, a thread each | commands run at the same time as requests and as one another |
| **Approvals** (`broker/claude_gateway.py`) | `_pending`, `_allowed_until`, an event per call, one lock | `request`, `decide`, `forget_group`, `pending_lines` | a decision races the timeout; a call can be decided twice; allowances outlive the call they were given for |
| **MCP gateway** (`broker/claude_gateway.py`) | windows, approvals | per request: classify, use the group, ask the person, check the agent is still there, forward and relay; commands `allow`, `revoke`, `status`, `approve`, `deny` | what was checked (group, allowance, agent) changes during a wait of minutes |
| **Secret broker** (`broker/claude_broker.py`) | the secrets file in memory (lock), windows (their own lock) | `git_credential`, `gh_token`; commands `load`, `lock`, `allow`, `revoke`, `status`, `unlocked`, `export` | secrets and groups change in two steps under two locks |
| Clients of the broker (`git_credential_broker.py`, `gh`) | none | one HTTP request | - |
| **MCP server skeleton**, **`mcp_call`** | a session, the connection of a call | JSON-RPC dispatch; three messages and the end of the session | one connection for all, that breaks or times out in the middle of an answer; a handler that outlives its client |
| **Oracle server** (`claude_mcp_oracle.py`) | a connection per call; processing areas on the server | `query`, `write`, `processing_run` | commit only with the announced number of rows; the area is dropped whatever failed |
| **SAS server** (`claude_mcp_sas.py`) | the login rejected by the server; the drop folder | `exec`, `run_sas`, `put`, `get` | a rejection recorded while other logins are under way; a folder that the agent changes between a check and its use; several steps that fail or hang |
| **Keycloak server** (`claude_mcp_keycloak.py`) | cache of tokens | `token` | concurrent calls, expiry, a clients file that changes |
| **Start and stop of services** (`launch.sh`) | containers, networks, settings files of Docker | `claude_broker`, `claude_gateway`, `claude_mcp start/stop` | shell commands of several terminals interleave; a command fails in the middle |
| **Slots** (`launch.sh`) | a lock, a home and a container per slot | launch of an agent | concurrent launches, a lock inherited by what a launch starts, containers left by a crash or a killed launch |
| Edition of the secrets (`launch.sh`, `age_passphrase.py`) | the encrypted file | `secret edit` | two editions at once, an interruption |
| Speech (`notifications/`) | a folder used as a queue | `agent-notify` writes, the relay reads and speaks | several writers with their own clocks, a relay that stops |
| Memory hooks (`hooks/`) | the index of a session and the shared one | copy at start, compare at the end | other agents write it meanwhile |
| Entrypoint, image, profiles, installers | none of their own | sequential set-up | - |

Interactions.  The gateway and the broker each own a `Windows`, called from the
threads of the agents' requests and from those of the commands of the host.  The
gateway also owns an `Approvals`; the only path from the windows to the approvals
is the callback `on_close`, which the windows call without their lock and which
takes the lock of the approvals (`forget_group`).  The broker's `on_close` only
writes to the log.  Neither lock is ever held while waiting for the person or for
a server.  A call of a tool goes from the agent, or from `mcp_call` in one of its scripts,
to the gateway, which forwards it to one of the servers; these have no access to each
other.  The gateway reaches a server through a Docker network of their own, which
`claude_gateway` and `claude_mcp` join it to.

What makes each part correct:

- Windows: what goes through is within the person's authorisation, for threads
  whose clock readings are out of order with their locks; a closing is reported
  once; a refusal is announced to the person, and announcements are spaced.
- Approvals: the last answer given to the person is what happens; a decision is
  never lost; a call without a decision of its own goes through only by an
  allowance announced for its group, tool and agent.
- Gateway: a write runs only on the person's word; a call given up before it was
  let through never runs; the allowances of a closed group are forgotten; every
  request ends.
- Broker: a group opened under some secrets gives no access to others; an answer is that
  of one file, which was loaded during the request.
- Oracle server: whatever fails, and however two writes of the same rows meet, a table
  changes by whole statements of the announced number of rows, and the answers are true;
  a processing area that may remain is never left silently.
- SAS server: a rejected login is not tried again, lest the account be locked; a put sends
  exactly the files it was asked for; a get answered as done left the whole file; a call
  whose process hangs ends, and one that waits for the other end of a named pipe keeps none
  of the others.
- Keycloak server: the token of an answer is that of a client of the profile, and lasts.
- `mcp_call` and its way to a server: what it prints is what happened; the tool runs at most
  once; the session is ended; it ends.
- Start and stop: a running gateway reaches every started server; the settings file of a
  server doesn't stay; a server said to be started listens.
- Slots: one agent per home; a slot is free when its launch is over.

`PROJECT.json` lists every component with its status and, under `hazards`, the
places where the code could go wrong in a way a test would hardly reach.

## 2. Modules

| Module | Code | What it is |
|---|---|---|
| `Windows` | `access.py` 72-191 | the class `Windows`, at the granularity of its lock |
| `Lease` | - | abstract: what opening a group promises the person |
| `WindowsLease` | - | `Windows` with two history variables, mapped to `Lease` |
| `WindowsProofs` | - | theorems about `Windows` and `WindowsLease` |
| `Approvals` | `claude_gateway.py` 445-531 | the class `Approvals` |
| `ApprovalsProofs` | - | theorems about `Approvals` |
| `Consent` | - | abstract: what the gateway promises the person |
| `Gateway` | `claude_gateway.py` 541-776 | composes `Windows` and `Approvals` with the handlers and the commands; implements `Consent` |
| `GatewayHistory` | - | `Gateway` with the allowances that outlive their window |
| `GatewayProofs` | - | theorems about `Gateway` and `GatewayHistory`, and about `Relay`, whose definitions have names of their own |
| `Entries` | `claude_broker.py` 99-232, 259-305 | which secrets files are loaded, and which entry answers a request (operators only) |
| `Broker` | `claude_broker.py` 238-466 | composes `Windows` and `Entries` with the requests and the commands |
| `BrokerHistory` | - | `Broker` with the groups opened under former secrets and the files of each request |
| `BrokerProofs` | - | theorems about `Broker` and `BrokerHistory` |
| `Oracle` | `claude_mcp_oracle.py` 334-442, 535-614 | the calls of the three tools, their sessions, the rows of a table and the processing areas |
| `ExactWrites` | - | abstract: what a write promises the agent; `Oracle` implements it |
| `OracleProofs` | - | theorems about `Oracle` |
| `Sas` | `claude_mcp_sas.py` 99-346 | the calls of the SAS tools, the rejected login and the drop folder |
| `SasProofs` | - | theorems about `Sas` |
| `Keycloak` | `claude_mcp_keycloak.py` 55-171 | the calls of the tool `token`, the clients file and the cache |
| `KeycloakProofs` | - | theorems about `Keycloak` |
| `Relay` | `mcp_call.py` 46-185, `claude_gateway.py` 671-819, `mcp_server.py` 83-201 | one call of `mcp_call`: composes the client, the thread of its connection in the gateway and the server |
| `Host` | `launch.sh` 314-407, 479-594 | `claude_gateway`, `claude_gateway_stop` and `claude_mcp` in several terminals, over the containers and networks of Docker |
| `Slots` | `launch.sh` 63-220, 731-739 | the launches of the agents of a profile |
| `LaunchProofs` | - | theorems about `Host` and `Slots`, whose definitions have names of their own |
| `MC...` | - | small instances for TLC: constants and symmetry |

`PROJECT.json` (`map`) gives the lines of every definition.

**Where a thread can be interrupted.** A section under a lock is one action; what
comes before and after it is another.  So a `use` is `UseCall` (reads the clock),
`UseLocked` (collects the expired groups, decides, records the use), one `Report`
per closed group (`on_close`, without the lock), and for a refusal `NotifyRefusal`
(`notify_once` reads the clock again) and `NotifyLocked`.  `open`, `revoke` and
`close_all` read the clock, if at all, under the lock: one action each.  The
dictionaries of the code are functions that map an absent key to `None`.

**Approvals.** `request` is `Request` (under the lock: let through by an allowance,
or listed), `StartWait` (after the notifier, the wait begins and its deadline is
fixed), `Wake` (the event is set, or the time is over; a thread may be late), and
`Leave` (under the lock: reads the event and the decision, leaves the list).  The
event, not the result of the wait, decides the outcome.  `Decide` is the whole of
`decide` for `approve`, `approve --tool` and `deny`.  Calls have no number: `decide`
without an id takes the oldest waiting call, which is one of those it may take with
one.  `answered` and `announced` record what the host was told; no guard of the
code's steps reads them.

**Gateway.** Each request has a thread, whose place is `handler`; its kind (not a
tool call, or a denied, read or write tool) is chosen when it is received.
`Receive` to `Relay` follow `do_POST`, `_refusal` and `_forward`; the thread's steps
inside `Windows` and `Approvals` are those modules' actions, instantiated on the
shared variables.  `Report` composes the windows' report with `Forget`, because
`on_close` is `forget_group`.  `GiveUp` is the agent closing its connection; the
handler looks at it once, after the approval (`CheckClient`).  `Send` succeeds or
finds the server unreachable; `Relay` ends the request with the answer or with a
connection that breaks.

**Broker.** A request reads the secrets, then uses its group, then answers with the
secrets it read.  `load` and `lock` are two actions (`SetSecrets`, `CloseGroups`),
`allow` two (`Allow` checks that the broker is unlocked, `OpenGroup` opens), because
each takes the two locks in turn.  Secrets are known by the file they come from: a
record of its entries, as `Entries` describes it.  A URL is a sequence of case-folded
parts, so that the prefix test of `covers`, which stops at a `/`, is `IsPrefix`.

**Oracle.** A call has a thread, and a connection of its own.  `Begin` is everything before
the first effect (arguments, the check of the statement, the token); `Recreate` and
`Describe` are the two requests of `processing_run` before its query; `Connect`, `Prepare`,
`Execute`, `Commit`, `Rollback` and `Close` follow `Database.session` around `query` and
`write`, one action per exchange with the database.  An exception anywhere ends in `Close`:
it is the `finally` of `session`, with which the database ends the transaction.  `Drop` is
one attempt of `_drop`.  Each of them may fail, with a `ToolError`, whose text the agent
reads (outcome `error`), or with any other exception (`failed`), of which `McpServer._call`
only says that the tool failed.  An error of `Rollback` is logged and changes nothing; one
of `Close` replaces the outcome, as in Python.  `Stop` ends the calls under way without
their `finally`.  The rows a write changes depend on what was committed before: a write is a
DELETE of the rows it aims at (`Targets`), waits for those that another transaction holds
(`Blocked`), and finds only those that are still in the table.

**Sas.** A call has a thread.  `Connect` reads `_login_rejected` under its lock; `Run` is
the process of ssh or scp, which succeeds, fails, hangs (`Stop`: its timeout) or is
rejected; `Record` takes the lock again.  A put opens and copies each of its files (`Open`,
`Check`, `CopyFromDrop`), then runs two processes; a get runs one, then opens, truncates and
writes its file part by part.  An open file is known by its path and by where it really is;
what is at a path may be replaced at any time by the agent (`Replace`), with a link, with a
named pipe or with a folder that leads elsewhere.  `os.open` has no O_NONBLOCK: on a pipe it
waits in `blocked` for the other end (`OpenOtherEnd`), which nothing promises, and only then
is the pipe refused by `Check`.  `Connect` joins the check of the record and the start of
the process that follows it: a login counts as under way from the check.  A ToolError and
another exception are told apart, as in Oracle.  A command may print the message of a
rejected login itself: `_connect` then records a rejection that didn't happen.  `Restart` is
that of the container: the calls under way end without an answer and the record is lost.

**Keycloak.** `Read` reads the clients file, `Look` looks in the cache under the lock, `Ask` is
the request to Keycloak, which fails or issues a token that lasts any time or whose expiry
can't be read, `Store` takes the lock again.  The secret is that of the profile or the shared
one (`SecretFor`), though the cache is by client.  `Edit` is the person changing the clients
file, `Tick` the clock.

**Relay.** The client, the thread and the server each have their place; the connection holds
one message towards the gateway (`arrived`) and one answer, or a part of one, towards the
client (`answer`).  `http.client` decides what happens after an error: before an answer it
refuses to send anything more, in the middle of one it sends DELETE but its answer can't be
read, after a connection that ended it opens another (`Abandon`, `Disconnected`).  A read of the
server's answer may end in two ways, before it (a 502) or within it, where the handler dies of
an exception that isn't an OSError (`Broken`).  The server is any MCP server: one of the
repository's keeps no session and answers in one piece, others may do both.  The check of the
gateway is reduced here to its outcome, since `Gateway` has its details.

**Host.** Each docker command is one action, and so is each test of the shell between two of
them; what a function has decided on is kept in the place of its command.  `End` with `FALSE`
is `return 1`, and every docker command that is tested may fail.  `Feed` and `Listen` are the
script and the process inside a server.  The person may interrupt any command (`Interrupt`), a
server may end at any time (`Exit`), which empties its /tmp.  `joiner`, `started`, `disturbed`
and `failed` are histories that no step reads.

**Slots.** A lock of `flock` is held by the processes that have its file open: `holders`.  A
launch that is killed with its terminal, or left by a detach from `docker run -it`, gives
its lock back while its container runs on (`Kill`); a crash of Docker leaves containers
stopped; the speech relay, which outlives the launch that started it, must not inherit the
lock (`9>&-` at line 154).

**Abstract specifications.** `Lease` says, in terms of when the person authorised a
group and of when requests arrived, what may be granted: only while the authorisation
stands, less than `MaxLimit` after it was given, less than `IdleLimit` after the
latest use.  It allows any refusal.  `Consent` says of each call of an agent what may
run: a call of a tool that its group admitted while it was open (`Admit`); of these, a read, a
write whose last word from the person is yes, or one without a word while a permit given for
its tool lasts.  A request other than `tools/call` needs no group.  The refinement mappings are
in `WindowsLease` (`RequestOf`) and `Gateway` (`CallOf`: a call is admitted when `use` has let it
through, before it returns).  `ExactWrites` lets a table
change only by a whole write that finds exactly the rows it announced, once, and an answer
say only what is true of it; its state is a part of that of `Oracle` (`W`).

## 3. Runs

| Run | Module | Checks | States |
|---|---|---|---|
| `windows` | `MCWindowsLease` | `LeaseInv`, `RefusalsAnnounced`, `ImplementsLease`, `EveryClosingReportedOnce`, `NotificationsSpaced`, `CallsReturn` | 380 k |
| `approvals` | `MCApprovals` | `ApprovalsInv`, `LastAnswerHolds`, `AllowanceAnnounced`, `AnswerEndsTheWait` | 150 k |
| `gateway` | `MCGatewayHistory` | `GatewayInv`, `ClosedAllowancesForgotten`, `ImplementsConsent` | 580 k |
| `gateway_ends` | `MCGateway` | `EveryRequestEnds` | 43 k |
| `broker` | `MCBroker` | `BrokerInv`, `GroupsFollowSecrets`, `AnswersFitOneFile` | 2.4 M |
| `oracle` | `MCOracle` | `OracleInv`, `AreaNeverLeftSilently`, `ImplementsExactWrites` | 960 k |
| `oracle_area` | `MCOracle` | `AreaTold` is violated | - |
| `sas` | `MCSas` | `SasInv`, `LockoutAvoided`, `SendsOnlyTheFiles`, `CopiesWhole`, `ErrorsLeaveFiles`, `CallsEnd` | 760 k |
| `keycloak` | `MCKeycloak` | `TokenOfTheProfile`, `ReusedTokensLast` | 1.4 M |
| `host` | `MCHost` | `HostInv`, `Reachable`, `FileAccounted`, `StartedListens` | 3.6 M |
| `relay` | `MCRelay` | `RelayInv`, `OutcomeTrue`, `RunsAtMostOnce`, `SessionsEnded`, `CallEnds` | 6.5 k |
| `slots` | `MCSlots` | `SlotsInv`, `OneAgentPerHome`, `ConflictOnlyAfterKill` | 83 k |

What the passing runs show:

- `windows`: two threads on a group and on a key that is not a group, in every interleaving
  of their clock readings, locks and reports, with commands of the host, never grant a use
  outside the lease; each closing is reported by exactly one thread; whoever is refused was
  announced less than the notification interval before its own reading of the clock,
  whichever thread sent the announcement; two announcements of a key are at least the
  interval apart; every call returns.
- `approvals`: two calls of one agent and one of another, with decisions before,
  during and after each wait.
- `gateway`: two requests of any kind, a thread for the commands of the host, agents that
  give up, and a server that may be unreachable or break.  `Consent` has the last word on
  what runs: each call let through by its open group, a write also by the person.
  `ClosedAllowancesForgotten`: an allowance survives the closing of its window only until
  the thread that closed it has reported it (a window reopened before its end was collected
  is not closed: section 5).
- `gateway_ends`: a request never stays inside the gateway, even when nobody decides, with
  expiries, timeouts and commands of the host around it (one request: no other can hold it up,
  since the steps of the others only change what it reads).
- `broker`: two admins load (two files, and one with errors), lock, allow and revoke while a
  request of any kind goes on; a group opened before a change of the secrets is open only
  while the command that changed them has not closed the groups yet; an answer is the
  right one in a file that was loaded during the request, by a reference definition of what
  an answer may be (`FitsGit`, `FitsGh`) that says nothing of how it is found.
- `oracle`: two writes that meet on a row, a query and a processing run, with a failure of
  either kind at every step, a rollback or a commit whose error doesn't tell what the database
  did, a close that fails, a drop made twice, and the container stopped anywhere.  A call that is
  answered has no transaction left, so no row stays locked (`OracleInv`).
- `sas`: a command, a put and two gets of one file, with rejected and hanging logins, failures
  of every step, the agent replacing the file anywhere, with a link or a pipe too, and restarts.
  `ErrorsLeaveFiles` is about the parts of a download, not about a file that was created, or
  emptied by `truncate`, before an error.
- `keycloak`: three calls of two profiles, whose clients the person changes at any time, also
  so that they share one, with short, long and unreadable expiries.
- `host`: two terminals running any of the commands on the gateway and on two servers, each
  step in any order, each docker command failing, each command interrupted.  `Reachable` is
  the race between `claude_gateway`, which joins the networks that exist, and `claude_mcp`,
  which joins its network to the gateway that runs: whichever comes second sees the other.
- `relay`: every order of the steps of `mcp_call`, of the handler of its connection and of the
  server, with connections that break, a gateway that restarts, a server that stops, a
  timeout in every read and a client that is killed.
- `slots`: four launches for two slots, with killed launches, a crash of Docker, homes to
  fill, and the relay started and stopped.

**Bounds.** `MaxTime` bounds the clock (no other counter of the code is unbounded);
`IdleLimit`, `MaxLimit`, `NotifyInterval` and `Timeout` are of one to three ticks, so that a
run holds a use before, at and after each limit, and an idle expiry apart from a maximum
one.  Where a run isn't about notifications, `NotifyInterval` is 9, longer than the run: a
group is then notified once.  `Allowances` is the set of durations of `--tool`; in `gateway`
one lasts as long as the group and one outlives it.  Two threads are enough for every race
listed: each involves one thread that acts between two steps of another; the broker has two
admins besides its requests because the race there is between commands.  One pair of group
and tool is enough for the gateway, since two keys share nothing but the closing of a group,
and `approvals` has two keys of one group.  A symmetry is declared only for invariants and
refinements, never for liveness.

In `oracle`, one write deletes two rows and announces two; the other aims at one of
these and at a third, and announces one: it succeeds only after the first, is rolled back
before it, and waits or times out during it.  One processing run and one query are enough,
since neither writes in the table and each run has an area of its own.

In `sas`, a file has up to two parts and a get writes one (`Size`): a part of the former
content that is left, a part not written and the whole are told apart; one path is enough,
since the calls share nothing but the files they name.  In `keycloak`, a token lasts at most
`Life` ticks, the margin is one, the clock has two values: a token in the cache is long, within
the margin or over.  In `host`, two terminals are two commands at once, and a third would only
repeat the part of one of them.  In `slots`, four launches fill the two slots twice, so
that a launch meets what a former one left while another is at work.  `relay` has no bound:
its states are finite.

**Deadlock** is checked in every run but those of `Oracle` and of `Slots`: in all of them some
call, command or restart remains possible.  The calls of `Oracle` and the launches of `Slots`
are finite in number, and the system stops when all have ended.

**Fairness.** Only threads are fair: a thread inside a call of the service runs until the
call returns (`HFairSpec` of the windows, `FairSpec` of the approvals and of the gateway),
because no lock is held while waiting for anything and Python schedules its threads. In
`FairSpec` of the gateway time passes too, since a wait ends by its timeout. Nothing is
assumed of the person, who may never decide, of the agents, nor of the MCP servers: the
gateway's connection to them has no timeout (line 738), so a request is only promised to
reach the server.  The clock stops at `MaxTime`: a wait whose deadline is after it is
excused, and named (`WaitsBeyondTheModel`).  In `Relay` only `mcp_call` is fair: `CallEnds`
holds whatever the gateway and the server do, except a server that sends parts of an answer
for ever, which the property names.  In `Sas` it is enough that some call goes on while one
is under way, the weakest assumption that makes each end: fairness of the union of their
steps; it rests on the timeout of the processes.  An open that waits on a named pipe is no
step that a thread can make alone: nothing is fair about its other end, and `CallsEnd`
excuses the calls it blocks by name, while it promises the end of all the others.  `Oracle`
has no liveness property: `oracledb.connect` is called without a time limit, so nothing
promises that a call ends.

Each property is also checked to be sensitive to the code: `PROJECT.json` (`mutants`)
gives, for each, a plausible bug (defined beside the operation it changes, as "Mutant
of ...") under which TLC finds it violated.

## 4. Proofs

All theorems hold for any sets of groups, threads, calls, keys, files, clients, terminals,
servers and launches, any secrets files and any limits; the assumptions are those named in
the modules (`WindowsAssumption`, `ApprovalsAssumption`, `KeyAssumption`,
`GatewayAssumption`, `RelayAssumption`, `BrokerAssumption`, `OracleAssumption`, `SasAssumption`,
`KeycloakAssumption`, `HostAssumption`, `SlotsAssumption`): limits are natural numbers, the
notification interval, the announced rows and the number of slots are positive, the kinds of
calls are distinct, a put names at least a file, a thread is of a request or of a command, the
files and the wishes of the broker are of the types of `Entries` (any number of entries, faulty
or not, with URLs of any length), and `None` and the names that mark a state are none of the
values they stand beside.

| Theorem | Statement |
|---|---|
| `WindowsProofs!TypeCorrect` | `Spec => []TypeOK` |
| `WindowsProofs!Announced` | `Spec => []RefusalsAnnounced` |
| `WindowsProofs!Spaced` | `Spec => NotificationsSpaced` |
| `WindowsProofs!ReportedOnce` | `Spec => EveryClosingReportedOnce` |
| `WindowsProofs!OpenOnlyByAuthority` | `HSpec => []LeaseInv` |
| `WindowsProofs!WindowsImplementsLease` | `HSpec => ImplementsLease` |
| `ApprovalsProofs!Consistency` | `Spec => []ApprovalsInv` |
| `ApprovalsProofs!LastAnswer` | `Spec => []LastAnswerHolds` |
| `ApprovalsProofs!Announced` | `Spec => AllowanceAnnounced` |
| `GatewayProofs!ObjectsUsed` | `Spec => W!Spec /\ A!Spec` |
| `GatewayProofs!Consistency` | `Spec => []GatewayInv` |
| `GatewayProofs!Forgotten` | `HSpec => []ClosedAllowancesForgotten` |
| `GatewayProofs!GatewayImplementsConsent` | `Spec => ImplementsConsent` |
| `GatewayProofs!RelayConsistency` | `RelaySpec => []RelayInv` |
| `GatewayProofs!AtMostOnce` | `RelaySpec => []RunsAtMostOnce` |
| `GatewayProofs!OutcomeIsTrue` | `RelaySpec => []OutcomeTrue` |
| `GatewayProofs!Sessions` | `RelaySpec => []SessionsEnded` |
| `BrokerProofs!Consistency` | `HSpec => []BrokerInv` |
| `BrokerProofs!ObjectUsed` | `HSpec => W!Spec` |
| `BrokerProofs!OldGroups` | `HSpec => []GroupsFollowSecrets` |
| `BrokerProofs!OneFile` | `HSpec => []AnswersFitOneFile` |
| `OracleProofs!Consistency` | `Spec => []OracleInv` |
| `OracleProofs!AreaAccounted` | `Spec => []AreaNeverLeftSilently` |
| `OracleProofs!WritesAreExact` | `Spec => ImplementsExactWrites` |
| `SasProofs!Consistency` | `Spec => []SasInv` |
| `SasProofs!LockedOut` | `Spec => []LockoutAvoided` |
| `SasProofs!SendsOnly` | `Spec => []SendsOnlyTheFiles` |
| `SasProofs!ErrorsLeave` | `Spec => []ErrorsLeaveFiles` |
| `SasProofs!Whole` | `Spec => CopiesWhole` |
| `KeycloakProofs!Consistency` | `Spec => []KeycloakInv` |
| `KeycloakProofs!RightToken` | `Spec => []TokenOfTheProfile` |
| `KeycloakProofs!ReusedLast` | `Spec => ReusedTokensLast` |
| `LaunchProofs!Consistency` | `Spec => []HostInv` |
| `LaunchProofs!Reach` | `Spec => []Reachable` |
| `LaunchProofs!Files` | `Spec => []FileAccounted` |
| `LaunchProofs!Listening` | `Spec => StartedListens` |
| `LaunchProofs!SlotsConsistency` | `SlotsSpec => []SlotsInv` |
| `LaunchProofs!OneAgent` | `SlotsSpec => []OneAgentPerHome` |
| `LaunchProofs!Conflicts` | `SlotsSpec => []ConflictOnlyAfterKill` |

*Windows.* `TypeOK` alone is not inductive: a thread in `use` must be about a group, one in
`notify_once` about a key (`AsksOK`).  The lease needs more (`LeaseInv`): the two
dictionaries hold the same groups; an open group is one the person opened and did not
withdraw since (`opened` equals `authority`); and the remembered last use is *at most* the
latest one.  Equality would be false: `use` stores the clock reading it made before taking
the lock, so a thread with an older reading that takes the lock last sets the last use back;
"at most" is what the refinement needs, because an earlier last use only closes a group
earlier.  `UseLocked` then maps to `Grant` when it grants, to `End` when it refuses; opening
and withdrawing map to `Authorise` and `Withdraw`, and collections and reports to
stuttering.  `EveryClosingReportedOnce` counts threads: the set of those that have more to
report after a step is shown to be empty, or the thread of the step alone.  It rests on
`ReportsOK`: a thread that collects or revokes has nothing left to report from an earlier
call, so that what it gains is what it closed.

*Approvals.* `LastAnswerHolds` is not inductive: `ApprovalsInv` adds, for each call, that it
is listed exactly while its thread is in the wait, that its event is set exactly when the host
was answered, that it is marked approved exactly when the last answer was yes (`Consistent`),
and that an allowance never goes beyond what was announced (`NoneUnannounced`).  The proof
takes the steps of a call's own thread (the other calls are untouched), the decisions, and
the steps that concern no call.

*Gateway.* Every step of a handler or of a command is first shown to be, for `Windows` and
for `Approvals`, a step of their own or none (`ObjectSteps`); so what is proved of the two
classes holds in the gateway, through instances of their proof modules, and `ObjectsUsed` says
so.  The types alone are not inductive: `Decided` reads the place of the call in `Approvals`,
and a call could be listed there while its handler is elsewhere.  `Placed` ties the three
places of a request, its handler's, its thread's in `Windows` and its call's in `Approvals`;
with it, a decision of the person finds a write whose handler is asking.
`ClosedAllowancesForgotten` holds because a group that closes in a step is handed to the
thread of that step (`ReportsOK` again), and leaves it only with `Forget`.  The refinement
takes the steps of a handler one by one (`ReceiveRefines`, `AskRefines`, ...): receiving,
forwarding and ending are those of `Consent`; a decision of the person is `Say`; an ask that
lets a call through is `Clear`, which needs a word or a permit of the person:
`LastAnswerHolds` and `NoneUnannounced` of the approvals give it.  Inside `Windows`, the
section of `use` that grants is `Admit` (`InsideRefines`): the thread asks for the group of its
request, which is part of `Placed`, and that group is open before and after the step; every
other section, and every command, changes the open groups at most.

*Relay.* None of its three properties is inductive.  `RelayInv` adds where things are.
`InStep`: the thread handles the message that the client waits for, and what is on the
connection is its answer, or nothing is left of either; a client that stops waiting closes the
connection or ends, which is what keeps an old answer from being taken for a new one.
`CallOnce`: the call is in one place at most, not sent yet, on its way, with the server, or run;
a call that may have reached the server is nowhere else, so that nothing can send it again,
and only one on its way can be refused.  `AnswersTrue`: an answer to the call, in the gateway
or on the connection, tells what happened, and stays true since the call is over
(`OutcomeIsTrue`).  `SessionKnown`: as long as nothing breaks, the server works only for the
thread that waits for it, and the client knows of its session, or the answer that tells it is
under way, until DELETE ends it.

*Broker.* Two arguments meet.  One is about data only: for any file and any request, the entry
that `EntryFor` finds is the one that the reference definition allows (`GitFits`, `GhFits`).
It needs that `Min` chooses a member of a set of numbers, that a finite set has a longest
entry, and that of two prefixes of one sequence the shorter is a prefix of the longer: two
entries that cover one URL are comparable, and the longest is the most precise.  The other is
about the two locks: `BrokerInv` says that what a request holds between them was loaded during
it, so a `load` or a `lock` in between changes nothing of its answer.
`GroupsFollowSecrets` is inductive with `BrokerInv`: the only step that ends the closing of
the groups closes them all (`ClosingEnds`).

*Oracle.* What refutes a simpler invariant is the errors: a call at its rollback may or may
not have committed, and a run at its drop may have asked for it once already.  `OracleInv`
says what each place of a call means for its kind and outcome (`CallConsistent`), for the
transaction of a write (`WriteConsistent`: what it changed is still in the table, and at the
count it is exactly what it found) and for the area of a run (`RunConsistent`), and that two
transactions hold no row in common, which is the database's doing; this last part keeps
`WriteConsistent` through the commit of another write, which removes rows from the table;
with it `Commit` maps to a step of `ExactWrites` and the end of a write to a true answer.
`WriteConsistent` also says that an ended call holds no row, since every way out of a
session passes through `Close`. `AreaNeverLeftSilently` is inductive with `OracleInv`
(`AccountNext`): `RunConsistent` tells what a run at its drop knows of its area.  A step is
proved for the call that makes it and for the others, whose rows it doesn't touch.

*Sas.* `LockoutAvoided` holds because the record and the place of every login are read in
one state: a login is only begun with no rejection recorded.  The files need more:
`PutConsistent` says that a put past its copies has copied each of its files and nothing
else, all regular files of the folder, which `Check` ensures for an open file and no later
`Replace` can undo, since an open file stays the one that was opened.  For `CopiesWhole`,
`GetConsistent` counts the parts a get wrote, and marks the gets that have the same file
open as `shared`: a get that isn't shared is alone at its path until the agent replaces the
file, which makes it `removed`.

*Keycloak.* `KeycloakInv` says that the cache holds, for a client, a token of that client with
the expiry read in it, and that a call holds a client that the file named for its profile
since the call began; without the first, an answer of the cache could be anyone's.

*Host.* `Reachable` is not inductive: it says nothing while a gateway is being joined to its
networks, or a server started.  `Covered` does: a network is joined, or the terminal that
created the gateway has still to list the networks or to join this one, or it failed.
`CommandConsistent` keeps it for each place of `claude_mcp`: from the test of the gateway on,
either the gateway that runs is in the network or it was created after the network existed,
so its creator will see the network in its list.  `StartedListens` needs to know who else may
act on a server: `StartedInv` says that a command that was not disturbed is alone on its
server, so that what it saw in `Wait` still holds at `Clean`, unless the server ended, and
then the command doesn't announce it.

*Slots.* `SlotsHeldByLaunches` makes the lock of a slot that of one launch at work, and
`ContainersAccounted` tells what containers a launch may meet after `Remove`: only that of a
killed launch, since another launch at work would hold the same lock.  `OneAgentPerHome`
follows for the step `Run`, which needs the name to be free.

*Only model-checked*: the liveness properties (`CallsReturn`, `AnswerEndsTheWait`,
`EveryRequestEnds`, `CallsEnd`, `CallEnds`), which TLAPS does not prove under fairness.  Every
invariant, action property and refinement of the passing runs is stated by a theorem above.
`KeycloakInv` is proved, and the two properties it is for are also checked.

## 5. Where the code and its texts disagree

One run states what a text says and is found violated by TLC:

- `oracle_area`: `processing_run` warns of an area that may have been created only after a
  `ToolError`.  An answer of Mediator that isn't JSON, or is cut, raises another exception in
  `http_call`: the area is then neither dropped nor mentioned, and its name isn't logged.

Observations made while modelling, which the models show and no run is about:

- *Approvals*: a call stays in the list until its thread takes the lock, so the person may decide
  it twice; the last answer is what happens, and the first was then its opposite.
- *Gateway*: the group is used before the wait for the person, and not looked at after it: a
  write approved after its group was closed is forwarded.
- *Windows*: `open` doesn't collect an expired group, so one reopened before anything collected
  it keeps the tools that were approved for a while.
- *Gateway*: between the closing of a group and its report, the group may be reopened and an
  allowance of before used (`ClosedAllowancesForgotten` names that time).
- *Broker*: `allow` looks at the secrets and then opens its group without a common lock, so a
  group may stay open in a locked broker.  Nothing can be read from it while locked, and the
  next `load` closes it (`GroupsFollowSecrets`).  A request under way may be answered with the
  secrets it read before a `load` or a `lock`.
- *SAS*: the message of a rejected login is looked for in all of the error output, so a command
  that prints it makes every later call refused until a restart.  A restart forgets a rejection.
  Two gets of one file at once mix their parts, and an exception leaves a part of a file.  A
  named pipe at the path of a put or of a get blocks the call until somebody opens the other
  end: the answer "only the regular files of the drop folder ... can be used" then doesn't come.
- *Keycloak*: two calls that miss the cache ask twice, and the later store wins, even if its
  token is the shorter: that costs a request, since the margin is checked when it is used.
- *`mcp_call`*: its timeout is that of each read, so that a server that sends a part of an answer
  now and then keeps it waiting.  After a timeout before an answer `http.client` refuses to
  send DELETE, so the session stays on a server that keeps sessions.  An `IncompleteRead` of the
  gateway isn't an `OSError`: its handler ends with a trace instead of a 502.
- *`claude_gateway`*: when it fails in the middle of its joins, running it again says that the
  gateway runs, and joins nothing; two commands that join one network at once make one fail.
- *`claude_mcp`*: giving up a start stops the container by its name, which may by then be that of
  another terminal's start (`disturbed` in `StartedListens`); its settings file stays when the
  server doesn't listen in time (`failed` in `FileAccounted`).
- *Slots*: the lock of a killed launch is free while its container runs, and so is that of a
  launch whose person detached from the container, so the next launch takes that slot and
  fails on the name of the container, although another slot is free.

## 6. What is not modelled

In the modelled parts: texts, logs and summaries; the filtering of `tools/list` and the
patterns of the policies (a call's kind is chosen freely); the GET stream, which is
forwarded without a check; the syntax of the secrets file (a file is a record of its
entries) and of the requests; `export`, `unlocked`, `pending_lines` and `profiles`, which
only read; the check of the SQL text (what is a query or a write, one statement, no
package), the CSV and the accounts of the Oracle server, and its read-only transactions; the
storage type of a drop (a drop with the wrong one is a drop that fails); two calls that
recreate the area of the same processing run; what the commands of the SAS tools do on their
server; the sizes of the requests, which are below the limit of the gateway when they come
from a command line; the start of the broker, which every start only tests, and the restarts
of containers by Docker itself; the mounts, the voice input and the arguments of an agent;
the locks of the windows, of the approvals and of the others as such: each section under a
lock is one action, so that two locks taken in opposite orders, or `on_close` called under
the lock, would not show as a deadlock of these models; the HTTP and Unix sockets; the clock
being other than monotonic.  A group given to `allow` or `revoke` is always a known one.

The other components are listed in `PROJECT.json` with the reason.  The clients of the
broker keep no state between two calls; the installers, the image and the entrypoint are
sequential scripts of package management.

## 7. Plan

Most important first; each module is written to be proved about (no RECURSIVE operator,
constants with named assumptions, one action per operation).

1. `SecretsEdit`: two editions at once and an interruption, with `claude_broker`, which loads the
   file; `SpeechQueue` and `MemorySync`: the other file protocols.
2. `Policies`: the classification of a tool and the filtering of a list of tools, checked
   against a reference definition over small inputs.
