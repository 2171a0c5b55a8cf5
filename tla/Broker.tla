------------------------------- MODULE Broker --------------------------------
(***************************************************************************)
(* The secret broker, broker/claude_broker.py: the secrets in memory, the  *)
(* windows of the groups `git` and `gh`, the requests of the agents and    *)
(* the commands of the host.  Secrets and windows have locks of their own, *)
(* so a request reads the secrets and then uses its group, and a command   *)
(* changes the secrets and then closes the groups, in two steps each.      *)
(* Secrets are known by the file they were loaded from (module Entries);   *)
(* `export` and `unlocked` only read them.                                 *)
(***************************************************************************)
EXTENDS Entries

CONSTANTS
  Requests, \* requests of the agents, one thread each
  Wants,    \* what a request may ask, of GitWants and GhWants
  Files,    \* secrets files that may be given to `load`
  Admins,   \* threads of the commands of the host
  Locked,   \* the key of the notifications of a locked broker
  IdleLimit, MaxLimit, NotifyInterval, MaxTime

Groups == {"git", "gh"}

\* A request: its group, whether it is valid, and what it is about.
GitWants ==
  [group : {"git"}, valid : BOOLEAN, url : Seq(Parts), authtype : BOOLEAN]
GhWants == [group : {"gh"}, valid : BOOLEAN, owner : Owners \cup {None}]

ASSUME BrokerAssumption ==
  /\ Requests \cap Admins = {}
  /\ Files \subseteq SecretsFiles
  /\ Wants \subseteq GitWants \cup GhWants
  /\ IdleLimit \in Nat /\ MaxLimit \in Nat /\ MaxTime \in Nat
  /\ NotifyInterval \in Nat \ {0}
  /\ None \notin Files \cup Wants /\ None \notin Int

VARIABLES
  clock,
  opened, lastUsed, lastNotified, pc, reading, asks, toReport, \* Windows
  secrets, \* self._secrets: the file loaded, None while locked
  handler, \* where each request is
  want,    \* what each request asks
  held,    \* the secrets each request read
  answer,  \* the answer of each request
  command  \* where each command of the host is, and its group

Threads == Requests \cup Admins

W == INSTANCE Windows WITH OtherKeys <- {Locked}

windowState == <<opened, lastUsed, lastNotified, pc, reading, asks, toReport>>
request == <<handler, want, held, answer>>
service == <<secrets, request, command>>
vars == <<clock, windowState, service>>

Loadable == {file \in Files : Loads(file)}
EntryNumbers == UNION {DOMAIN file.git \cup DOMAIN file.gh : file \in Files}
Outcomes == {Found(i) : i \in EntryNumbers} \cup {NotFound, Refused}
Commands == [point : {"none", "closing", "open"}, group : Groups \cup {None}]
NoCommand == [point |-> "none", group |-> None]

TypeOK ==
  /\ W!TypeOK
  /\ secrets \in Loadable \cup {None}
  /\ handler \in [Requests -> {"new", "read", "using", "locked", "end"}]
  /\ want \in [Requests -> Wants \cup {None}]
  /\ held \in [Requests -> Loadable \cup {None}]
  /\ answer \in [Requests -> Outcomes \cup {None}]
  /\ command \in [Admins -> Commands]

Init ==
  /\ W!Init
  /\ secrets = None
  /\ handler = [c \in Requests |-> "new"]
  /\ want = [c \in Requests |-> None]
  /\ held = [c \in Requests |-> None]
  /\ answer = [c \in Requests |-> None]
  /\ command = [a \in Admins |-> NoCommand]

At(c, point) == handler[c] = point
Goto(c, point) == handler' = [handler EXCEPT ![c] = point]

-----------------------------------------------------------------------------
\* A request: git_credential or gh_token, and _use.

End(c, outcome) == Goto(c, "end") /\ answer' = [answer EXCEPT ![c] = outcome]

\* A request that isn't valid (not https, no host, invalid owner) is refused.
Receive(c) ==
  /\ At(c, "new")
  /\ \E w \in Wants :
       /\ want' = [want EXCEPT ![c] = w]
       /\ \/ ~w.valid /\ End(c, Refused) /\ UNCHANGED held
          \/ /\ w.valid
             /\ Goto(c, "read")
             /\ held' = [held EXCEPT ![c] = secrets]
             /\ UNCHANGED answer
  /\ UNCHANGED <<clock, windowState, secrets, command>>

\* Locked: the person is notified, then the request is refused.
NotifyLocked(c) ==
  /\ At(c, "read") /\ held[c] = None
  /\ W!NotifyCall(c, Locked)
  /\ Goto(c, "locked")
  /\ UNCHANGED <<secrets, want, held, answer, command>>

Use(c) ==
  /\ At(c, "read") /\ held[c] # None
  /\ W!UseCall(c, want[c].group)
  /\ Goto(c, "using")
  /\ UNCHANGED <<secrets, want, held, answer, command>>

EntryFor(w, file) ==
  IF w.group = "git" THEN GitAnswer(file, w.url, w.authtype)
  ELSE GhAnswer(file, w.owner)

\* Mutant of Answer: the entry is looked for in the secrets of the moment.
AnswerOfNow(c) ==
  /\ At(c, "using")
  /\ W!Return(c)
  /\ End(c, IF pc[c] = "refused" THEN Refused
            ELSE IF secrets = None THEN NotFound ELSE EntryFor(want[c], secrets))
  /\ UNCHANGED <<secrets, want, held, command>>

\* _use raises, or returns the secrets read before, where the entry is looked for.
Answer(c) ==
  /\ handler[c] \in {"using", "locked"}
  /\ W!Return(c)
  /\ End(c, IF At(c, "locked") \/ pc[c] = "refused" THEN Refused
            ELSE EntryFor(want[c], held[c]))
  /\ UNCHANGED <<secrets, want, held, command>>

-----------------------------------------------------------------------------
\* A thread inside a call of Windows; on_close only writes to the log.
Inside(t) ==
  /\ \/ W!UseLocked(t) \/ W!StatusLocked(t) \/ W!NotifyRefusal(t) \/ W!NotifyLocked(t)
     \/ \E g \in Groups : W!Report(t, g)
  /\ UNCHANGED service

-----------------------------------------------------------------------------
\* Commands of the host.  A command runs in one thread, from its start to its
\* end; load and lock change the secrets, then close every group.

Idle(a) == command[a] = NoCommand /\ pc[a] = "idle"

SetSecrets(a, file) ==
  /\ Idle(a)
  /\ secrets' = file
  /\ command' = [command EXCEPT ![a].point = "closing"]
  /\ UNCHANGED <<clock, windowState, request>>

\* Mutant of Load: a file with errors is loaded for the entries it has.
LoadAnyway(a, file) == SetSecrets(a, file)

\* A file that Secrets.parse refuses changes nothing.
Load(a, file) == Loads(file) /\ SetSecrets(a, file)
Lock(a) == SetSecrets(a, None)

\* Mutant of CloseGroups: the groups stay open.
KeepGroups(a) ==
  /\ command[a].point = "closing"
  /\ command' = [command EXCEPT ![a] = NoCommand]
  /\ UNCHANGED <<clock, windowState, secrets, request>>

CloseGroups(a) ==
  /\ command[a].point = "closing"
  /\ W!CloseAll(a)
  /\ command' = [command EXCEPT ![a] = NoCommand]
  /\ UNCHANGED <<secrets, request>>

\* allow is refused while locked; otherwise it opens the group.
Allow(a, g) ==
  /\ Idle(a)
  /\ secrets # None
  /\ command' = [command EXCEPT ![a] = [point |-> "open", group |-> g]]
  /\ UNCHANGED <<clock, windowState, secrets, request>>

OpenGroup(a) ==
  /\ command[a].point = "open"
  /\ W!Open(a, command[a].group)
  /\ command' = [command EXCEPT ![a] = NoCommand]
  /\ UNCHANGED <<secrets, request>>

Revoke(a, names) == Idle(a) /\ W!Revoke(a, names) /\ UNCHANGED service

Status(a) == Idle(a) /\ W!StatusCall(a) /\ UNCHANGED service

EndCommand(a) == W!Return(a) /\ UNCHANGED service

Tick == W!Tick /\ UNCHANGED service

Next ==
  \/ Tick
  \/ \E c \in Requests :
       Receive(c) \/ NotifyLocked(c) \/ Use(c) \/ Inside(c) \/ Answer(c)
  \/ \E a \in Admins :
       \/ \E file \in Files : Load(a, file)
       \/ Lock(a)
       \/ CloseGroups(a)
       \/ \E g \in Groups : Allow(a, g) \/ Revoke(a, {g})
       \/ OpenGroup(a)
       \/ Revoke(a, Groups)
       \/ Status(a)
       \/ Inside(a)
       \/ EndCommand(a)

Spec == Init /\ [][Next]_vars

=============================================================================
