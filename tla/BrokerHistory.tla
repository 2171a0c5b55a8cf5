---------------------------- MODULE BrokerHistory ----------------------------
(***************************************************************************)
(* Broker with a history of the changes of the secrets.  No step of the    *)
(* code reads it.                                                          *)
(***************************************************************************)
EXTENDS Broker

VARIABLES
  older, \* groups opened before the last change of the secrets
  seen   \* of each request: the files that were loaded during it

hvars == <<vars, older, seen>>

HInit == Init /\ older = {} /\ seen = [c \in Requests |-> {}]

\* The groups that a step opens, even again.
OpenedNow == {g \in Groups : \E a \in Admins : OpenGroup(a) /\ command[a].group = g}

Changing(a) == command[a].point # "closing" /\ command'[a].point = "closing"

HNext ==
  /\ Next
  /\ older' = IF \E a \in Admins : Changing(a)
              THEN {g \in Groups : opened[g] # None}
              ELSE {g \in older : opened'[g] # None} \ OpenedNow
  /\ seen' = [c \in Requests |->
       IF handler[c] = "end" \/ handler'[c] = "new" \/ secrets' = None THEN seen[c]
       ELSE seen[c] \cup {secrets'}]

HSpec == HInit /\ [][HNext]_hvars

-----------------------------------------------------------------------------
\* A group opened under other secrets gives no access to those loaded since: it
\* outlives the change only while the load or the lock that made it is still
\* closing the groups, with requests, expiries and other commands in between.
\* (claude_broker.py load, lock)
GroupsFollowSecrets ==
  older # {} => \E a \in Admins : command[a].point = "closing"

\* What the request w may be answered from a file.
FitsGit(w, file, a) ==
  CASE a.status = "answered" ->
         LET entry == file.git[a.entry]
         IN /\ a.entry \in DOMAIN file.git
            /\ Covers(entry, w.url)
            /\ \A i \in DOMAIN file.git : Covers(file.git[i], w.url) =>
                 \/ i = a.entry
                 \/ Covers(file.git[i], entry.url) /\ (file.git[i].url = entry.url => i > a.entry)
            /\ w.authtype \/ entry.secrets = {"password"}
    [] a.status = "not found" -> \A i \in DOMAIN file.git : ~Covers(file.git[i], w.url)
    [] OTHER -> TRUE

FitsGh(w, file, a) ==
  LET owners == {file.gh[i].owner : i \in DOMAIN file.gh}
  IN CASE a.status = "answered" ->
            /\ a.entry \in DOMAIN file.gh
            /\ IF w.owner = None THEN Len(file.gh) = 1
               ELSE file.gh[a.entry].owner = IF w.owner \in owners THEN w.owner ELSE None
       [] a.status = "not found" -> owners \cap {w.owner, None} = {}
       [] OTHER -> TRUE

\* What a request holds at each place.
Served(c) ==
  /\ handler[c] # "new" => want[c] \in Wants
  /\ handler[c] \in {"read", "using"} => held[c] \in seen[c] \cup {None}
  /\ At(c, "using") => held[c] # None
  /\ answer[c] # None => At(c, "end")

\* A request keeps secrets that were loaded during it, until its answer is found in
\* them, and a command opens its group: what the answers below rest on.
\* (claude_broker.py _use, allow)
BrokerInv ==
  /\ TypeOK
  /\ seen \in [Requests -> SUBSET Loadable]
  /\ \A c \in Requests : Served(c)
  /\ \A a \in Admins : command[a].point = "open" => command[a].group \in Groups

\* Although the secrets change between the two locks that a request takes, its
\* answer is that of one file, loaded during the request: the token of the most
\* precise URL, or of the owner, and never that of another because of an error
\* in the file or of a load or a lock meanwhile.
\* (claude_broker.py Secrets.parse, git_credential, gh_token, _use)
AnswersFitOneFile ==
  \A c \in Requests : answer[c] \notin {None, Refused} =>
    \E file \in seen[c] :
      /\ Loads(file)
      /\ IF want[c].group = "git" THEN FitsGit(want[c], file, answer[c])
         ELSE FitsGh(want[c], file, answer[c])
=============================================================================
