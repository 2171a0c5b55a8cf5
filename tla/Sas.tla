--------------------------------- MODULE Sas ---------------------------------
(***************************************************************************)
(* The SAS server, broker/claude_mcp_sas.py: sas_exec and sas_run run one  *)
(* ssh, sas_put copies files of the drop folder to a private folder, then  *)
(* runs an ssh and an scp, sas_get runs an scp and copies what it got to   *)
(* the drop folder.  The calls share the record of a rejected login, under *)
(* a lock, and the drop folder, with each other and with the agent, which  *)
(* may replace a file or a folder of it by a link or by a named pipe at    *)
(* any time.                                                               *)
(***************************************************************************)
EXTENDS Integers

CONSTANTS
  Commands, Puts, Gets, \* calls of sas_exec and sas_run, of sas_put, of sas_get
  Paths,    \* paths in the drop folder
  FilesOf,  \* files of each put
  LocalOf,  \* local file of each get
  Size,     \* length of what a get copies; the files of before are longer
  None

Calls == Commands \cup Puts \cup Gets

\* An open file: the path it was opened at, and where it really is; "removed" is in the
\* drop folder too, but no longer at its path.  A pipe is no regular file.
Reals == {"file", "removed", "elsewhere", "pipe"}
Handles == [path : Paths, real : Reals]

ASSUME SasAssumption ==
  /\ Commands \cap (Puts \cup Gets) = {} /\ Puts \cap Gets = {}
  /\ FilesOf \in [Puts -> SUBSET Paths \ {{}}]
  /\ LocalOf \in [Gets -> Paths]
  /\ Size \in Nat
  /\ None \notin Gets \cup Handles \cup {"result", "error", "failed"}
  /\ "before" \notin Gets

VARIABLES
  login_rejected, \* _login_rejected
  at,        \* where each call is
  made,      \* puts whose remote folder is made
  answer,    \* what the agent is answered
  where,     \* what each path of the drop folder leads to
  content,   \* of the file at each path: whose each of its parts is
  handle,    \* the file each call holds open, or the pipe it opens
  written,   \* how many parts each get wrote
  copies,    \* what each put copied to its private folder
  exposed,   \* history: calls whose login was under way when a rejection was recorded
  shared     \* history: gets that hold a file that another get held meanwhile

login == <<login_rejected, exposed>>
folder == <<where, content, handle, written, copies, shared>>
vars == <<login, at, made, answer, folder>>

Places == {"new", "opening", "blocked", "opened", "copying", "writing",
           "connecting", "running", "hanging", "rejected", "end"}
Answers == {"result", "error", "failed"}
\* file: a regular file of the drop folder; pipe: a named pipe; link: a link; elsewhere:
\* a folder of the path is a link that leaves the drop folder.
Leads == {"absent", "file", "pipe", "link", "elsewhere"}
Parts == 1 .. Size + 1

TypeOK ==
  /\ login_rejected \in BOOLEAN
  /\ at \in [Calls -> Places]
  /\ made \subseteq Puts
  /\ answer \in [Calls -> Answers \cup {None}]
  /\ where \in [Paths -> Leads]
  /\ content \in [Paths -> [Parts -> Gets \cup {"before", None}]]
  /\ handle \in [Calls -> Handles \cup {None}]
  /\ written \in [Gets -> 0 .. Size]
  /\ copies \in [Puts -> SUBSET Handles]
  /\ exposed \subseteq Calls
  /\ shared \subseteq Gets

Former == [i \in Parts |-> "before"]
Empty == [i \in Parts |-> None]

Init ==
  /\ login_rejected = FALSE
  /\ at = [c \in Calls |-> "new"]
  /\ made = {}
  /\ answer = [c \in Calls |-> None]
  /\ where \in [Paths -> {"absent", "file", "pipe"}]
  /\ content = [p \in Paths |-> Former]
  /\ handle = [c \in Calls |-> None]
  /\ written = [c \in Gets |-> 0]
  /\ copies = [c \in Puts |-> {}]
  /\ exposed = {} /\ shared = {}

At(c, place) == at[c] = place
Goto(c, place) == at' = [at EXCEPT ![c] = place] /\ UNCHANGED answer

\* The call returns, or raises a ToolError ("error") or another exception ("failed").
End(c, a) ==
  /\ at' = [at EXCEPT ![c] = "end"]
  /\ answer' = [answer EXCEPT ![c] = a]

-----------------------------------------------------------------------------
\* _connect: the processes that log in.

\* The local files a call names.
Named(c) ==
  IF c \in Puts THEN FilesOf[c] ELSE IF c \in Gets THEN {LocalOf[c]} ELSE {}

\* The arguments are checked; a path that leads out of the drop folder is refused.
Begin(c) ==
  /\ At(c, "new")
  /\ \/ /\ \A p \in Named(c) : where[p] \in {"absent", "file", "pipe"}
        /\ Goto(c, IF c \in Puts THEN "opening" ELSE "connecting")
     \/ End(c, "error")
     \/ c \notin Commands /\ End(c, "failed") \* no private folder
  /\ UNCHANGED <<login, made, folder>>

\* Mutant of Connect: the record is read once, at the first process of a put.
ConnectReadOnce(c) ==
  /\ At(c, "connecting")
  /\ \/ (~login_rejected \/ c \in made) /\ Goto(c, "running")
     \/ End(c, "error")
  /\ UNCHANGED <<login, made, folder>>

\* Refused for want of the known hosts file, or after a rejected login; past this check,
\* the login counts as under way, though its process starts a moment later.
Connect(c) ==
  /\ At(c, "connecting")
  /\ \/ ~login_rejected /\ Goto(c, "running")
     \/ End(c, "error")
  /\ UNCHANGED <<login, made, folder>>

\* The process succeeded.
Succeed(c) ==
  \/ c \in Commands /\ End(c, "result") /\ UNCHANGED made
  \/ c \in Gets /\ Goto(c, "opening") /\ UNCHANGED made
  \/ c \in Puts \ made /\ Goto(c, "connecting") /\ made' = made \cup {c}
  \/ c \in made /\ End(c, "result") /\ UNCHANGED made

\* The process ended with another status: the output of a command tells it.
Fail(c) ==
  /\ End(c, IF c \in Commands THEN "result" ELSE "error")
  /\ UNCHANGED made

\* ssh or scp, from its login to its end.  A command may print the message of a rejected
\* login too, e.g. of an ssh of its own.
Run(c) ==
  /\ At(c, "running")
  /\ \/ /\ Succeed(c) \/ Fail(c)
        /\ exposed' = exposed \ {c}
     \/ /\ Goto(c, "hanging") \/ Goto(c, "rejected")
        /\ UNCHANGED <<made, exposed>>
  /\ UNCHANGED <<login_rejected, folder>>

\* Mutant of Stop: a process has all the time it needs.
NeverStop(c) == FALSE /\ UNCHANGED vars

\* A process that doesn't end is stopped.
Stop(c) ==
  /\ At(c, "hanging")
  /\ End(c, "error")
  /\ exposed' = exposed \ {c}
  /\ UNCHANGED <<login_rejected, made, folder>>

LoggingIn(c) == at[c] \in {"running", "hanging", "rejected"}

\* The rejection is recorded.
Record(c) ==
  /\ At(c, "rejected")
  /\ login_rejected' = TRUE
  /\ exposed' = (IF login_rejected THEN exposed ELSE {d \in Calls : LoggingIn(d)}) \ {c}
  /\ End(c, "error")
  /\ UNCHANGED <<made, folder>>

-----------------------------------------------------------------------------
\* _open_in_drop, _copy_from_drop and _copy_to_drop.

Hold(c, p, real) ==
  handle' = [handle EXCEPT ![c] = [path |-> p, real |-> real]]

Writers(p) == {g \in Gets : handle[g] = [path |-> p, real |-> "file"]}

\* os.open, for the next file of a put or for the file of a get, which is created if need
\* be: a link isn't followed, and the open of a pipe waits for its other end, since the
\* flags have no O_NONBLOCK.  The parent folder of a get is made first.
Open(c) ==
  /\ At(c, "opening")
  /\ \E p \in IF c \in Puts THEN FilesOf[c] \ {h.path : h \in copies[c]}
              ELSE {LocalOf[c]} :
       \/ /\ where[p] \in (IF c \in Gets THEN {"file", "absent"} ELSE {"file"})
          /\ Hold(c, p, "file")
          /\ where' = [where EXCEPT ![p] = "file"]
          /\ content' = IF where[p] = "file" THEN content
                        ELSE [content EXCEPT ![p] = Empty]
          /\ shared' = IF c \in Gets /\ Writers(p) # {}
                       THEN shared \cup Writers(p) \cup {c} ELSE shared
          /\ Goto(c, "opened")
       \/ /\ where[p] = "elsewhere"
          /\ Hold(c, p, "elsewhere")
          /\ Goto(c, "opened")
          /\ UNCHANGED <<where, content, shared>>
       \/ /\ where[p] = "pipe"
          /\ Hold(c, p, "pipe")
          /\ Goto(c, "blocked")
          /\ UNCHANGED <<where, content, shared>>
       \/ /\ End(c, "error") \/ End(c, "failed")
          /\ UNCHANGED <<where, content, handle, shared>>
  /\ UNCHANGED <<login, made, written, copies>>

Release(c) ==
  /\ handle' = [handle EXCEPT ![c] = None]
  /\ written' = [g \in Gets |-> IF g = c THEN 0 ELSE written[g]]
  /\ shared' = shared \ {c}

\* Mutant of Check: the path is looked at again, not the open file.
CheckPath(c) ==
  /\ At(c, "opened")
  /\ IF where[handle[c].path] # "file"
     THEN End(c, "error") /\ Release(c)
     ELSE Goto(c, "copying") /\ UNCHANGED <<handle, written, shared>>
  /\ UNCHANGED <<login, made, where, content, copies>>

\* The open file must be a regular one, whose real path is in the drop folder.
Check(c) ==
  /\ At(c, "opened")
  /\ IF handle[c].real \in {"elsewhere", "pipe"}
     THEN End(c, "error") /\ Release(c)
     ELSE Goto(c, "copying") /\ UNCHANGED <<handle, written, shared>>
  /\ UNCHANGED <<login, made, where, content, copies>>

\* Mutant of Abort: the exception is a ToolError.
AbortToolError(c) ==
  /\ End(c, "error") /\ Release(c)
  /\ UNCHANGED <<login, made, where, content, copies>>

\* An exception while the file is copied, e.g. a full disk.
Abort(c) ==
  /\ End(c, "failed") /\ Release(c)
  /\ UNCHANGED <<login, made, where, content, copies>>

\* A put copies its file; after the last one, it runs its processes.
CopyFromDrop(c) ==
  /\ c \in Puts /\ At(c, "copying")
  /\ \/ /\ copies' = [copies EXCEPT ![c] = @ \cup {handle[c]}]
        /\ Release(c)
        /\ Goto(c, IF {h.path : h \in copies'[c]} = FilesOf[c]
                   THEN "connecting" ELSE "opening")
        /\ UNCHANGED <<login, made, where, content>>
     \/ Abort(c)

\* Writing in a file that is no longer at its path changes nothing there.
Set(g, parts) ==
  content' = IF handle[g].real = "file"
             THEN [content EXCEPT ![handle[g].path] = parts] ELSE content

\* Mutant of Truncate: what was in the file is left.
LeaveFormer(g) ==
  /\ g \in Gets /\ At(g, "copying")
  /\ Goto(g, "writing")
  /\ UNCHANGED <<login, made, folder>>

\* target.truncate()
Truncate(g) ==
  /\ g \in Gets /\ At(g, "copying")
  /\ Set(g, Empty)
  /\ Goto(g, "writing")
  /\ UNCHANGED <<login, made, where, handle, written, copies, shared>>

\* A part is written in its place, whatever the others write.
Write(g) ==
  /\ At(g, "writing")
  /\ \/ /\ written[g] < Size
        /\ written' = [written EXCEPT ![g] = @ + 1]
        /\ Set(g, [content[LocalOf[g]] EXCEPT ![written'[g]] = g])
        /\ UNCHANGED <<login, at, made, answer, where, handle, copies, shared>>
     \/ Abort(g)

\* The call ends once everything is written.
Finish(g) ==
  /\ At(g, "writing") /\ written[g] = Size
  /\ End(g, "result") /\ Release(g)
  /\ UNCHANGED <<login, made, where, content, copies>>

Step(c) ==
  \/ Begin(c) \/ Connect(c) \/ Run(c) \/ Stop(c) \/ Record(c)
  \/ Open(c) \/ Check(c) \/ CopyFromDrop(c) \/ Truncate(c) \/ Write(c) \/ Finish(c)

-----------------------------------------------------------------------------
\* The agent, and the person.

\* The other end of a pipe is opened, by the agent or by another call: the open of this
\* end returns.  Nothing else ends it, whatever is put at its path meanwhile.
OpenOtherEnd(c) ==
  /\ At(c, "blocked")
  /\ Goto(c, "opened")
  /\ UNCHANGED <<login, made, folder>>

\* The agent puts something else at a path; files open at that path stay open.
Replace(p) ==
  /\ \E w \in Leads : where' = [where EXCEPT ![p] = w]
  /\ content' = [content EXCEPT ![p] = Former]
  /\ handle' = [c \in Calls |->
       IF handle[c] = [path |-> p, real |-> "file"]
       THEN [path |-> p, real |-> "removed"] ELSE handle[c]]
  /\ UNCHANGED <<login, at, made, answer, written, copies, shared>>

\* claude_mcp restart sas: the calls under way end without an answer.
Restart ==
  LET underWay == {c \in Calls : at[c] \notin {"new", "end"}}
  IN /\ login_rejected' = FALSE /\ exposed' = {}
     /\ at' = [c \in Calls |-> IF c \in underWay THEN "end" ELSE at[c]]
     /\ handle' = [c \in Calls |-> None]
     /\ written' = [g \in Gets |-> 0]
     /\ shared' = {}
     /\ UNCHANGED <<made, answer, where, content, copies>>

Next ==
  \/ \E c \in Calls : Step(c) \/ OpenOtherEnd(c)
  \/ \E p \in Paths : Replace(p)
  \/ Restart

Spec == Init /\ [][Next]_vars

\* As long as a call can go on, one of them does: less than what the threads do.
\* Nothing is assumed of the agent and of the person: a pipe may never have another end.
FairSpec == Spec /\ WF_vars(\E c \in Calls : ~At(c, "new") /\ Step(c))

-----------------------------------------------------------------------------
\* The account isn't locked out: once a rejection is recorded, no login is under way but
\* those that already were at that moment, past their check of the record, even for a put
\* between its ssh and its scp.
\* (claude_mcp_sas.py _connect, put)
LockoutAvoided ==
  login_rejected => \A c \in Calls : LoggingIn(c) => c \in exposed

\* What a put sends is exactly the files it was asked for, each a regular file of the
\* drop folder when it was opened, whatever the agent put at its path since the first
\* check.  (claude_mcp_sas.py put, _open_in_drop, _copy_from_drop)
SendsOnlyTheFiles ==
  \A c \in Puts :
    c \in made \/ LoggingIn(c) =>
      /\ {h.path : h \in copies[c]} = FilesOf[c]
      /\ \A h \in copies[c] : h.real \in {"file", "removed"}

\* A get that is answered as copied left its whole version and nothing else, unless
\* another get wrote the same file meanwhile or the agent replaced it.
\* (claude_mcp_sas.py get, _copy_to_drop)
CopiesWhole ==
  [][\A g \in Gets :
       (/\ answer[g] = None /\ answer'[g] = "result"
        /\ handle[g].real = "file" /\ g \notin shared)
       => content'[LocalOf[g]] = [i \in Parts |-> IF i <= Size THEN g ELSE None]]_vars

\* A get answered with a ToolError left no part of its download: a file is found with
\* one only if the answer is a result or unexpected.  The file may have been created.
\* (claude_mcp_sas.py get, _check)
ErrorsLeaveFiles ==
  \A g \in Gets, p \in Paths, i \in Parts :
    content[p][i] = g => answer[g] # "error"

\* Every call ends, even when its process on the SAS server never does, unless the agent
\* put a named pipe at its path and nobody opens the other end: time and again no other
\* call is under way, so a blocked call keeps none of the others.
\* (claude_mcp_sas.py run_process, _open_in_drop)
CallsEnd == []<>(\A c \in Calls : at[c] \in {"new", "blocked", "end"})

-----------------------------------------------------------------------------
\* What the place of a call says of the file it holds.
CallConsistent(c) ==
  /\ c \in Commands => at[c] \in {"new", "connecting", "running", "hanging", "rejected", "end"}
  /\ At(c, "writing") => c \in Gets
  /\ handle[c] # None <=> at[c] \in {"blocked", "opened", "copying", "writing"}
  /\ handle[c] # None =>
       /\ handle[c].path \in Named(c)
       /\ At(c, "blocked") => handle[c].real = "pipe"
       /\ at[c] \in {"copying", "writing"} => handle[c].real \in {"file", "removed"}
       /\ handle[c].real = "file" => where[handle[c].path] = "file"
  /\ answer[c] # None => At(c, "end")

\* What the place of a put says of its copies.
PutConsistent(c) ==
  /\ {h.path : h \in copies[c]} \subseteq FilesOf[c]
  /\ \A h \in copies[c] : h.real \in {"file", "removed"}
  /\ At(c, "connecting") \/ LoggingIn(c) \/ c \in made =>
       {h.path : h \in copies[c]} = FilesOf[c]

Holding(g) == handle[g] # None /\ handle[g].real = "file"

\* What the place of a get says of the files: the parts it wrote, and nothing else unless
\* it shares its file.
GetConsistent(g) ==
  /\ ~At(g, "writing") => written[g] = 0
  /\ At(g, "writing") /\ Holding(g) /\ g \notin shared =>
       content[LocalOf[g]] = [i \in Parts |-> IF i <= written[g] THEN g ELSE None]
  /\ \A h \in Gets \ {g} :
       Holding(g) /\ Holding(h) /\ LocalOf[g] = LocalOf[h] => g \in shared
  /\ \A p \in Paths, i \in Parts :
       content[p][i] = g => at[g] \in {"writing", "end"} /\ answer[g] # "error"

\* The files that the calls hold, the copies of the puts and the parts of the gets agree
\* with their places: what the properties above rest on.
\* (claude_mcp_sas.py put, get, _open_in_drop, _copy_to_drop)
SasInv ==
  /\ TypeOK
  /\ \A c \in Calls : CallConsistent(c)
  /\ \A c \in Puts : PutConsistent(c)
  /\ \A g \in Gets : GetConsistent(g)
  /\ LockoutAvoided
=============================================================================
