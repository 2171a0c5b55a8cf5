------------------------------- MODULE Entries -------------------------------
(***************************************************************************)
(* The entries of the secrets file of broker/claude_broker.py: which files *)
(* are loaded (Secrets.parse), and which entry answers a request           *)
(* (git_credential, gh_token).  A file is a record:                        *)
(*   malformed  whether a line is not KEY=value                            *)
(*   git  its GIT_<n> entries by number: url, a sequence of case-folded    *)
(*        parts (host, then path), <<>> when missing or not https; secrets,*)
(*        the fields PASSWORD and BEARER that it has                       *)
(*   gh   its GH_TOKEN (named = FALSE) and GH_<name>_TOKEN entries, by     *)
(*        name: whether the token is there, and the owner, None without    *)
(*   others  whether it has other keys                                     *)
(***************************************************************************)
EXTENDS Integers, FiniteSets, SequencesExt

CONSTANTS
  Parts,  \* hosts, and parts of the paths of URLs
  Owners, \* owners of GitHub repositories
  None

GitEntries == [url : Seq(Parts), secrets : SUBSET {"password", "bearer"}]
GhEntries == [named : BOOLEAN, token : BOOLEAN, owner : Owners \cup {None}]
SecretsFiles ==
  [malformed : BOOLEAN, git : Seq(GitEntries), gh : Seq(GhEntries), others : BOOLEAN]

FaultyGit(entry) == entry.url = <<>> \/ Cardinality(entry.secrets) # 1
FaultyGh(entry) == ~entry.token \/ (entry.named /\ entry.owner = None)

\* Every error refuses the file as a whole, and so does a file without secret.
Loads(file) ==
  /\ ~file.malformed
  /\ \A i \in DOMAIN file.git : ~FaultyGit(file.git[i])
  /\ \A i \in DOMAIN file.gh : ~FaultyGh(file.gh[i])
  /\ file.git # <<>> \/ file.gh # <<>> \/ file.others

Covers(entry, url) == IsPrefix(entry.url, url)

Found(i) == [status |-> "answered", entry |-> i]
NotFound == [status |-> "not found", entry |-> None]
Refused == [status |-> "refused", entry |-> None]

\* The answer with the entry i: Git needs the capability for a Bearer token.
Credential(file, i, authtype) ==
  IF "bearer" \in file.git[i].secrets /\ ~authtype THEN Refused ELSE Found(i)

\* Mutant of GitAnswer: the first entry that covers the URL.
GitAnswerFirst(file, url, authtype) ==
  LET covering == {i \in DOMAIN file.git : Covers(file.git[i], url)}
  IN IF covering = {} THEN NotFound ELSE Credential(file, Min(covering), authtype)

\* The first of the longest entries that cover the URL.
GitAnswer(file, url, authtype) ==
  LET covering == {i \in DOMAIN file.git : Covers(file.git[i], url)}
      length(i) == Len(file.git[i].url)
      longest == {i \in covering : \A j \in covering : length(j) <= length(i)}
  IN IF covering = {} THEN NotFound ELSE Credential(file, Min(longest), authtype)

\* The entry of the owner, or one without owner; without an owner in the
\* request, the only entry.
GhAnswer(file, owner) ==
  LET of(o) == {i \in DOMAIN file.gh : file.gh[i].owner = o}
  IN CASE file.gh = <<>> -> NotFound
       [] file.gh # <<>> /\ owner = None ->
            IF Len(file.gh) = 1 THEN Found(1) ELSE Refused
       [] OTHER ->
            IF of(owner) # {} THEN Found(Min(of(owner)))
            ELSE IF of(None) # {} THEN Found(Min(of(None))) ELSE NotFound
=============================================================================
