------------------------------ MODULE MCBroker -------------------------------
(***************************************************************************)
(* Small instances of Broker for TLC: two files that can be loaded and one *)
(* with an error, and what a request may ask of them.                      *)
(***************************************************************************)
EXTENDS BrokerHistory, TLC

CONSTANTS host, org, repo, other, owner

Password(url) == [url |-> url, secrets |-> {"password"}]
Bearer(url) == [url |-> url, secrets |-> {"bearer"}]
Default == [named |-> FALSE, token |-> TRUE, owner |-> None]
Named(o) == [named |-> TRUE, token |-> TRUE, owner |-> o]
File(git, gh) == [malformed |-> FALSE, git |-> git, gh |-> gh, others |-> FALSE]

Several == File(<<Password(<<host>>), Bearer(<<host, org>>), Bearer(<<host, org>>)>>,
                <<Default, Named(owner)>>)
One == File(<<Password(<<host, other>>)>>, <<Named(owner)>>)
\* An entry with both secrets, and one for a named owner that is missing.
Wrong == File(<<Password(<<host, org>>), [url |-> <<host, org, repo>>, secrets |-> {"password", "bearer"}]>>,
              <<Named(None)>>)
MCFiles == {Several, One, Wrong}

Git(url, authtype) == [group |-> "git", valid |-> TRUE, url |-> url, authtype |-> authtype]
Gh(o) == [group |-> "gh", valid |-> TRUE, owner |-> o]
MCWants ==
  {Git(<<host, org, repo>>, TRUE), Git(<<host, org, repo>>, FALSE),
   Gh(owner), Gh(other), Gh(None), [Gh(other) EXCEPT !.valid = FALSE]}

Symmetry == Permutations(Admins)
=============================================================================
