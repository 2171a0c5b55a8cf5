---------------------------- MODULE WindowsLease ----------------------------
(***************************************************************************)
(* Windows implements Lease.  Two history variables record what the person *)
(* did and which requests went through; no step of the code reads them.    *)
(***************************************************************************)
EXTENDS Windows

VARIABLES
  authority, \* last opening of a group, None once revoked or closed by close_all
  touched    \* latest clock reading of a granted use, or the opening

history == <<authority, touched>>
hvars == <<vars, history>>

Later(a, b) == IF a > b THEN a ELSE b

HInit ==
  /\ Init
  /\ authority = [g \in Groups |-> None]
  /\ touched = [g \in Groups |-> 0]

HOpen(t, g) ==
  /\ Open(t, g)
  /\ authority' = [authority EXCEPT ![g] = clock]
  /\ touched' = [touched EXCEPT ![g] = clock]

HRevoke(t, names) ==
  /\ Revoke(t, names)
  /\ authority' = Without(authority, names)
  /\ UNCHANGED touched

HCloseAll(t) ==
  /\ CloseAll(t)
  /\ authority' = Without(authority, Groups)
  /\ UNCHANGED touched

HUseLocked(t) ==
  /\ UseLocked(t)
  /\ touched' = IF pc'[t] = "using"
                THEN [touched EXCEPT ![asks[t]] = Later(@, reading[t])]
                ELSE touched
  /\ UNCHANGED authority

\* The steps that neither open, close nor grant on behalf of anyone.
Silent(t) ==
  /\ \/ \E g \in Groups : UseCall(t, g) \/ Report(t, g)
     \/ \E k \in OtherKeys : NotifyCall(t, k)
     \/ StatusCall(t)
     \/ StatusLocked(t)
     \/ NotifyRefusal(t)
     \/ NotifyLocked(t)
     \/ Return(t)
  /\ UNCHANGED history

HNext ==
  \/ Tick /\ UNCHANGED history
  \/ \E t \in Threads :
       \/ \E g \in Groups : HOpen(t, g) \/ HRevoke(t, {g})
       \/ HRevoke(t, Groups)
       \/ HCloseAll(t)
       \/ HUseLocked(t)
       \/ Silent(t)

HSpec == HInit /\ [][HNext]_hvars

\* The threads of the service run until their call returns; nobody has to call,
\* and the clock of the model may stop at MaxTime.
HFairSpec == HSpec /\ \A t \in Threads : WF_hvars(Continue(t) /\ HNext)

-----------------------------------------------------------------------------
\* A thread between its clock reading and the end of `use` is a request of the
\* lease; a refused one has none any more.
RequestOf(t) ==
  IF pc[t] \in {"use", "using"}
  THEN [state |-> IF pc[t] = "use" THEN "asked" ELSE "granted",
        group |-> asks[t], arrival |-> reading[t]]
  ELSE [state |-> "none", group |-> None, arrival |-> 0]

L == INSTANCE Lease WITH request <- [t \in Threads |-> RequestOf(t)]

\* Windows implements the lease: whatever the interleaving of the requests with
\* the commands of the host and with the collection of expired groups, a use is
\* granted only within the authorisation of the person.  (access.py Windows)
ImplementsLease == L!Spec

\* The two dictionaries hold the same groups; an open group is one the person
\* opened and didn't close since; and the last use the code remembers is never
\* later than the latest one, though it can go back in time when a thread with
\* an old reading gets the lock last.  (access.py open, use, _close)
OpenByAuthority ==
  \A g \in Groups :
    /\ opened[g] = None <=> lastUsed[g] = None
    /\ opened[g] # None =>
         /\ opened[g] = authority[g]
         /\ lastUsed[g] <= touched[g]

\* OpenByAuthority with the types it needs to be inductive: the invariant the
\* refinement of the lease rests on.  (access.py open, use, revoke, close_all)
LeaseInv ==
  /\ TypeOK
  /\ AsksOK
  /\ authority \in [Groups -> Times]
  /\ touched \in [Groups -> Nat]
  /\ OpenByAuthority
=============================================================================
