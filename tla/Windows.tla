------------------------------- MODULE Windows -------------------------------
(***************************************************************************)
(* The open groups shared by the secret broker and the MCP gateway: class  *)
(* Windows of broker/access.py.  A group is opened by the person on the    *)
(* host and closes IdleLimit after its last use, MaxLimit after it was     *)
(* opened, or when it is revoked.  Nothing closes a group at its deadline: *)
(* the next call of `use` or `status_lines` collects the expired groups.   *)
(*                                                                         *)
(* Both services are threaded, so a call is split where another thread can *)
(* run: `use`, `status_lines` and `notify_once` read the clock before they *)
(* take the lock, and `on_close` is called after the lock is released.     *)
(***************************************************************************)
EXTENDS Integers, FiniteSets

CONSTANTS
  Groups,         \* groups that can be opened
  OtherKeys,      \* keys of notify_once that are not groups (e.g. "locked")
  Threads,        \* threads of the service: requests and commands of the host
  IdleLimit,      \* idle_seconds
  MaxLimit,       \* max_seconds
  NotifyInterval, \* NOTIFY_INTERVAL_SECONDS
  MaxTime,        \* bound of the clock
  None            \* no time: absent from a dictionary

ASSUME WindowsAssumption ==
  /\ IdleLimit \in Nat
  /\ MaxLimit \in Nat
  /\ NotifyInterval \in Nat \ {0}
  /\ MaxTime \in Nat
  /\ None \notin Int

VARIABLES
  clock,        \* the monotonic clock
  opened,       \* self._opened: when each open group was opened
  lastUsed,     \* self._last_used
  lastNotified, \* self._last_notified
  pc,           \* where each thread is in its call
  reading,      \* `now`, the clock as the thread read it
  asks,         \* the group, or key, the thread's call is about
  toReport      \* groups closed by the thread, not reported to on_close yet

object == <<opened, lastUsed, lastNotified>>
locals == <<pc, reading, asks, toReport>>
vars == <<clock, object, locals>>

Keys == Groups \cup OtherKeys
Times == Nat \cup {None}
Points == {"idle", "use", "using", "refusing", "notify", "refused",
           "status", "reporting"}

TypeOK ==
  /\ clock \in Nat
  /\ opened \in [Groups -> Times]
  /\ lastUsed \in [Groups -> Times]
  /\ lastNotified \in [Keys -> Times]
  /\ pc \in [Threads -> Points]
  /\ reading \in [Threads -> Nat]
  /\ asks \in [Threads -> Keys \cup {None}]
  /\ toReport \in [Threads -> SUBSET Groups]

\* What a call is about: a group in `use`, a key in notify_once.
AsksOK ==
  \A t \in Threads :
    /\ pc[t] \in {"use", "using", "refusing"} => asks[t] \in Groups
    /\ pc[t] \in {"notify", "refused"} => asks[t] \in Keys

\* Only a thread that has just collected or revoked groups has some to report.
ReportsOK ==
  \A t \in Threads :
    toReport[t] # {} => pc[t] \in {"using", "refusing", "reporting"}

Init ==
  /\ clock = 0
  /\ opened = [g \in Groups |-> None]
  /\ lastUsed = [g \in Groups |-> None]
  /\ lastNotified = [k \in Keys |-> None]
  /\ pc = [t \in Threads |-> "idle"]
  /\ reading = [t \in Threads |-> 0]
  /\ asks = [t \in Threads |-> None]
  /\ toReport = [t \in Threads |-> {}]

IsOpen(g) == opened[g] # None

\* The dictionary f without the groups S.
Without(f, S) == [g \in Groups |-> IF g \in S THEN None ELSE f[g]]

\* Mutant of Expired: a group in use stays open for ever.
ExpiredIdleOnly(now) ==
  {g \in Groups : IsOpen(g) /\ now - lastUsed[g] >= IdleLimit}

\* The groups whose time is over, for a thread that read the clock at `now`.
Expired(now) ==
  {g \in Groups : /\ IsOpen(g)
                  /\ \/ now - lastUsed[g] >= IdleLimit
                     \/ now - opened[g] >= MaxLimit}

\* Mutant of Close: the last use of the group is kept.
CloseKeepingUse(S) ==
  /\ opened' = Without(opened, S)
  /\ UNCHANGED lastUsed

\* _close, for every group of S: both dictionaries forget it.
Close(S) ==
  /\ opened' = Without(opened, S)
  /\ lastUsed' = Without(lastUsed, S)

At(t, point) == pc[t] = point
Goto(t, point) == pc' = [pc EXCEPT ![t] = point]

-----------------------------------------------------------------------------
\* Commands of the host: `open`, `revoke` (a group or all) and `close_all`.

Open(t, g) ==
  /\ At(t, "idle")
  /\ opened' = [opened EXCEPT ![g] = clock]
  /\ lastUsed' = [lastUsed EXCEPT ![g] = clock]
  /\ UNCHANGED <<clock, lastNotified, locals>>

\* Mutant of Revoke: the groups that were closed already are reported too.
RevokeReportingAll(t, names) ==
  /\ At(t, "idle")
  /\ Close(names)
  /\ toReport' = [toReport EXCEPT ![t] = names]
  /\ Goto(t, "reporting")
  /\ UNCHANGED <<clock, lastNotified, reading, asks>>

Revoke(t, names) ==
  /\ At(t, "idle")
  /\ Close(names)
  /\ toReport' = [toReport EXCEPT ![t] = {g \in names : IsOpen(g)}]
  /\ Goto(t, "reporting")
  /\ UNCHANGED <<clock, lastNotified, reading, asks>>

CloseAll(t) ==
  /\ At(t, "idle")
  /\ Close(Groups)
  /\ UNCHANGED <<clock, lastNotified, locals>>

-----------------------------------------------------------------------------
\* A use of a group: the clock is read, then the lock is taken.

ReadClock(t, k, point) ==
  /\ reading' = [reading EXCEPT ![t] = clock]
  /\ asks' = [asks EXCEPT ![t] = k]
  /\ Goto(t, point)
  /\ UNCHANGED <<clock, object, toReport>>

UseCall(t, g) == At(t, "idle") /\ ReadClock(t, g, "use")

UseLocked(t) ==
  LET g == asks[t]
      now == reading[t]
      expired == Expired(now)
      granted == IsOpen(g) /\ g \notin expired
      kept == Without(lastUsed, expired)
  IN /\ At(t, "use")
     /\ opened' = Without(opened, expired)
     /\ lastUsed' = IF granted THEN [kept EXCEPT ![g] = now] ELSE kept
     /\ toReport' = [toReport EXCEPT ![t] = expired]
     /\ Goto(t, IF granted THEN "using" ELSE "refusing")
     /\ UNCHANGED <<clock, lastNotified, reading, asks>>

\* A refused use calls notify_once for its group, once it has reported.
NotifyRefusal(t) ==
  /\ At(t, "refusing") /\ toReport[t] = {}
  /\ ReadClock(t, asks[t], "notify")

-----------------------------------------------------------------------------
\* notify_once, also called for a key that is not a group.

NotifyCall(t, k) == At(t, "idle") /\ ReadClock(t, k, "notify")

\* Mutants of MayNotify: only the first time, and every time.
MayNotifyOnce(k, now) == lastNotified[k] = None
MayNotifyAlways(k, now) == TRUE

MayNotify(k, now) ==
  lastNotified[k] = None \/ now - lastNotified[k] >= NotifyInterval

\* Mutant of NotifyLocked: the thread waits until it may notify.
NotifyWaiting(t) ==
  LET k == asks[t]
  IN /\ At(t, "notify")
     /\ IF MayNotify(k, reading[t])
        THEN /\ lastNotified' = [lastNotified EXCEPT ![k] = reading[t]]
             /\ Goto(t, "refused")
        ELSE UNCHANGED <<lastNotified, pc>>
     /\ UNCHANGED <<clock, opened, lastUsed, reading, asks, toReport>>

NotifyLocked(t) ==
  LET k == asks[t]
  IN /\ At(t, "notify")
     /\ lastNotified' = IF MayNotify(k, reading[t])
                        THEN [lastNotified EXCEPT ![k] = reading[t]]
                        ELSE lastNotified
     /\ Goto(t, "refused")
     /\ UNCHANGED <<clock, opened, lastUsed, reading, asks, toReport>>

-----------------------------------------------------------------------------
\* status_lines collects the expired groups too.

StatusCall(t) == At(t, "idle") /\ ReadClock(t, None, "status")

StatusLocked(t) ==
  LET expired == Expired(reading[t])
  IN /\ At(t, "status")
     /\ Close(expired)
     /\ toReport' = [toReport EXCEPT ![t] = expired]
     /\ Goto(t, "reporting")
     /\ UNCHANGED <<clock, lastNotified, reading, asks>>

-----------------------------------------------------------------------------
\* on_close, for one group closed by the thread; the lock is not held.
Report(t, g) ==
  /\ g \in toReport[t]
  /\ toReport' = [toReport EXCEPT ![t] = @ \ {g}]
  /\ UNCHANGED <<clock, object, pc, reading, asks>>

\* A call that has nothing left to report returns to its caller.
Return(t) ==
  /\ \/ At(t, "refused")
     \/ pc[t] \in {"using", "reporting"} /\ toReport[t] = {}
  /\ Goto(t, "idle")
  /\ reading' = [reading EXCEPT ![t] = 0]
  /\ asks' = [asks EXCEPT ![t] = None]
  /\ UNCHANGED <<clock, object, toReport>>

Tick ==
  /\ clock < MaxTime
  /\ clock' = clock + 1
  /\ UNCHANGED <<object, locals>>

\* A thread begins a call.
Begin(t) ==
  \/ \E g \in Groups : Open(t, g) \/ Revoke(t, {g}) \/ UseCall(t, g)
  \/ Revoke(t, Groups)
  \/ CloseAll(t)
  \/ \E k \in OtherKeys : NotifyCall(t, k)
  \/ StatusCall(t)

\* A thread goes on with the call it began.
Continue(t) ==
  \/ UseLocked(t)
  \/ \E g \in Groups : Report(t, g)
  \/ NotifyRefusal(t)
  \/ NotifyLocked(t)
  \/ StatusLocked(t)
  \/ Return(t)

Next == Tick \/ \E t \in Threads : Begin(t) \/ Continue(t)

Spec == Init /\ [][Next]_vars

-----------------------------------------------------------------------------
\* Every closing of a group (expiry or revocation) is reported to on_close by
\* exactly one thread, the one that closed it, and nothing else is reported:
\* two calls that meet the same expired group don't both report it.  Only
\* close_all closes without a report.  (access.py revoke, use, status_lines)
EveryClosingReportedOnce ==
  [][\A g \in Groups :
       LET reporters == {t \in Threads : g \in toReport'[t] \ toReport[t]}
           closed == opened[g] # None /\ opened'[g] = None
       IN IF closed /\ ~ \E t \in Threads : CloseAll(t)
          THEN Cardinality(reporters) = 1
          ELSE reporters = {}]_vars

\* Whoever is refused has been announced: when `use` raises, the last
\* notification of the group is less than NotifyInterval older than the reading
\* of the refused thread, whichever thread sent it.  (access.py notify_once)
RefusalsAnnounced ==
  \A t \in Threads :
    At(t, "refused") =>
      /\ lastNotified[asks[t]] # None
      /\ reading[t] - lastNotified[asks[t]] < NotifyInterval

\* Two notifications of a key are at least NotifyInterval apart, by the clock
\* readings of the threads that sent them, even when a thread with an old
\* reading gets the lock last.  (access.py notify_once)
NotificationsSpaced ==
  [][\A k \in Keys :
       lastNotified[k] # None /\ lastNotified'[k] # lastNotified[k] =>
         lastNotified'[k] >= lastNotified[k] + NotifyInterval]_vars

\* Every call of the object returns: nothing is held while on_close runs, and
\* a refused call isn't kept by its notification.
CallsReturn == \A t \in Threads : ~At(t, "idle") ~> At(t, "idle")
=============================================================================
