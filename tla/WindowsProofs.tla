--------------------------- MODULE WindowsProofs ----------------------------
(***************************************************************************)
(* Proofs about Windows for every set of groups and threads and every      *)
(* value of the limits: types, the announcement and the spacing of the     *)
(* notifications, and the refinement of Lease.                             *)
(***************************************************************************)
EXTENDS WindowsLease, FiniteSetTheorems, TLAPS

\* The types of the values the steps compute.
LEMMA WithoutType ==
  ASSUME NEW f \in [Groups -> Times], NEW S
  PROVE  Without(f, S) \in [Groups -> Times]
BY DEF Without, Times

LEMMA TypeInit == Init => TypeOK
BY DEF Init, TypeOK, Times, Points

LEMMA TypeNext == TypeOK /\ [Next]_vars => TypeOK'
<1> SUFFICES ASSUME TypeOK, [Next]_vars PROVE TypeOK'
  OBVIOUS
<1> USE DEF TypeOK, Times, Keys, Points, object, locals, At, Goto
<1>1. ASSUME NEW t \in Threads, NEW g \in Groups, Open(t, g) PROVE TypeOK'
  BY <1>1 DEF Open
<1>2. ASSUME NEW t \in Threads, NEW S \in SUBSET Groups, Revoke(t, S) PROVE TypeOK'
  BY <1>2, WithoutType DEF Revoke, Close
<1>3. ASSUME NEW t \in Threads, CloseAll(t) PROVE TypeOK'
  BY <1>3, WithoutType DEF CloseAll, Close
<1>4. ASSUME NEW t \in Threads, NEW k \in Keys \cup {None}, NEW p \in Points, ReadClock(t, k, p)
      PROVE TypeOK'
  BY <1>4 DEF ReadClock
<1>5. ASSUME NEW t \in Threads, UseLocked(t) PROVE TypeOK'
  <2> DEFINE expired == Expired(reading[t])
  <2>1. expired \subseteq Groups
    BY DEF Expired
  <2>2. Without(lastUsed, expired) \in [Groups -> Times] /\ opened' \in [Groups -> Times]
    BY <1>5, WithoutType DEF UseLocked
  <2>3. lastUsed' \in [Groups -> Times]
    BY <1>5, <2>2 DEF UseLocked
  <2>4. QED
    BY <1>5, <2>1, <2>2, <2>3 DEF UseLocked
<1>6. ASSUME NEW t \in Threads, NotifyLocked(t) PROVE TypeOK'
  BY <1>6 DEF NotifyLocked
<1>7. ASSUME NEW t \in Threads, StatusLocked(t) PROVE TypeOK'
  <2>1. Expired(reading[t]) \subseteq Groups
    BY DEF Expired
  <2>2. QED
    BY <1>7, <2>1, WithoutType DEF StatusLocked, Close
<1>8. ASSUME NEW t \in Threads, NEW g \in Groups, Report(t, g) PROVE TypeOK'
  BY <1>8 DEF Report
<1>9. ASSUME NEW t \in Threads, Return(t) PROVE TypeOK'
  BY <1>9 DEF Return
<1>10. CASE Tick
  BY <1>10 DEF Tick
<1>11. CASE UNCHANGED vars
  BY <1>11 DEF vars
<1>12. ASSUME NEW t \in Threads, Begin(t) PROVE TypeOK'
  BY <1>12, <1>1, <1>2, <1>3, <1>4 DEF Begin, UseCall, NotifyCall, StatusCall
<1>13. ASSUME NEW t \in Threads, Continue(t) PROVE TypeOK'
  BY <1>13, <1>4, <1>5, <1>6, <1>7, <1>8, <1>9 DEF Continue, NotifyRefusal
<1>14. QED
  BY <1>10, <1>11, <1>12, <1>13 DEF Next

\* The variables of the object always have their types.
THEOREM TypeCorrect == Spec => []TypeOK
<1>1. QED
  BY TypeInit, TypeNext, PTL DEF Spec

-----------------------------------------------------------------------------
\* What each call is about, and the announcement of the refusals.

LEMMA AsksNext == TypeOK /\ AsksOK /\ [Next]_vars => AsksOK'
<1> SUFFICES ASSUME TypeOK, AsksOK, [Next]_vars PROVE AsksOK'
  OBVIOUS
<1> USE DEF TypeOK, AsksOK, Keys, object, locals, At, Goto
<1>1. ASSUME NEW t \in Threads, Begin(t) PROVE AsksOK'
  BY <1>1 DEF Begin, Open, Revoke, UseCall, CloseAll, NotifyCall, StatusCall, ReadClock
<1>2. ASSUME NEW t \in Threads, Continue(t) PROVE AsksOK'
  BY <1>2 DEF Continue, UseLocked, Report, NotifyRefusal, NotifyLocked, StatusLocked,
              Return, ReadClock
<1>3. CASE Tick
  BY <1>3 DEF Tick
<1>4. CASE UNCHANGED vars
  BY <1>4 DEF vars
<1>5. QED
  BY <1>1, <1>2, <1>3, <1>4 DEF Next

\* Who has closings to report has just collected or revoked groups.
LEMMA ReportsNext == TypeOK /\ ReportsOK /\ [Next]_vars => ReportsOK'
<1> SUFFICES ASSUME TypeOK, ReportsOK, [Next]_vars PROVE ReportsOK'
  OBVIOUS
<1> USE DEF TypeOK, ReportsOK, object, locals, At, Goto
<1>1. ASSUME NEW t \in Threads, Begin(t) PROVE ReportsOK'
  BY <1>1 DEF Begin, Open, Revoke, UseCall, CloseAll, NotifyCall, StatusCall, ReadClock
<1>2. ASSUME NEW t \in Threads, Continue(t) PROVE ReportsOK'
  BY <1>2 DEF Continue, UseLocked, Report, NotifyRefusal, NotifyLocked, StatusLocked,
              Return, ReadClock
<1>3. CASE Tick
  BY <1>3 DEF Tick
<1>4. CASE UNCHANGED vars
  BY <1>4 DEF vars
<1>5. QED
  BY <1>1, <1>2, <1>3, <1>4 DEF Next

\* A notification is recorded under its lock only, and never goes back.
LEMMA NotifiedNext ==
  ASSUME TypeOK, AsksOK, [Next]_vars, NEW k \in Keys, lastNotified[k] # None
  PROVE  /\ lastNotified'[k] \in Nat
         /\ \/ lastNotified'[k] = lastNotified[k]
            \/ lastNotified'[k] >= lastNotified[k] + NotifyInterval
<1> USE DEF TypeOK, Times, object, locals
<1> USE WindowsAssumption
<1>1. ASSUME NEW t \in Threads, NotifyLocked(t)
      PROVE  lastNotified' = lastNotified
             \/ /\ lastNotified' = [lastNotified EXCEPT ![asks[t]] = reading[t]]
                /\ MayNotify(asks[t], reading[t])
  BY <1>1 DEF NotifyLocked
<1>2. lastNotified' = lastNotified
      \/ \E t \in Threads : /\ lastNotified' = [lastNotified EXCEPT ![asks[t]] = reading[t]]
                            /\ MayNotify(asks[t], reading[t])
  BY <1>1 DEF Next, Begin, Continue, Open, Revoke, UseCall, CloseAll, NotifyCall, StatusCall,
     ReadClock, UseLocked, Report, NotifyRefusal, StatusLocked, Return, Tick, vars
<1>3. QED
  BY <1>2 DEF MayNotify

LEMMA AnnouncedNext ==
  TypeOK /\ AsksOK /\ RefusalsAnnounced /\ [Next]_vars => RefusalsAnnounced'
<1> SUFFICES ASSUME TypeOK, AsksOK, RefusalsAnnounced, [Next]_vars,
                    NEW t \in Threads, At(t, "refused")'
             PROVE  /\ lastNotified'[asks'[t]] # None
                    /\ reading'[t] - lastNotified'[asks'[t]] < NotifyInterval
  BY DEF RefusalsAnnounced
<1> USE WindowsAssumption DEF TypeOK, Times, At, Goto
<1>1. CASE At(t, "refused")
  <2>1. asks'[t] = asks[t] /\ reading'[t] = reading[t] /\ asks[t] \in Keys
    BY <1>1 DEF AsksOK, Next, Begin, Continue, Open, Revoke, UseCall, CloseAll, NotifyCall,
       StatusCall, ReadClock, UseLocked, Report, NotifyRefusal, NotifyLocked, StatusLocked,
       Return, Tick, vars, object, locals
  <2>2. lastNotified[asks[t]] # None /\ reading[t] - lastNotified[asks[t]] < NotifyInterval
    BY <1>1 DEF RefusalsAnnounced
  <2>3. /\ lastNotified[asks[t]] \in Nat /\ lastNotified'[asks[t]] \in Nat
        /\ lastNotified'[asks[t]] >= lastNotified[asks[t]]
    BY <2>1, <2>2, NotifiedNext
  <2>4. QED
    BY <2>1, <2>2, <2>3
<1>2. CASE ~At(t, "refused")
  <2>1. NotifyLocked(t)
    BY <1>2 DEF Next, Begin, Continue, Open, Revoke, UseCall, CloseAll, NotifyCall,
       StatusCall, ReadClock, UseLocked, Report, NotifyRefusal, NotifyLocked, StatusLocked,
       Return, Tick, vars, object, locals
  <2>2. asks[t] \in Keys /\ asks'[t] = asks[t] /\ reading'[t] = reading[t]
    BY <2>1 DEF NotifyLocked, AsksOK
  <2>3. QED
    BY <2>1, <2>2 DEF NotifyLocked, MayNotify
<1>3. QED
  BY <1>1, <1>2

\* Whoever is refused has been announced, and the notifications of a key are
\* spaced, for any number of threads and groups.
THEOREM Announced == Spec => []RefusalsAnnounced
<1>1. Init => AsksOK /\ RefusalsAnnounced
  BY DEF Init, AsksOK, RefusalsAnnounced, At
<1>2. QED
  BY <1>1, TypeInit, TypeNext, AsksNext, AnnouncedNext, PTL DEF Spec

\* Two notifications of the same key are NotifyInterval apart.
THEOREM Spaced == Spec => NotificationsSpaced
<1>1. Init => AsksOK
  BY DEF Init, AsksOK
<1>2. TypeOK /\ AsksOK /\ [Next]_vars =>
        [\A k \in Keys : lastNotified[k] # None /\ lastNotified'[k] # lastNotified[k] =>
           lastNotified'[k] >= lastNotified[k] + NotifyInterval]_vars
  BY NotifiedNext
<1>3. QED
  BY <1>1, <1>2, TypeInit, TypeNext, AsksNext, PTL DEF Spec, NotificationsSpaced

-----------------------------------------------------------------------------
\* Every closing is reported once.

\* The groups that a thread has more to report after a step are those it closed.
LEMMA ReportersNext ==
  ASSUME TypeOK, ReportsOK, NEW t \in Threads, Begin(t) \/ Continue(t),
         ~ \E u \in Threads : CloseAll(u)
  PROVE  /\ \A u \in Threads \ {t} : toReport'[u] = toReport[u]
         /\ \A g \in Groups :
              g \in toReport'[t] \ toReport[t] <=> opened[g] # None /\ opened'[g] = None
<1> USE WindowsAssumption DEF TypeOK, Times, object, locals
<1>1. CASE UseLocked(t) \/ StatusLocked(t)
  <2> DEFINE expired == Expired(reading[t])
  <2>1. /\ toReport' = [toReport EXCEPT ![t] = expired]
        /\ opened' = Without(opened, expired)
        /\ toReport[t] = {}
    BY <1>1 DEF UseLocked, StatusLocked, Close, ReportsOK, At
  <2>2. \A g \in Groups : g \in expired => opened[g] # None
    BY DEF Expired, IsOpen
  <2>3. QED
    BY <2>1, <2>2 DEF Without
<1>2. CASE \E S \in SUBSET Groups : Revoke(t, S)
  <2>1. PICK S \in SUBSET Groups : Revoke(t, S)
    BY <1>2
  <2>2. /\ toReport' = [toReport EXCEPT ![t] = {g \in S : IsOpen(g)}]
        /\ opened' = Without(opened, S)
        /\ toReport[t] = {}
    BY <2>1 DEF Revoke, Close, ReportsOK, At
  <2>3. QED
    BY <2>2 DEF Without, IsOpen
<1>3. CASE \E g \in Groups : Open(t, g)
  BY <1>3 DEF Open
<1>4. CASE \E g \in Groups : Report(t, g)
  BY <1>4 DEF Report
<1>5. CASE \/ \E g \in Groups : UseCall(t, g)
           \/ \E k \in OtherKeys : NotifyCall(t, k)
           \/ StatusCall(t) \/ NotifyRefusal(t) \/ NotifyLocked(t) \/ Return(t)
  BY <1>5 DEF UseCall, NotifyCall, StatusCall, NotifyRefusal, NotifyLocked, Return, ReadClock
<1>6. QED
  BY <1>1, <1>2, <1>3, <1>4, <1>5 DEF Begin, Continue

LEMMA ClosingNext ==
  ASSUME TypeOK, ReportsOK, [Next]_vars, NEW g \in Groups
  PROVE  LET reporters == {t \in Threads : g \in toReport'[t] \ toReport[t]}
             closed == opened[g] # None /\ opened'[g] = None
         IN IF closed /\ ~ \E t \in Threads : CloseAll(t)
            THEN Cardinality(reporters) = 1
            ELSE reporters = {}
<1> DEFINE reporters == {t \in Threads : g \in toReport'[t] \ toReport[t]}
           closed == opened[g] # None /\ opened'[g] = None
<1>1. CASE UNCHANGED <<toReport, opened>>
  BY <1>1
<1>2. CASE \E t \in Threads : CloseAll(t)
  BY <1>2 DEF CloseAll, locals
<1>3. CASE ~ (\E t \in Threads : CloseAll(t)) /\ ~UNCHANGED <<toReport, opened>>
  <2>1. PICK t \in Threads : Begin(t) \/ Continue(t)
    BY <1>3 DEF Next, Tick, vars, object, locals
  <2>2. reporters = IF closed THEN {t} ELSE {}
    BY <1>3, <2>1, ReportersNext
  <2>3. QED
    BY <1>3, <2>2, FS_Singleton
<1>4. QED
  BY <1>1, <1>2, <1>3

\* Every closing is reported by exactly one thread, the one that closed the group,
\* and nothing else is reported: for any number of threads that meet it at once.
THEOREM ReportedOnce == Spec => EveryClosingReportedOnce
<1>1. Init => ReportsOK
  BY DEF Init, ReportsOK
<1>2. TypeOK /\ ReportsOK /\ [Next]_vars =>
        [\A g \in Groups :
           LET reporters == {t \in Threads : g \in toReport'[t] \ toReport[t]}
               closed == opened[g] # None /\ opened'[g] = None
           IN IF closed /\ ~ \E t \in Threads : CloseAll(t)
              THEN Cardinality(reporters) = 1
              ELSE reporters = {}]_vars
  BY ClosingNext
<1>3. QED
  BY <1>1, <1>2, TypeInit, TypeNext, ReportsNext, PTL DEF Spec, EveryClosingReportedOnce

-----------------------------------------------------------------------------
\* Windows implements Lease.

\* A step with its history is a step of Windows.
LEMMA HistoryStep == [HNext]_hvars => [Next]_vars
<1> USE DEF hvars, history
<1>1. ASSUME NEW t \in Threads, Silent(t) PROVE Next
  BY <1>1 DEF Silent, Next, Begin, Continue
<1>2. ASSUME NEW t \in Threads, NEW g \in Groups, HOpen(t, g) \/ HRevoke(t, {g}) PROVE Next
  BY <1>2 DEF HOpen, HRevoke, Next, Begin
<1>3. ASSUME NEW t \in Threads, HRevoke(t, Groups) \/ HCloseAll(t) \/ HUseLocked(t) PROVE Next
  BY <1>3 DEF HRevoke, HCloseAll, HUseLocked, Next, Begin, Continue
<1>4. QED
  BY <1>1, <1>2, <1>3 DEF HNext, Next

LEMMA LeaseInit == HInit => LeaseInv
<1> SUFFICES ASSUME HInit PROVE LeaseInv
  OBVIOUS
<1>1. TypeOK /\ AsksOK
  BY TypeInit DEF HInit, Init, AsksOK
<1>2. QED
  BY <1>1 DEF LeaseInv, HInit, Init, OpenByAuthority, Times

LEMMA LeaseNext == LeaseInv /\ [HNext]_hvars => LeaseInv'
<1> SUFFICES ASSUME LeaseInv, [HNext]_hvars PROVE LeaseInv'
  OBVIOUS
<1>1. TypeOK' /\ AsksOK'
  BY HistoryStep, TypeNext, AsksNext DEF LeaseInv
<1> USE WindowsAssumption DEF LeaseInv, TypeOK, Times, Keys, object, locals, OpenByAuthority
<1>2. CASE Tick /\ UNCHANGED history
  BY <1>1, <1>2 DEF Tick, history
<1>3. ASSUME NEW t \in Threads, NEW g \in Groups, HOpen(t, g) PROVE LeaseInv'
  BY <1>1, <1>3 DEF HOpen, Open
<1>4. ASSUME NEW t \in Threads, NEW S \in SUBSET Groups, HRevoke(t, S) PROVE LeaseInv'
  BY <1>1, <1>4 DEF HRevoke, Revoke, Close, Without
<1>5. ASSUME NEW t \in Threads, HCloseAll(t) PROVE LeaseInv'
  BY <1>1, <1>5 DEF HCloseAll, CloseAll, Close, Without
<1>6. ASSUME NEW t \in Threads, HUseLocked(t) PROVE LeaseInv'
  <2> DEFINE expired == Expired(reading[t])
             kept == Without(lastUsed, expired)
  <2>1. /\ opened' = Without(opened, expired)
        /\ authority' = authority
        /\ pc' = [pc EXCEPT ![t] = IF IsOpen(asks[t]) /\ asks[t] \notin expired
                                   THEN "using" ELSE "refusing"]
        /\ asks[t] \in Groups
    BY <1>6 DEF HUseLocked, UseLocked, AsksOK, At, Goto
  <2>2. CASE IsOpen(asks[t]) /\ asks[t] \notin expired
    <3>1. /\ lastUsed' = [kept EXCEPT ![asks[t]] = reading[t]]
          /\ touched' = [touched EXCEPT ![asks[t]] = Later(@, reading[t])]
      BY <1>6, <2>1, <2>2 DEF HUseLocked, UseLocked
    <3>2. QED
      BY <1>1, <2>1, <2>2, <3>1 DEF Without, IsOpen, Later
  <2>3. CASE ~(IsOpen(asks[t]) /\ asks[t] \notin expired)
    <3>1. lastUsed' = kept /\ touched' = touched
      BY <1>6, <2>1, <2>3 DEF HUseLocked, UseLocked
    <3>2. QED
      BY <1>1, <2>1, <3>1 DEF Without
  <2>4. QED
    BY <2>2, <2>3
<1>7. ASSUME NEW t \in Threads, Silent(t) PROVE LeaseInv'
  <2>1. CASE StatusLocked(t)
    BY <1>1, <1>7, <2>1 DEF Silent, history, StatusLocked, Close, Without
  <2>2. CASE ~StatusLocked(t)
    BY <1>1, <1>7, <2>2 DEF Silent, history, UseCall, Report, NotifyCall, StatusCall,
       NotifyRefusal, NotifyLocked, Return, ReadClock
  <2>3. QED
    BY <2>1, <2>2
<1>8. CASE UNCHANGED hvars
  BY <1>1, <1>8 DEF hvars, vars, history
<1>9. QED
  BY <1>2, <1>3, <1>4, <1>5, <1>6, <1>7, <1>8 DEF HNext

\* The initial states are those of the lease.
LEMMA RefineInit == HInit => L!Init
BY DEF HInit, Init, L!Init, L!NoRequest, RequestOf

\* Every step is a step of the lease, or leaves it alone.
LEMMA RefineNext == LeaseInv /\ [HNext]_hvars => [L!Next]_(L!vars)
<1> SUFFICES ASSUME LeaseInv, [HNext]_hvars PROVE [L!Next]_(L!vars)
  OBVIOUS
<1> DEFINE request == [t \in Threads |-> RequestOf(t)]
<1> USE WindowsAssumption DEF LeaseInv, TypeOK, Times, Keys, object, locals, L!vars, At, Goto
<1>1. CASE Tick /\ UNCHANGED history
  <2>1. L!Pass
    BY <1>1 DEF Tick, history, L!Pass, RequestOf
  <2>2. QED
    BY <2>1 DEF L!Next
<1>2. ASSUME NEW t \in Threads, NEW g \in Groups, HOpen(t, g) PROVE L!Next
  <2>1. L!Authorise(g)
    BY <1>2 DEF HOpen, Open, L!Authorise, RequestOf
  <2>2. QED
    BY <2>1 DEF L!Next
<1>3. ASSUME NEW t \in Threads, NEW S \in SUBSET Groups, HRevoke(t, S) PROVE L!Next
  <2>1. request' = request
    BY <1>3 DEF HRevoke, Revoke, RequestOf
  <2>2. L!Withdraw(S)
    BY <1>3, <2>1 DEF HRevoke, Revoke, L!Withdraw, Without
  <2>3. QED
    BY <2>2 DEF L!Next
<1>4. ASSUME NEW t \in Threads, HCloseAll(t) PROVE L!Next
  <2>1. L!Withdraw(Groups)
    BY <1>4 DEF HCloseAll, CloseAll, L!Withdraw, Without, RequestOf
  <2>2. QED
    BY <2>1 DEF L!Next
<1>5. ASSUME NEW t \in Threads, HUseLocked(t) PROVE L!Next
  <2> DEFINE g == asks[t]
  <2>1. /\ pc[t] = "use" /\ g \in Groups /\ UNCHANGED <<clock, reading, asks, authority>>
        /\ request[t] = [state |-> "asked", group |-> g, arrival |-> reading[t]]
    BY <1>5 DEF HUseLocked, UseLocked, AsksOK, RequestOf
  <2>2. CASE IsOpen(g) /\ g \notin Expired(reading[t])
    <3>1. /\ pc' = [pc EXCEPT ![t] = "using"]
          /\ touched' = [touched EXCEPT ![g] = Later(@, reading[t])]
      BY <1>5, <2>2 DEF HUseLocked, UseLocked
    <3>2. /\ authority[g] # None
          /\ reading[t] < authority[g] + MaxLimit
          /\ reading[t] < touched[g] + IdleLimit
      BY <2>1, <2>2 DEF IsOpen, Expired, OpenByAuthority
    <3>3. request' = [request EXCEPT ![t].state = "granted"]
      BY <2>1, <3>1 DEF RequestOf
    <3>4. L!Grant(t)
      <4>1. request[t].state = "asked" /\ request[t].group = g /\ request[t].arrival = reading[t]
        BY <2>1
      <4>2. touched' = [touched EXCEPT ![g] = L!Later(@, reading[t])]
        BY <3>1 DEF L!Later, Later
      <4>3. QED
        BY <2>1, <3>2, <3>3, <4>1, <4>2 DEF L!Grant
    <3>5. QED
      BY <3>4 DEF L!Next
  <2>3. CASE ~(IsOpen(g) /\ g \notin Expired(reading[t]))
    <3>1. pc' = [pc EXCEPT ![t] = "refusing"] /\ touched' = touched
      BY <1>5, <2>3 DEF HUseLocked, UseLocked
    <3>2. L!End(t)
      BY <2>1, <3>1 DEF L!End, L!NoRequest, RequestOf
    <3>3. QED
      BY <3>2 DEF L!Next
  <2>4. QED
    BY <2>2, <2>3
<1>6. ASSUME NEW t \in Threads, Silent(t) PROVE [L!Next]_(L!vars)
  <2>1. ASSUME NEW g \in Groups, UseCall(t, g) PROVE L!Arrive(t, g)
    BY <1>6, <2>1 DEF Silent, history, UseCall, ReadClock, L!Arrive, RequestOf
  <2>2. CASE Return(t) /\ pc[t] = "using"
    <3>1. L!End(t)
      BY <1>6, <2>2 DEF Silent, history, Return, L!End, L!NoRequest, RequestOf
    <3>2. QED
      BY <3>1 DEF L!Next
  <2>3. CASE Return(t) /\ pc[t] # "using"
    BY <1>6, <2>3 DEF Silent, history, Return, RequestOf
  <2>4. CASE \E g \in Groups : Report(t, g)
    BY <1>6, <2>4 DEF Silent, history, Report, RequestOf
  <2>5. CASE \/ \E k \in OtherKeys : NotifyCall(t, k)
             \/ StatusCall(t) \/ NotifyRefusal(t)
    BY <1>6, <2>5 DEF Silent, history, NotifyCall, StatusCall, NotifyRefusal, ReadClock, RequestOf
  <2>6. CASE StatusLocked(t) \/ NotifyLocked(t)
    BY <1>6, <2>6 DEF Silent, history, StatusLocked, NotifyLocked, RequestOf
  <2>7. QED
    BY <1>6, <2>1, <2>2, <2>3, <2>4, <2>5, <2>6 DEF Silent, L!Next
<1>7. CASE UNCHANGED hvars
  BY <1>7 DEF hvars, vars, history, RequestOf
<1>8. QED
  BY <1>1, <1>2, <1>3, <1>4, <1>5, <1>6, <1>7 DEF HNext

\* An open group is one the person opened and didn't close since, both
\* dictionaries agree, and the last use remembered is never later than the real
\* one: for any number of threads and groups and any limits.
THEOREM OpenOnlyByAuthority == HSpec => []LeaseInv
<1>1. QED
  BY LeaseInit, LeaseNext, PTL DEF HSpec

\* A use is granted only within the authorisation of the person: every
\* behaviour of Windows is one of the lease.
THEOREM WindowsImplementsLease == HSpec => ImplementsLease
<1>1. QED
  BY LeaseInit, LeaseNext, RefineInit, RefineNext, PTL DEF HSpec, ImplementsLease, L!Spec
=============================================================================
