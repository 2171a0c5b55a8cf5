---------------------------- MODULE BrokerProofs ----------------------------
(***************************************************************************)
(* Theorems about Broker and BrokerHistory, for any requests, files and    *)
(* commands.  The answers are first shown to fit the file they are found   *)
(* in (the entries: the first of the most precise URLs, the owner), then   *)
(* the file to be one that was loaded during the request.                  *)
(***************************************************************************)
EXTENDS BrokerHistory, FiniteSetTheorems, SequenceTheorems, TLAPS

WP == INSTANCE WindowsProofs WITH OtherKeys <- {Locked}, authority <- opened,
                                  touched <- lastUsed

\* The smallest of some numbers.
LEMMA Smallest ==
  ASSUME NEW S \in SUBSET Nat, S # {}
  PROVE  \E n \in S : \A k \in S : n <= k
<1> DEFINE R == {ss \in Nat \X Nat : ss[1] < ss[2]}
<1>1. IsWellFoundedOn(R, Nat)
  BY NatLessThanWellFounded DEF OpToRel
<1>2. PICK n \in S : \A k \in S : ~(<<k, n>> \in R)
  <2> HIDE DEF R
  <2> QED BY <1>1, WFMin
<1>3. ASSUME NEW k \in S PROVE n <= k
  <2>1. k \in Nat /\ n \in Nat
    OBVIOUS
  <2>2. k < n => <<k, n>> \in R
    BY <2>1
  <2> QED BY <1>2, <2>1, <2>2
<1> QED BY <1>3

LEMMA MinInSet ==
  ASSUME NEW S \in SUBSET Nat, S # {}
  PROVE  Min(S) \in S /\ \A k \in S : Min(S) <= k
BY Smallest DEF Min

\* The largest of some bounded numbers.
LEMMA Largest ==
  ASSUME NEW S \in SUBSET Nat, S # {}, NEW b \in Nat, \A k \in S : k <= b
  PROVE  \E n \in S : \A k \in S : k <= n
<1> DEFINE T == {b - k : k \in S}
<1>1. \A k \in S : k \in Nat /\ b - k \in Nat
  OBVIOUS
<1>2. T \in SUBSET Nat /\ T # {}
  BY <1>1
<1>3. PICK m \in T : \A k \in T : m <= k
  BY <1>2, Smallest
<1>4. PICK n \in S : m = b - n
  BY <1>3
<1>5. ASSUME NEW k \in S PROVE k <= n
  <2>1. b - n <= b - k
    BY <1>3, <1>4
  <2> QED BY <1>1, <2>1
<1> QED BY <1>5

\* Two prefixes of one URL.
LEMMA PrefixOfPrefix ==
  ASSUME NEW s \in Seq(Parts), NEW t \in Seq(Parts), NEW url \in Seq(Parts),
         IsPrefix(s, url), IsPrefix(t, url), Len(s) <= Len(t)
  PROVE  IsPrefix(s, t)
<1>1. ASSUME NEW u \in Seq(Parts), NEW n \in 0 .. Len(u)
      PROVE  /\ SubSeq(u, 1, n) \in Seq(Parts) /\ Len(SubSeq(u, 1, n)) = n
             /\ \A i \in 1 .. n : SubSeq(u, 1, n)[i] = u[i]
  BY <1>1, SubSeqProperties
<1>2. \A i \in 1 .. Len(s) : s[i] = url[i]
  BY <1>1 DEF IsPrefix
<1>3. \A i \in 1 .. Len(t) : t[i] = url[i]
  BY <1>1 DEF IsPrefix
<1>4. SubSeq(s, 1, Len(s)) = SubSeq(t, 1, Len(s))
  BY <1>1, <1>2, <1>3
<1> QED BY <1>4 DEF IsPrefix

-----------------------------------------------------------------------------
LEMMA EntryTypes ==
  ASSUME NEW file \in SecretsFiles
  PROVE  /\ \A i \in DOMAIN file.git : i \in Nat /\ file.git[i] \in GitEntries
         /\ \A i \in DOMAIN file.gh : i \in Nat /\ file.gh[i] \in GhEntries
BY DEF SecretsFiles

\* The only secret of an entry without Bearer token is a password.
LEMMA OneSecret ==
  ASSUME NEW entry \in GitEntries, ~FaultyGit(entry), "bearer" \notin entry.secrets
  PROVE  entry.secrets = {"password"}
<1>1. entry.secrets \in SUBSET {"password"}
  BY DEF GitEntries
<1>2. entry.secrets # {}
  <2>1. Cardinality(entry.secrets) = 1 /\ Cardinality({}) = 0
    BY FS_EmptySet DEF FaultyGit
  <2> QED BY <2>1
<1> QED BY <1>1, <1>2

\* An answer of GitAnswer is the first of the most precise entries that cover the URL.
LEMMA GitFits ==
  ASSUME NEW file \in SecretsFiles, Loads(file), NEW w \in GitWants
  PROVE  LET a == GitAnswer(file, w.url, w.authtype)
         IN /\ FitsGit(w, file, a)
            /\ a \in {Found(i) : i \in DOMAIN file.git} \cup {NotFound, Refused}
<1> DEFINE covering == {i \in DOMAIN file.git : Covers(file.git[i], w.url)}
           length(i) == Len(file.git[i].url)
           longest == {i \in covering : \A j \in covering : length(j) <= length(i)}
           first == Min(longest)
           a == GitAnswer(file, w.url, w.authtype)
<1>1. /\ w.url \in Seq(Parts) /\ Len(w.url) \in Nat
      /\ \A i \in DOMAIN file.git : /\ i \in Nat /\ file.git[i] \in GitEntries
                                   /\ file.git[i].url \in Seq(Parts) /\ length(i) \in Nat
  BY EntryTypes DEF GitWants, GitEntries
<1>2. CASE covering = {}
  <2>1. a = NotFound
    BY <1>2 DEF GitAnswer
  <2>2. \A i \in DOMAIN file.git : ~Covers(file.git[i], w.url)
    BY <1>2
  <2>3. FitsGit(w, file, NotFound)
    BY <2>2 DEF FitsGit, NotFound
  <2> QED BY <2>1, <2>3
<1>3. CASE covering # {}
  <2>1. longest # {}
    <3> DEFINE lengths == {length(i) : i \in covering}
    <3>1. lengths \in SUBSET Nat /\ lengths # {}
      BY <1>1, <1>3
    <3>2. \A n \in lengths : n <= Len(w.url)
      BY DEF Covers, IsPrefix
    <3>3. PICK n \in lengths : \A k \in lengths : k <= n
      <4> HIDE DEF lengths
      <4> QED BY <1>1, <3>1, <3>2, Largest
    <3>4. PICK i \in covering : length(i) = n
      BY <3>3
    <3>5. i \in longest
      BY <3>3, <3>4
    <3> QED BY <3>5
  <2>2. first \in longest /\ \A k \in longest : first <= k
    <3>1. longest \in SUBSET Nat
      BY <1>1
    <3> HIDE DEF longest
    <3> QED BY <2>1, <3>1, MinInSet
  <2>3. a = Credential(file, first, w.authtype)
    BY <1>3 DEF GitAnswer
  <2>4. CASE "bearer" \in file.git[first].secrets /\ ~w.authtype
    <3>1. a = Refused
      BY <2>3, <2>4 DEF Credential
    <3> QED BY <3>1 DEF FitsGit, Refused
  <2>5. CASE ~("bearer" \in file.git[first].secrets /\ ~w.authtype)
    <3>1. a = Found(first) /\ first \in DOMAIN file.git /\ Covers(file.git[first], w.url)
      BY <2>2, <2>3, <2>5 DEF Credential
    <3>2. ASSUME NEW i \in DOMAIN file.git, Covers(file.git[i], w.url), i # first
          PROVE  /\ Covers(file.git[i], file.git[first].url)
                 /\ file.git[i].url = file.git[first].url => i > first
      <4>1. i \in covering /\ length(i) <= length(first)
        BY <2>2, <3>2
      <4>2. IsPrefix(file.git[i].url, file.git[first].url)
        BY <1>1, <3>1, <3>2, <4>1, PrefixOfPrefix DEF Covers
      <4>3. file.git[i].url = file.git[first].url => i \in longest
        BY <2>2, <4>1
      <4>4. file.git[i].url = file.git[first].url => first <= i
        BY <2>2, <4>3
      <4>5. first \in Nat /\ i \in Nat /\ i # first
        BY <1>1, <3>1, <3>2
      <4>6. first <= i => i > first
        BY <4>5
      <4> QED BY <4>2, <4>4, <4>6 DEF Covers
    <3>3. w.authtype \/ file.git[first].secrets = {"password"}
      BY <1>1, <2>5, <3>1, OneSecret DEF Loads
    <3>4. FitsGit(w, file, Found(first))
      BY <3>1, <3>2, <3>3 DEF FitsGit, Found
    <3> QED BY <3>1, <3>4
  <2> QED BY <2>4, <2>5
<1> QED BY <1>2, <1>3

\* An answer of GhAnswer is an entry of the owner, or one without owner.
LEMMA GhFits ==
  ASSUME NEW file \in SecretsFiles, NEW w \in GhWants
  PROVE  LET a == GhAnswer(file, w.owner)
         IN /\ FitsGh(w, file, a)
            /\ a \in {Found(i) : i \in DOMAIN file.gh} \cup {NotFound, Refused}
<1> DEFINE of(o) == {i \in DOMAIN file.gh : file.gh[i].owner = o}
           owners == {file.gh[i].owner : i \in DOMAIN file.gh}
           a == GhAnswer(file, w.owner)
<1>1. /\ \A i \in DOMAIN file.gh : i \in Nat
      /\ Len(file.gh) = 1 => 1 \in DOMAIN file.gh
      /\ file.gh = <<>> => DOMAIN file.gh = {}
  BY EntryTypes DEF SecretsFiles
<1>2. \A o : of(o) # {} => Min(of(o)) \in of(o)
  <2> TAKE o
  <2>1. of(o) \in SUBSET Nat
    BY <1>1
  <2> HIDE DEF of
  <2> QED BY <2>1, MinInSet
<1>3. CASE file.gh = <<>>
  BY <1>1, <1>3 DEF GhAnswer, FitsGh, NotFound
<1>4. CASE file.gh # <<>> /\ w.owner = None
  <2>1. a = IF Len(file.gh) = 1 THEN Found(1) ELSE Refused
    BY <1>4 DEF GhAnswer
  <2> QED BY <1>1, <1>4, <2>1 DEF FitsGh, Found, Refused
<1>5. CASE file.gh # <<>> /\ w.owner # None
  <2>1. a = IF of(w.owner) # {} THEN Found(Min(of(w.owner)))
            ELSE IF of(None) # {} THEN Found(Min(of(None))) ELSE NotFound
    BY <1>5 DEF GhAnswer
  <2>2. w.owner \in owners <=> of(w.owner) # {}
    OBVIOUS
  <2>3. CASE of(w.owner) # {}
    <3>1. a = Found(Min(of(w.owner))) /\ Min(of(w.owner)) \in of(w.owner)
      BY <1>2, <2>1, <2>3
    <3>2. FitsGh(w, file, Found(Min(of(w.owner))))
      BY <1>5, <2>2, <2>3, <3>1 DEF FitsGh, Found
    <3> QED BY <3>1, <3>2
  <2>4. CASE of(w.owner) = {} /\ of(None) # {}
    <3>1. a = Found(Min(of(None))) /\ Min(of(None)) \in of(None)
      BY <1>2, <2>1, <2>4
    <3>2. FitsGh(w, file, Found(Min(of(None))))
      BY <1>5, <2>2, <2>4, <3>1 DEF FitsGh, Found
    <3> QED BY <3>1, <3>2
  <2>5. CASE of(w.owner) = {} /\ of(None) = {}
    <3>1. a = NotFound
      BY <2>1, <2>5
    <3>2. owners \cap {w.owner, None} = {}
      BY <2>5
    <3>3. FitsGh(w, file, NotFound)
      BY <3>2 DEF FitsGh, NotFound
    <3> QED BY <3>1, <3>3
  <2> QED BY <2>3, <2>4, <2>5
<1> QED BY <1>3, <1>4, <1>5

-----------------------------------------------------------------------------
\* The lemma on Windows, under the names of Broker.
LEMMA WindowsNext == W!TypeOK /\ [W!Next]_(W!vars) => W!TypeOK'
<1> SUFFICES ASSUME W!TypeOK, [W!Next]_(W!vars) PROVE W!TypeOK'
  OBVIOUS
<1>1. WP!TypeOK /\ (WP!TypeOK' => W!TypeOK')
  BY DEF W!TypeOK, W!Times, W!Keys, W!Points, WP!TypeOK, WP!Times, WP!Keys, WP!Points
<1>2. [WP!Next]_(WP!vars)
  BY DEF W!Next, W!Tick, W!Begin, W!Open, W!Revoke, W!CloseAll, W!UseCall, W!NotifyCall,
         W!StatusCall, W!Continue, W!UseLocked, W!Report, W!NotifyRefusal, W!NotifyLocked,
         W!StatusLocked, W!Return, W!ReadClock, W!MayNotify, W!Close, W!Expired, W!IsOpen,
         W!Without, W!At, W!Goto, W!vars, W!object, W!locals,
         WP!Next, WP!Tick, WP!Begin, WP!Open, WP!Revoke, WP!CloseAll, WP!UseCall,
         WP!NotifyCall, WP!StatusCall, WP!Continue, WP!UseLocked, WP!Report,
         WP!NotifyRefusal, WP!NotifyLocked, WP!StatusLocked, WP!Return, WP!ReadClock,
         WP!MayNotify, WP!Close, WP!Expired, WP!IsOpen, WP!Without, WP!At, WP!Goto,
         WP!vars, WP!object, WP!locals
<1> QED BY <1>1, <1>2, BrokerAssumption, WP!TypeNext

\* Every step of a thread of the broker is one of Windows, or leaves it alone.
LEMMA RequestStep ==
  ASSUME BrokerInv, NEW c \in Requests,
         Receive(c) \/ NotifyLocked(c) \/ Use(c) \/ Inside(c) \/ Answer(c)
  PROVE  [W!Next]_(W!vars)
<1> USE DEF W!Next, W!Begin, W!Continue, Threads, Groups
<1>1. CASE Receive(c)
  BY <1>1 DEF Receive, windowState, W!vars, W!object, W!locals
<1>2. CASE NotifyLocked(c)
  BY <1>2 DEF NotifyLocked
<1>3. CASE Use(c)
  <2>1. want[c].group \in Groups
    BY <1>3, BrokerAssumption DEF Use, At, BrokerInv, Served, GitWants, GhWants
  <2> QED BY <1>3, <2>1 DEF Use
<1>4. CASE Inside(c)
  BY <1>4 DEF Inside
<1>5. CASE Answer(c)
  BY <1>5 DEF Answer
<1> QED BY <1>1, <1>2, <1>3, <1>4, <1>5

LEMMA CommandStep ==
  ASSUME BrokerInv, NEW a \in Admins,
         \/ \E file \in Files : Load(a, file)
         \/ Lock(a) \/ CloseGroups(a) \/ OpenGroup(a) \/ Revoke(a, Groups) \/ Status(a)
         \/ \E g \in Groups : Allow(a, g) \/ Revoke(a, {g})
         \/ Inside(a) \/ EndCommand(a)
  PROVE  [W!Next]_(W!vars)
<1> USE DEF W!Next, W!Begin, W!Continue, Threads
<1>1. CASE UNCHANGED <<clock, windowState>>
  BY <1>1 DEF windowState, W!vars, W!object, W!locals
<1>2. CASE OpenGroup(a)
  <2>1. command[a].group \in Groups
    BY <1>2 DEF OpenGroup, BrokerInv
  <2> QED BY <1>2, <2>1 DEF OpenGroup
<1>3. CASE CloseGroups(a) \/ Status(a) \/ Inside(a) \/ EndCommand(a)
  BY <1>3 DEF CloseGroups, Status, Inside, EndCommand
<1>4. CASE Revoke(a, Groups) \/ \E g \in Groups : Revoke(a, {g})
  BY <1>4 DEF Revoke
<1> QED BY <1>1, <1>2, <1>3, <1>4 DEF Load, Lock, SetSecrets, Allow

LEMMA WindowsStep ==
  ASSUME BrokerInv, [Next]_vars
  PROVE  [W!Next]_(W!vars)
<1>1. CASE Tick
  BY <1>1 DEF Tick, W!Next
<1>2. CASE UNCHANGED vars
  BY <1>2 DEF vars, windowState, W!vars, W!object, W!locals
<1> QED BY <1>1, <1>2, RequestStep, CommandStep DEF Next

-----------------------------------------------------------------------------
\* What a request is answered from the secrets it holds fits them.
Fits(w, file, a) ==
  IF w.group = "git" THEN FitsGit(w, file, a) ELSE FitsGh(w, file, a)

LEMMA EntryFits ==
  ASSUME NEW file \in Loadable, NEW w \in Wants
  PROVE  EntryFor(w, file) \in Outcomes /\ Fits(w, file, EntryFor(w, file))
<1>1. file \in Files /\ file \in SecretsFiles /\ Loads(file)
  BY BrokerAssumption DEF Loadable
<1>2. DOMAIN file.git \subseteq EntryNumbers /\ DOMAIN file.gh \subseteq EntryNumbers
  BY <1>1 DEF EntryNumbers
<1>3. CASE w \in GitWants
  <2>1. w.group = "git"
    BY <1>3 DEF GitWants
  <2> QED BY <1>1, <1>2, <1>3, <2>1, GitFits DEF EntryFor, Fits, Outcomes
<1>4. CASE w \in GhWants
  <2>1. w.group = "gh"
    BY <1>4 DEF GhWants
  <2> QED BY <1>1, <1>2, <1>4, <2>1, GhFits DEF EntryFor, Fits, Outcomes
<1> QED BY <1>3, <1>4, BrokerAssumption

\* The history of the files that were loaded during each request.
SeenStep ==
  seen' = [c \in Requests |->
    IF handler[c] = "end" \/ handler'[c] = "new" \/ secrets' = None THEN seen[c]
    ELSE seen[c] \cup {secrets'}]

LEMMA SeenNext ==
  ASSUME BrokerInv, SeenStep, secrets' \in Loadable \cup {None}
  PROVE  /\ seen' \in [Requests -> SUBSET Loadable]
         /\ \A c \in Requests :
              /\ seen[c] \subseteq seen'[c]
              /\ handler[c] # "end" /\ handler'[c] # "new" /\ secrets' # None =>
                   secrets' \in seen'[c]
BY DEF BrokerInv, SeenStep

\* What BrokerInv says apart from Windows, whose steps have their own lemma.
ServiceInv ==
  /\ secrets \in Loadable \cup {None}
  /\ handler \in [Requests -> {"new", "read", "using", "locked", "end"}]
  /\ want \in [Requests -> Wants \cup {None}]
  /\ held \in [Requests -> Loadable \cup {None}]
  /\ answer \in [Requests -> Outcomes \cup {None}]
  /\ command \in [Admins -> Commands]
  /\ seen \in [Requests -> SUBSET Loadable]
  /\ \A c \in Requests : Served(c)
  /\ \A a \in Admins : command[a].point = "open" => command[a].group \in Groups

LEMMA InvByParts == BrokerInv <=> W!TypeOK /\ ServiceInv
BY DEF BrokerInv, TypeOK, ServiceInv

\* A step of one request leaves the others what they hold.
LEMMA OthersServed ==
  ASSUME BrokerInv, SeenStep, NEW c \in Requests, UNCHANGED secrets,
         NEW d \in Requests \ {c},
         handler'[d] = handler[d], want'[d] = want[d], held'[d] = held[d],
         answer'[d] = answer[d]
  PROVE  Served(d)'
<1>1. seen[d] \subseteq seen'[d]
  BY SeenNext DEF BrokerInv, TypeOK
<1> QED BY <1>1 DEF BrokerInv, Served, At

LEMMA RequestNext ==
  ASSUME BrokerInv, SeenStep, NEW c \in Requests,
         Receive(c) \/ NotifyLocked(c) \/ Use(c) \/ Answer(c)
  PROVE  ServiceInv'
<1>1. /\ UNCHANGED <<secrets, command>>
      /\ \A d \in Requests \ {c} : /\ handler'[d] = handler[d] /\ want'[d] = want[d]
                                  /\ held'[d] = held[d] /\ answer'[d] = answer[d]
  BY DEF Receive, NotifyLocked, Use, Answer, End, Goto, BrokerInv, TypeOK
<1>2. /\ handler' \in [Requests -> {"new", "read", "using", "locked", "end"}]
      /\ want' \in [Requests -> Wants \cup {None}]
      /\ held' \in [Requests -> Loadable \cup {None}]
  BY DEF Receive, NotifyLocked, Use, Answer, End, Goto, BrokerInv, TypeOK
<1>3. /\ seen' \in [Requests -> SUBSET Loadable] /\ seen[c] \subseteq seen'[c]
      /\ handler[c] # "end" /\ handler'[c] # "new" /\ secrets # None => secrets \in seen'[c]
  BY <1>1, SeenNext DEF BrokerInv, TypeOK
<1>4. Served(c)' /\ answer' \in [Requests -> Outcomes \cup {None}]
  <2>1. CASE Receive(c)
    <3>1. PICK w \in Wants :
            /\ want' = [want EXCEPT ![c] = w]
            /\ \/ ~w.valid /\ End(c, Refused) /\ UNCHANGED held
               \/ /\ Goto(c, "read") /\ held' = [held EXCEPT ![c] = secrets]
                  /\ UNCHANGED answer
      BY <2>1 DEF Receive
    <3>2. handler[c] = "new" /\ want'[c] = w
      BY <2>1, <3>1 DEF Receive, At, BrokerInv, TypeOK
    <3>3. CASE End(c, Refused)
      BY <3>2, <3>3 DEF End, Goto, Outcomes, Served, At, BrokerInv, TypeOK
    <3>4. CASE Goto(c, "read") /\ held' = [held EXCEPT ![c] = secrets] /\ UNCHANGED answer
      BY <1>3, <3>2, <3>4 DEF Goto, Served, At, BrokerInv, TypeOK
    <3> QED BY <3>1, <3>3, <3>4
  <2>2. CASE NotifyLocked(c) \/ Use(c)
    BY <1>3, <2>2 DEF NotifyLocked, Use, Goto, Served, At, BrokerInv, TypeOK
  <2>3. CASE Answer(c)
    <3>1. handler[c] \in {"using", "locked"} /\ want[c] \in Wants /\ want'[c] = want[c]
      BY <2>3 DEF Answer, BrokerInv, Served
    <3>2. PICK outcome \in Outcomes : End(c, outcome)
      <4>1. CASE At(c, "locked") \/ pc[c] = "refused"
        BY <2>3, <4>1 DEF Answer, Outcomes
      <4>2. CASE ~(At(c, "locked") \/ pc[c] = "refused")
        <5>1. held[c] \in Loadable
          BY <3>1, <4>2 DEF At, BrokerInv, TypeOK, Served
        <5> QED BY <2>3, <3>1, <4>2, <5>1, EntryFits DEF Answer
      <4> QED BY <4>1, <4>2
    <3> QED BY <3>1, <3>2 DEF End, Goto, Served, At, BrokerInv, TypeOK
  <2> QED BY <2>1, <2>2, <2>3
<1>5. ASSUME NEW d \in Requests PROVE Served(d)'
  BY <1>1, <1>4, OthersServed
<1> QED BY <1>1, <1>2, <1>3, <1>4, <1>5 DEF ServiceInv, BrokerInv, TypeOK

\* The steps that change no request.
LEMMA CommandNext ==
  ASSUME BrokerInv, SeenStep, UNCHANGED request,
         \/ UNCHANGED <<secrets, command>>
         \/ \E a \in Admins :
              \/ \E file \in Loadable \cup {None} : SetSecrets(a, file)
              \/ CloseGroups(a) \/ OpenGroup(a) \/ \E g \in Groups : Allow(a, g)
  PROVE  ServiceInv'
<1>1. secrets' \in Loadable \cup {None}
  BY DEF SetSecrets, CloseGroups, OpenGroup, Allow, BrokerInv, TypeOK
<1>2. /\ command' \in [Admins -> Commands]
      /\ \A a \in Admins : command'[a].point = "open" => command'[a].group \in Groups
  BY DEF SetSecrets, CloseGroups, OpenGroup, Allow, BrokerInv, TypeOK, Commands, NoCommand
<1>3. ASSUME NEW c \in Requests PROVE Served(c)'
  BY <1>1, <1>3, SeenNext DEF request, BrokerInv, Served, At
<1> QED BY <1>1, <1>2, <1>3, SeenNext DEF ServiceInv, request, BrokerInv, TypeOK

LEMMA BrokerNext == BrokerInv /\ [HNext]_hvars => BrokerInv'
<1> SUFFICES ASSUME BrokerInv, [HNext]_hvars PROVE BrokerInv'
  OBVIOUS
<1>1. W!TypeOK'
  BY WindowsNext, WindowsStep DEF BrokerInv, TypeOK, HNext, hvars
<1>2. ASSUME HNext PROVE ServiceInv'
  <2>1. SeenStep
    BY <1>2 DEF HNext, SeenStep
  <2>2. ASSUME NEW c \in Requests,
               Receive(c) \/ NotifyLocked(c) \/ Use(c) \/ Answer(c)
        PROVE  ServiceInv'
    BY <2>1, <2>2, RequestNext
  <2>3. ASSUME NEW a \in Admins,
               \/ \E file \in Files : Load(a, file)
               \/ Lock(a) \/ CloseGroups(a) \/ OpenGroup(a) \/ \E g \in Groups : Allow(a, g)
        PROVE  ServiceInv'
    <3>1. UNCHANGED request
      BY <2>3 DEF Load, Lock, SetSecrets, CloseGroups, OpenGroup, Allow
    <3>2. \/ \E file \in Loadable \cup {None} : SetSecrets(a, file)
          \/ CloseGroups(a) \/ OpenGroup(a) \/ \E g \in Groups : Allow(a, g)
      BY <2>3 DEF Load, Lock, Loadable
    <3> QED BY <2>1, <3>1, <3>2, CommandNext
  <2>4. CASE UNCHANGED service
    BY <2>1, <2>4, CommandNext DEF service
  <2> QED
    BY <1>2, <2>2, <2>3, <2>4 DEF HNext, Next, Tick, Inside, Revoke, Status, EndCommand
<1>3. ASSUME UNCHANGED hvars PROVE ServiceInv'
  <2>1. ASSUME NEW c \in Requests PROVE Served(c)'
    BY <1>3 DEF hvars, vars, service, request, BrokerInv, Served, At
  <2> QED
    BY <1>3, <2>1 DEF hvars, vars, service, request, BrokerInv, TypeOK, ServiceInv
<1>4. ServiceInv'
  BY <1>2, <1>3
<1> QED BY <1>1, <1>4 DEF BrokerInv, TypeOK, ServiceInv

LEMMA BrokerInit == HInit => BrokerInv
<1> SUFFICES ASSUME HInit PROVE BrokerInv
  OBVIOUS
<1>1. W!TypeOK
  BY BrokerAssumption DEF HInit, Init, W!Init, W!TypeOK, W!Times, W!Keys, W!Points
<1>2. ASSUME NEW c \in Requests PROVE Served(c)
  BY DEF HInit, Init, Served, At
<1>3. ServiceInv
  BY <1>2 DEF HInit, Init, ServiceInv, Commands, NoCommand
<1> QED BY <1>1, <1>3, InvByParts

\* BrokerInv holds in every reachable state: a request keeps the secrets of one file
\* loaded during it from the lock where it reads them to the lock where it uses its
\* group, whatever is loaded or locked meanwhile.  (claude_broker.py _use)
THEOREM Consistency == HSpec => []BrokerInv
<1> QED BY BrokerInit, BrokerNext, PTL DEF HSpec

\* What the groups and the secrets do together is, for Windows, one of its own
\* behaviours: the broker calls it as the class allows, one call of a thread at a
\* time.  (claude_broker.py Broker, access.py Windows)
THEOREM ObjectUsed == HSpec => W!Spec
<1>1. HInit => W!Init
  BY DEF HInit, Init
<1>2. BrokerInv /\ [HNext]_hvars => [W!Next]_(W!vars)
  BY WindowsStep DEF HNext, hvars
<1> QED BY <1>1, <1>2, BrokerInit, BrokerNext, PTL DEF HSpec, W!Spec

-----------------------------------------------------------------------------
\* The groups opened before the last change of the secrets.

\* The only step that ends the closing of the groups closes them all.
LEMMA ClosingEnds ==
  ASSUME BrokerInv, Next, NEW a \in Admins, command[a].point = "closing",
         command'[a].point # "closing"
  PROVE  \A g \in Groups : opened'[g] = None
<1>1. command[a] # NoCommand /\ command' # command
  BY DEF NoCommand
<1>2. PICK b \in Admins :
        \/ \E file \in Files : Load(b, file)
        \/ Lock(b) \/ CloseGroups(b) \/ OpenGroup(b) \/ \E g \in Groups : Allow(b, g)
  BY <1>1 DEF Next, Tick, Receive, NotifyLocked, Use, Answer, Inside, Revoke, Status,
              EndCommand, service
<1>3. CASE b # a
  BY <1>2, <1>3 DEF Load, Lock, SetSecrets, CloseGroups, OpenGroup, Allow, BrokerInv, TypeOK
<1>4. CASE b = a
  <2>1. CloseGroups(a)
    BY <1>1, <1>2, <1>4 DEF Load, Lock, SetSecrets, OpenGroup, Allow, Idle
  <2> QED BY <2>1 DEF CloseGroups, W!CloseAll, W!Close, W!Without
<1> QED BY <1>3, <1>4

LEMMA OlderNext == older \subseteq Groups /\ [HNext]_hvars => (older \subseteq Groups)'
BY DEF HNext, hvars

LEMMA GroupsNext ==
  /\ BrokerInv /\ older \subseteq Groups /\ GroupsFollowSecrets
  /\ [HNext]_hvars
  => GroupsFollowSecrets'
<1> SUFFICES ASSUME BrokerInv, older \subseteq Groups, GroupsFollowSecrets,
                    [HNext]_hvars, older' # {}
             PROVE  \E a \in Admins : command'[a].point = "closing"
  BY DEF GroupsFollowSecrets
<1>1. CASE UNCHANGED hvars
  BY <1>1 DEF hvars, vars, service, GroupsFollowSecrets
<1>2. CASE HNext /\ \E a \in Admins : Changing(a)
  BY <1>2 DEF Changing
<1>3. CASE HNext /\ ~ \E a \in Admins : Changing(a)
  <2>1. older' = {g \in older : opened'[g] # None} \ OpenedNow
    BY <1>3 DEF HNext
  <2>2. PICK g \in older : opened'[g] # None
    BY <2>1
  <2>3. PICK a \in Admins : command[a].point = "closing"
    BY <2>2 DEF GroupsFollowSecrets
  <2>4. g \in Groups
    BY <2>2
  <2> QED BY <1>3, <2>2, <2>3, <2>4, ClosingEnds DEF HNext
<1> QED BY <1>1, <1>2, <1>3

\* No group opened under other secrets gives access to those loaded since, but
\* while their load, or the lock, is closing the groups.  (claude_broker.py load, lock)
THEOREM OldGroups == HSpec => []GroupsFollowSecrets
<1>1. HInit => older \subseteq Groups /\ GroupsFollowSecrets
  BY DEF HInit, GroupsFollowSecrets
<1> QED BY <1>1, BrokerInit, BrokerNext, OlderNext, GroupsNext, PTL DEF HSpec

-----------------------------------------------------------------------------
\* The answers.

\* The answer of one request fits one file loaded during it.
AnswerFits(c) ==
  answer[c] \notin {None, Refused} =>
    \E file \in seen[c] : Loads(file) /\ Fits(want[c], file, answer[c])

\* An answer stays, and so do the request and the files it was found in.
LEMMA AnswersKept ==
  ASSUME BrokerInv, HNext, NEW c \in Requests, AnswerFits(c), answer'[c] = answer[c]
  PROVE  AnswerFits(c)'
<1> SUFFICES ASSUME answer[c] \notin {None, Refused} PROVE AnswerFits(c)'
  BY DEF AnswerFits
<1>1. At(c, "end")
  BY DEF BrokerInv, Served
<1>2. want'[c] = want[c]
  BY <1>1 DEF HNext, Next, Tick, Receive, NotifyLocked, Use, Answer, Inside, Load, Lock,
              SetSecrets, CloseGroups, OpenGroup, Allow, Revoke, Status, EndCommand,
              service, request, At, BrokerInv, TypeOK
<1>3. seen[c] \subseteq seen'[c]
  BY DEF HNext, BrokerInv
<1> QED BY <1>2, <1>3 DEF AnswerFits

\* A step that answers a request: the refusal of Receive, or Answer.
LEMMA AnswersGiven ==
  ASSUME BrokerInv, HNext, NEW c \in Requests, answer'[c] # answer[c]
  PROVE  AnswerFits(c)'
<1>1. Receive(c) \/ Answer(c)
  BY DEF HNext, Next, Tick, Receive, NotifyLocked, Use, Answer, Inside, Load, Lock,
         SetSecrets, CloseGroups, OpenGroup, Allow, Revoke, Status, EndCommand, End,
         service, request, BrokerInv, TypeOK
<1>2. CASE Receive(c)
  <2>1. answer'[c] = Refused
    BY <1>2 DEF Receive, End, BrokerInv, TypeOK
  <2> QED BY <2>1 DEF AnswerFits
<1>3. CASE Answer(c) /\ (At(c, "locked") \/ pc[c] = "refused")
  <2>1. answer'[c] = Refused
    BY <1>3 DEF Answer, End, BrokerInv, TypeOK
  <2> QED BY <2>1 DEF AnswerFits
<1>4. CASE Answer(c) /\ ~(At(c, "locked") \/ pc[c] = "refused")
  <2>1. /\ At(c, "using") /\ want'[c] = want[c]
        /\ answer'[c] = EntryFor(want[c], held[c])
    BY <1>4 DEF Answer, End, At, BrokerInv, TypeOK
  <2>2. want[c] \in Wants /\ held[c] \in Loadable /\ held[c] \in seen[c]
    BY <2>1 DEF At, BrokerInv, TypeOK, Served
  <2>3. held[c] \in seen'[c] /\ Loads(held[c])
    BY <2>2 DEF HNext, BrokerInv, Loadable
  <2>4. Fits(want[c], held[c], EntryFor(want[c], held[c]))
    BY <2>2, EntryFits
  <2> QED BY <2>1, <2>3, <2>4 DEF AnswerFits
<1> QED BY <1>1, <1>2, <1>3, <1>4

LEMMA AnswersNext ==
  BrokerInv /\ AnswersFitOneFile /\ [HNext]_hvars => AnswersFitOneFile'
<1> SUFFICES ASSUME BrokerInv, AnswersFitOneFile, [HNext]_hvars
             PROVE  AnswersFitOneFile'
  OBVIOUS
<1>1. CASE UNCHANGED hvars
  BY <1>1 DEF hvars, vars, service, request, AnswersFitOneFile
<1>2. ASSUME HNext, NEW c \in Requests PROVE AnswerFits(c)'
  <2>1. AnswerFits(c)
    BY DEF AnswersFitOneFile, AnswerFits, Fits
  <2> QED BY <1>2, <2>1, AnswersKept, AnswersGiven
<1>3. ASSUME HNext PROVE AnswersFitOneFile'
  BY <1>2, <1>3 DEF AnswersFitOneFile, AnswerFits, Fits
<1> QED BY <1>1, <1>3

\* Whatever is loaded or locked while a request waits for the locks, and for any
\* entries, its answer is that of one file, loaded during the request: the token of
\* the most precise URL, or of the owner.
\* (claude_broker.py Secrets.parse, git_credential, gh_token, _use)
THEOREM OneFile == HSpec => []AnswersFitOneFile
<1>1. HInit => AnswersFitOneFile
  BY DEF HInit, Init, AnswersFitOneFile
<1> QED BY <1>1, BrokerInit, BrokerNext, AnswersNext, PTL DEF HSpec
=============================================================================
