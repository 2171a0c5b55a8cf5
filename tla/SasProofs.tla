------------------------------ MODULE SasProofs ------------------------------
(***************************************************************************)
(* Theorems about Sas, for any calls, paths and sizes.                     *)
(***************************************************************************)
EXTENDS Sas, TLAPS

\* The initial state is consistent.
LEMMA InitInv == Init => SasInv
<1> SUFFICES ASSUME Init PROVE SasInv
  OBVIOUS
<1> USE SasAssumption DEF SasAssumption, Init
<1>1. TypeOK
  <2>1. Former \in [Parts -> Gets \cup {"before", None}]
    BY DEF Former
  <2>2. content \in [Paths -> [Parts -> Gets \cup {"before", None}]]
    BY <2>1
  <2>3. at \in [Calls -> Places] /\ where \in [Paths -> Leads]
    BY DEF Places, Leads
  <2>4. written \in [Gets -> 0 .. Size]
    OBVIOUS
  <2>5. copies \in [Puts -> SUBSET Handles] /\ handle \in [Calls -> Handles \cup {None}]
    OBVIOUS
  <2>6. answer \in [Calls -> Answers \cup {None}] /\ made \subseteq Puts
    OBVIOUS
  <2> QED BY <2>2, <2>3, <2>4, <2>5, <2>6 DEF TypeOK
<1>2. ASSUME NEW c \in Calls PROVE CallConsistent(c)
  <2>1. at[c] = "new" /\ handle[c] = None /\ answer[c] = None
    OBVIOUS
  <2> QED BY <2>1 DEF CallConsistent, At
<1>3. \A c \in Puts : PutConsistent(c)
  BY DEF PutConsistent, LoggingIn, At, Calls
<1>4. \A g \in Gets : GetConsistent(g)
  BY DEF GetConsistent, Holding, At, Former, Parts, Calls
<1> QED BY <1>1, <1>2, <1>3, <1>4 DEF SasInv, LockoutAvoided

\* The steps about the arguments and the processes hold no file.
LEMMA ProcessSteps ==
  ASSUME SasInv, NEW c \in Calls,
         Begin(c) \/ Connect(c) \/ Run(c) \/ Stop(c) \/ Record(c)
  PROVE  SasInv'
<1> USE SasAssumption DEF SasAssumption, Calls
<1> DEFINE Outside == Places \ {"blocked", "opened", "copying", "writing"}
<1>1. /\ at[c] \in Outside \ {"opening", "end"} /\ UNCHANGED folder
      /\ \E p \in Outside : at' = [at EXCEPT ![c] = p]
      /\ \/ UNCHANGED answer
         \/ /\ at'[c] = "end"
            /\ \E a \in Answers : answer' = [answer EXCEPT ![c] = a]
  BY DEF Begin, Connect, Run, Succeed, Fail, Stop, Record, Goto, End, At, Places, Answers,
         SasInv, TypeOK
<1>2. at \in [Calls -> Places] /\ at' \in [Calls -> Places]
      /\ \A d \in Calls \ {c} : at'[d] = at[d] /\ answer'[d] = answer[d]
  BY <1>1 DEF SasInv, TypeOK, Places
<1>3. TypeOK'
  <2>1. made' \subseteq Puts
    BY DEF Begin, Connect, Run, Succeed, Fail, Stop, Record, SasInv, TypeOK
  <2>2. login_rejected' \in BOOLEAN /\ exposed' \subseteq Calls
    BY DEF Begin, Connect, Run, Stop, Record, login, SasInv, TypeOK
  <2> QED BY <1>1, <1>2, <2>1, <2>2 DEF SasInv, TypeOK, folder, Answers
<1>4. ASSUME NEW d \in Calls PROVE CallConsistent(d)'
  <2>1. d \in Commands => at'[d] \in {"new", "connecting", "running", "hanging", "rejected", "end"}
    BY <1>2 DEF Begin, Connect, Run, Succeed, Fail, Stop, Record, Goto, End, At, SasInv,
                TypeOK, CallConsistent
  <2>2. CASE d = c
    BY <1>1, <1>2, <2>1, <2>2 DEF SasInv, TypeOK, CallConsistent, At, folder, Named
  <2>3. CASE d # c
    BY <1>1, <1>2, <2>3 DEF SasInv, CallConsistent, At, folder, Named
  <2> QED BY <2>2, <2>3
<1>5. ASSUME NEW d \in Puts PROVE PutConsistent(d)'
  <2>1. copies' = copies /\ d \in Calls
    BY <1>1 DEF folder
  <2>2. CASE d = c
    <3>1. (at'[c] = "connecting" \/ LoggingIn(c)' \/ c \in made') =>
            at[c] \in {"connecting", "running", "hanging", "rejected"} \/ c \in made
      BY <1>2, <2>2 DEF Begin, Connect, Run, Succeed, Fail, Stop, Record, Goto, End, At,
                        LoggingIn
    <3> QED
      BY <2>1, <2>2, <3>1 DEF SasInv, PutConsistent, LoggingIn, At
  <2>3. CASE d # c
    <3>1. d \in made' <=> d \in made
      BY <2>3 DEF Begin, Connect, Run, Succeed, Fail, Stop, Record
    <3> QED
      BY <1>2, <2>1, <2>3, <3>1 DEF SasInv, PutConsistent, LoggingIn, At
  <2> QED BY <2>2, <2>3
<1>6. \A g \in Gets : GetConsistent(g)'
  BY <1>1, <1>2, <1>3 DEF SasInv, TypeOK, CallConsistent, GetConsistent, Holding, At, folder
<1>7. LockoutAvoided'
  BY <1>2 DEF Begin, Connect, Run, Succeed, Fail, Stop, Record, Goto, End, At, login,
              SasInv, TypeOK, LockoutAvoided, LoggingIn, Places
<1> QED BY <1>3, <1>4, <1>5, <1>6, <1>7 DEF SasInv

\* The file of c is the only thing the steps below change.
LEMMA Others ==
  ASSUME SasInv, NEW c \in Calls, NEW d \in Calls, d # c,
         CallConsistent(d), at'[d] = at[d], answer'[d] = answer[d], handle'[d] = handle[d],
         \A p \in Paths : where[p] = "file" => where'[p] = "file"
  PROVE  CallConsistent(d)'
BY SasAssumption DEF SasAssumption, CallConsistent, At, Named, Calls, SasInv, TypeOK, Handles

\* The steps below leave the logins and what the puts copied alone.
LEMMA Aside ==
  ASSUME SasInv, UNCHANGED <<login, made, copies>>,
         \A d \in Calls :
           at'[d] \in {"connecting", "running", "hanging", "rejected"} => at'[d] = at[d]
  PROVE  LockoutAvoided' /\ \A d \in Puts : PutConsistent(d)'
BY DEF SasInv, LockoutAvoided, PutConsistent, LoggingIn, At, login, Calls

\* A file is opened.
LEMMA OpenStep ==
  ASSUME SasInv, NEW c \in Calls, Open(c)
  PROVE  SasInv'
<1> USE SasAssumption DEF SasAssumption
<1>1. c \notin Commands /\ handle[c] = None /\ at[c] = "opening"
  BY DEF Open, At, SasInv, CallConsistent
<1>2. PICK p \in Named(c) :
       \/ /\ where[p] \in (IF c \in Gets THEN {"file", "absent"} ELSE {"file"})
          /\ Hold(c, p, "file")
          /\ where' = [where EXCEPT ![p] = "file"]
          /\ content' = IF where[p] = "file" THEN content
                        ELSE [content EXCEPT ![p] = Empty]
          /\ shared' = IF c \in Gets /\ Writers(p) # {}
                       THEN shared \cup Writers(p) \cup {c} ELSE shared
          /\ Goto(c, "opened")
       \/ /\ where[p] = "elsewhere"
          /\ Hold(c, p, "elsewhere")
          /\ Goto(c, "opened")
          /\ UNCHANGED <<where, content, shared>>
       \/ /\ where[p] = "pipe"
          /\ Hold(c, p, "pipe")
          /\ Goto(c, "blocked")
          /\ UNCHANGED <<where, content, shared>>
       \/ /\ End(c, "error") \/ End(c, "failed")
          /\ UNCHANGED <<where, content, handle, shared>>
  BY <1>1 DEF Open, Named, Calls
<1>3. UNCHANGED <<login, made, written, copies>>
  BY DEF Open
<1>4. p \in Paths
  BY <1>2 DEF Named
<1>5. CASE /\ End(c, "error") \/ End(c, "failed")
           /\ UNCHANGED <<where, content, handle, shared>>
  <2>1. TypeOK'
    BY <1>3, <1>5 DEF End, SasInv, TypeOK, login, Answers, Places
  <2>2. ASSUME NEW d \in Calls PROVE CallConsistent(d)'
    BY <1>1, <1>5, Others DEF End, SasInv, TypeOK, CallConsistent, At
  <2>3. LockoutAvoided' /\ \A d \in Puts : PutConsistent(d)'
    BY <1>3, <1>5, Aside DEF End, SasInv, TypeOK
  <2>4. \A g \in Gets : GetConsistent(g)'
    BY <1>1, <1>3, <1>5 DEF End, SasInv, TypeOK, GetConsistent, Holding, At, Calls
  <2> QED BY <2>1, <2>2, <2>3, <2>4 DEF SasInv
<1>6. ASSUME NEW real \in {"elsewhere", "pipe"}, Hold(c, p, real),
             Goto(c, IF real = "pipe" THEN "blocked" ELSE "opened"),
             UNCHANGED <<where, content, shared>>
      PROVE  SasInv'
  <2>1. TypeOK'
    BY <1>3, <1>4, <1>6 DEF Goto, Hold, SasInv, TypeOK, login, Places, Handles, Reals
  <2>2. handle'[c] = [path |-> p, real |-> real] /\ handle'[c] # None
        /\ at'[c] = (IF real = "pipe" THEN "blocked" ELSE "opened") /\ UNCHANGED answer
        /\ \A d \in Calls \ {c} : handle'[d] = handle[d] /\ at'[d] = at[d]
    BY <1>4, <1>6 DEF Goto, Hold, SasInv, TypeOK, Handles, Reals
  <2>3. ASSUME NEW d \in Calls PROVE CallConsistent(d)'
    <3>1. CASE d = c
      <4>1. answer[c] = None
        BY <1>1 DEF SasInv, CallConsistent, At
      <4> QED BY <1>1, <2>2, <3>1, <4>1 DEF CallConsistent, At, Named
    <3>2. CASE d # c
      <4>1. CallConsistent(d)
        BY DEF SasInv
      <4> QED BY <1>6, <2>2, <3>2, <4>1, Others
    <3> QED BY <3>1, <3>2
  <2>4. LockoutAvoided' /\ \A d \in Puts : PutConsistent(d)'
    BY <1>3, <2>2, Aside
  <2>5. ASSUME NEW g \in Gets PROVE GetConsistent(g)'
    BY <1>1, <1>3, <1>6, <2>2 DEF SasInv, GetConsistent, Holding, At, Calls
  <2> QED BY <2>1, <2>3, <2>4, <2>5 DEF SasInv
<1>7. CASE /\ where[p] \in (IF c \in Gets THEN {"file", "absent"} ELSE {"file"})
           /\ Hold(c, p, "file")
           /\ where' = [where EXCEPT ![p] = "file"]
           /\ content' = IF where[p] = "file" THEN content
                         ELSE [content EXCEPT ![p] = Empty]
           /\ shared' = IF c \in Gets /\ Writers(p) # {}
                        THEN shared \cup Writers(p) \cup {c} ELSE shared
           /\ Goto(c, "opened")
  <2>1. handle'[c] = [path |-> p, real |-> "file"] /\ handle'[c] # None
        /\ at'[c] = "opened" /\ UNCHANGED answer
        /\ \A d \in Calls \ {c} : handle'[d] = handle[d] /\ at'[d] = at[d]
    BY <1>4, <1>7 DEF Goto, Hold, SasInv, TypeOK, Handles, Reals
  <2>2. \A q \in Paths : (q # p => where'[q] = where[q]) /\ where'[p] = "file"
    BY <1>4, <1>7 DEF SasInv, TypeOK
  <2>3. shared \subseteq shared' /\ shared' \subseteq Gets
    BY <1>7 DEF Writers, SasInv, TypeOK
  <2>4. \A q \in Paths : content'[q] \in {content[q], Empty}
                         /\ (where[q] = "file" => content'[q] = content[q])
    BY <1>4, <1>7 DEF SasInv, TypeOK
  <2>5. TypeOK'
    <3>1. Empty \in [Parts -> Gets \cup {"before", None}]
      BY DEF Empty
    <3>2. content' \in [Paths -> [Parts -> Gets \cup {"before", None}]]
      BY <1>4, <1>7, <3>1 DEF SasInv, TypeOK
    <3> QED
      BY <1>3, <1>4, <1>7, <2>1, <2>3, <3>2
         DEF Goto, Hold, SasInv, TypeOK, login, Places, Handles, Reals, Leads
  <2>6. ASSUME NEW d \in Calls PROVE CallConsistent(d)'
    <3>1. CASE d = c
      <4>1. answer[c] = None
        BY <1>1 DEF SasInv, CallConsistent, At
      <4> QED BY <1>1, <2>1, <2>2, <3>1, <4>1 DEF CallConsistent, At, Named
    <3>2. CASE d # c
      <4>1. CallConsistent(d)
        BY DEF SasInv
      <4> QED BY <2>1, <2>2, <3>2, <4>1, Others
    <3> QED BY <3>1, <3>2
  <2>7. LockoutAvoided' /\ \A d \in Puts : PutConsistent(d)'
    BY <1>3, <2>1, Aside
  <2>8. ASSUME NEW g \in Gets PROVE GetConsistent(g)'
    <3>1. g \in Calls /\ CallConsistent(g)
      BY DEF Calls, SasInv
    <3>2. ~At(g, "writing")' => written'[g] = 0
      BY <1>1, <1>3, <2>1, <3>1 DEF SasInv, GetConsistent, At
    <3>3. ASSUME At(g, "writing")', Holding(g)', g \notin shared'
          PROVE content'[LocalOf[g]] = [i \in Parts |-> IF i <= written'[g] THEN g ELSE None]
      <4>1. g # c /\ At(g, "writing") /\ Holding(g) /\ g \notin shared
        BY <2>1, <2>3, <3>1, <3>3 DEF At, Holding
      <4>2. where[LocalOf[g]] = "file" /\ LocalOf[g] \in Paths
        BY <3>1, <4>1 DEF CallConsistent, Holding, Named
      <4> QED BY <1>3, <2>4, <4>1, <4>2 DEF SasInv, GetConsistent
    <3>4. ASSUME NEW h \in Gets \ {g}, Holding(g)', Holding(h)', LocalOf[g] = LocalOf[h]
          PROVE g \in shared'
      <4>1. CASE g # c /\ h # c
        BY <2>1, <2>3, <3>1, <3>4, <4>1 DEF SasInv, GetConsistent, Holding, Calls
      <4>2. CASE g = c \/ h = c
        <5>1. PICK e \in {g, h} \ {c} : e # c /\ handle[e] # None /\ handle[e].real = "file"
          BY <2>1, <3>1, <3>4, <4>2 DEF Holding, Calls
        <5>2. handle[e].path = p /\ handle[e] \in Handles
          <6>1. e \in Gets /\ c \in Gets /\ LocalOf[e] = LocalOf[c] /\ e \in Calls
            BY <3>4, <4>2, <5>1 DEF Calls
          <6>2. p = LocalOf[c] /\ Named(e) = {LocalOf[e]}
            BY <1>2, <6>1 DEF Named
          <6>3. handle[e].path \in Named(e) /\ handle[e] \in Handles
            BY <5>1, <6>1 DEF SasInv, TypeOK, CallConsistent
          <6> QED BY <6>1, <6>2, <6>3
        <5>3. e \in Writers(p)
          BY <3>4, <5>1, <5>2 DEF Writers, Handles
        <5> QED BY <1>7, <3>4, <4>2, <5>1, <5>3 DEF Writers
      <4> QED BY <4>1, <4>2
    <3>5. ASSUME NEW q \in Paths, NEW i \in Parts, content'[q][i] = g
          PROVE at'[g] \in {"writing", "end"} /\ answer'[g] # "error"
      <4>1. content[q][i] = g
        BY <2>4, <3>5 DEF Empty
      <4> QED BY <1>1, <2>1, <3>1, <4>1 DEF SasInv, GetConsistent
    <3> QED BY <3>2, <3>3, <3>4, <3>5 DEF GetConsistent
  <2> QED BY <2>5, <2>6, <2>7, <2>8 DEF SasInv
<1> QED BY <1>2, <1>5, <1>6, <1>7

\* The steps that only let a file go.
LEMMA ReleaseSteps ==
  ASSUME SasInv, NEW c \in Calls, Release(c),
         UNCHANGED <<login, made, where, content, copies>>,
         NEW a \in Answers, End(c, a),
         \/ At(c, "opened") /\ a = "error"
         \/ at[c] \in {"copying", "writing"} /\ a \in {"result", "failed"}
  PROVE  SasInv'
<1> USE SasAssumption DEF SasAssumption
<1>1. /\ at'[c] = "end" /\ answer'[c] = a /\ handle'[c] = None
      /\ \A d \in Calls \ {c} : at'[d] = at[d] /\ answer'[d] = answer[d] /\ handle'[d] = handle[d]
  BY DEF End, Release, SasInv, TypeOK
<1>2. /\ \A g \in Gets : written'[g] = IF g = c THEN 0 ELSE written[g]
      /\ shared' = shared \ {c}
  BY DEF Release
<1>3. TypeOK'
  BY DEF End, Release, SasInv, TypeOK, login, Answers, Places
<1>4. ASSUME NEW d \in Calls PROVE CallConsistent(d)'
  BY <1>1, Others DEF SasInv, CallConsistent, At
<1>5. LockoutAvoided' /\ \A d \in Puts : PutConsistent(d)'
  BY <1>1, Aside
<1>6. ASSUME NEW g \in Gets PROVE GetConsistent(g)'
  <2>1. g \in Calls
    BY DEF Calls
  <2>2. ASSUME NEW h \in Gets \ {g}, Holding(g)', Holding(h)', LocalOf[g] = LocalOf[h]
        PROVE g \in shared'
    <3>1. g # c /\ Holding(g) /\ Holding(h) /\ h \in Calls
      BY <1>1, <2>1, <2>2 DEF Holding, Calls
    <3> QED BY <1>2, <2>2, <3>1 DEF SasInv, GetConsistent
  <2>3. ASSUME NEW p \in Paths, NEW i \in Parts, content'[p][i] = g
        PROVE at'[g] \in {"writing", "end"} /\ answer'[g] # "error"
    BY <1>1, <2>1, <2>3 DEF SasInv, GetConsistent, At
  <2>4. ASSUME At(g, "writing")', Holding(g)', g \notin shared'
        PROVE content'[LocalOf[g]] = [i \in Parts |-> IF i <= written'[g] THEN g ELSE None]
    BY <1>1, <1>2, <2>1, <2>4 DEF SasInv, GetConsistent, Holding, At
  <2>5. ~At(g, "writing")' => written'[g] = 0
    BY <1>1, <1>2, <2>1 DEF SasInv, GetConsistent, At
  <2> QED BY <2>2, <2>3, <2>4, <2>5 DEF GetConsistent
<1> QED BY <1>3, <1>4, <1>5, <1>6 DEF SasInv

LEMMA CheckStep ==
  ASSUME SasInv, NEW c \in Calls, Check(c)
  PROVE  SasInv'
<1> USE SasAssumption DEF SasAssumption
<1>1. CASE handle[c].real \in {"elsewhere", "pipe"}
  <2>1. /\ At(c, "opened") /\ End(c, "error") /\ Release(c)
        /\ UNCHANGED <<login, made, where, content, copies>>
    BY <1>1 DEF Check
  <2> QED BY <2>1, ReleaseSteps DEF Answers
<1>2. CASE handle[c].real \notin {"elsewhere", "pipe"}
  <2>1. UNCHANGED <<login, made, answer, folder>> /\ at[c] = "opened"
        /\ at' = [at EXCEPT ![c] = "copying"]
    BY <1>2 DEF Check, Goto, At, folder
  <2>2. at'[c] = "copying" /\ \A d \in Calls \ {c} : at'[d] = at[d]
    BY <2>1 DEF SasInv, TypeOK
  <2>3. TypeOK'
    BY <2>1 DEF SasInv, TypeOK, login, folder, Places
  <2>4. ASSUME NEW d \in Calls PROVE CallConsistent(d)'
    <3>1. handle[c] \in Handles /\ handle[c].real \in {"file", "removed"}
      BY <1>2, <2>1 DEF SasInv, TypeOK, CallConsistent, Handles, Reals
    <3> QED BY <2>1, <2>2, <3>1, Others DEF SasInv, CallConsistent, At, folder, Named
  <2>5. LockoutAvoided' /\ \A d \in Puts : PutConsistent(d)'
    BY <2>1, <2>2, Aside DEF folder
  <2>6. \A g \in Gets : GetConsistent(g)'
    BY <2>1, <2>2 DEF SasInv, GetConsistent, Holding, At, folder, Calls
  <2> QED BY <2>3, <2>4, <2>5, <2>6 DEF SasInv
<1> QED BY <1>1, <1>2

\* The other end of a pipe is opened.
LEMMA OtherEndStep ==
  ASSUME SasInv, NEW c \in Calls, OpenOtherEnd(c)
  PROVE  SasInv'
<1> USE SasAssumption DEF SasAssumption
<1>1. /\ UNCHANGED <<login, made, answer, folder>> /\ at[c] = "blocked"
      /\ at' = [at EXCEPT ![c] = "opened"]
  BY DEF OpenOtherEnd, Goto, At
<1>2. at'[c] = "opened" /\ \A d \in Calls \ {c} : at'[d] = at[d]
  BY <1>1 DEF SasInv, TypeOK
<1>3. TypeOK'
  BY <1>1 DEF SasInv, TypeOK, login, folder, Places
<1>4. ASSUME NEW d \in Calls PROVE CallConsistent(d)'
  BY <1>1, <1>2, Others DEF SasInv, CallConsistent, At, folder, Named
<1>5. LockoutAvoided' /\ \A d \in Puts : PutConsistent(d)'
  BY <1>1, <1>2, Aside DEF folder
<1>6. \A g \in Gets : GetConsistent(g)'
  BY <1>1, <1>2 DEF SasInv, GetConsistent, Holding, At, folder, Calls
<1> QED BY <1>3, <1>4, <1>5, <1>6 DEF SasInv

LEMMA CopyStep ==
  ASSUME SasInv, NEW c \in Calls, CopyFromDrop(c)
  PROVE  SasInv'
<1> USE SasAssumption DEF SasAssumption
<1>1. c \in Puts /\ at[c] = "copying"
  BY DEF CopyFromDrop, At
<1>2. CASE Abort(c)
  BY <1>1, <1>2, ReleaseSteps DEF Abort, Answers
<1>3. CASE /\ copies' = [copies EXCEPT ![c] = @ \cup {handle[c]}]
           /\ Release(c)
           /\ Goto(c, IF {h.path : h \in copies'[c]} = FilesOf[c]
                      THEN "connecting" ELSE "opening")
           /\ UNCHANGED <<login, made, where, content>>
  <2>1. /\ at'[c] \in {"connecting", "opening"} /\ answer' = answer /\ handle'[c] = None
        /\ at'[c] = "connecting" => {h.path : h \in copies'[c]} = FilesOf[c]
        /\ \A d \in Calls \ {c} : at'[d] = at[d] /\ handle'[d] = handle[d]
    BY <1>3 DEF Goto, Release, SasInv, TypeOK
  <2>2. handle[c] \in Handles /\ handle[c].path \in FilesOf[c]
        /\ handle[c].real \in {"file", "removed"}
    <3>1. c \in Calls /\ CallConsistent(c) /\ handle[c] \in Handles \cup {None}
      BY DEF SasInv, TypeOK
    <3> QED BY <1>1, <3>1 DEF CallConsistent, At, Named
  <2>3. copies'[c] = copies[c] \cup {handle[c]}
        /\ \A d \in Puts \ {c} : copies'[d] = copies[d]
    BY <1>1, <1>3 DEF SasInv, TypeOK
  <2>4. shared' = shared /\ \A g \in Gets : written'[g] = written[g]
    BY <1>1, <1>3 DEF Release, SasInv, TypeOK
  <2>5. TypeOK'
    BY <1>1, <1>3, <2>2 DEF Goto, Release, SasInv, TypeOK, login, Places
  <2>6. ASSUME NEW d \in Calls PROVE CallConsistent(d)'
    BY <1>1, <1>3, <2>1, Others DEF SasInv, CallConsistent, At
  <2>7. ASSUME NEW d \in Puts PROVE PutConsistent(d)'
    <3>1. CASE d # c
      <4>1. d \in Calls /\ at'[d] = at[d] /\ copies'[d] = copies[d] /\ made' = made
        BY <1>3, <2>1, <2>3, <3>1 DEF Calls
      <4> QED BY <4>1 DEF SasInv, PutConsistent, LoggingIn, At
    <3>2. CASE d = c
      <4>1. {h.path : h \in copies'[c]} = {h.path : h \in copies[c]} \cup {handle[c].path}
        BY <2>3
      <4>2. /\ {h.path : h \in copies'[c]} \subseteq FilesOf[c]
            /\ \A h \in copies'[c] : h.real \in {"file", "removed"}
        BY <1>1, <2>2, <2>3, <4>1 DEF SasInv, PutConsistent
      <4>3. c \in made' => {h.path : h \in copies'[c]} = FilesOf[c]
        <5>1. c \in made' => {h.path : h \in copies[c]} = FilesOf[c]
          BY <1>1, <1>3 DEF SasInv, PutConsistent
        <5> QED BY <2>2, <4>1, <5>1
      <4>4. ~LoggingIn(c)' /\ (At(c, "connecting")' => {h.path : h \in copies'[c]} = FilesOf[c])
        BY <2>1 DEF LoggingIn, At
      <4> QED BY <3>2, <4>2, <4>3, <4>4 DEF PutConsistent
    <3> QED BY <3>1, <3>2
  <2>8. LockoutAvoided'
    BY <1>3, <2>1 DEF SasInv, LockoutAvoided, LoggingIn, login, At
  <2>9. \A g \in Gets : GetConsistent(g)'
    BY <1>1, <1>3, <2>1, <2>4 DEF SasInv, GetConsistent, Holding, At, Calls
  <2> QED BY <2>5, <2>6, <2>7, <2>8, <2>9 DEF SasInv
<1> QED BY <1>2, <1>3 DEF CopyFromDrop

\* A get changes the file it holds, and nothing else.
LEMMA WriteSteps ==
  ASSUME SasInv, NEW g \in Gets, at[g] \in {"copying", "writing"},
         UNCHANGED <<login, made, answer, where, handle, copies, shared>>,
         at' = [at EXCEPT ![g] = "writing"],
         NEW n \in 0 .. Size, written' = [written EXCEPT ![g] = n],
         NEW parts \in [Parts -> Gets \cup {"before", None}], Set(g, parts),
         \A i \in Parts : parts[i] \in {g, None, content[LocalOf[g]][i]},
         Holding(g) /\ g \notin shared =>
           \A i \in Parts : parts[i] = IF i <= n THEN g ELSE None
  PROVE  SasInv'
<1> USE SasAssumption DEF SasAssumption
<1>1. g \in Calls /\ CallConsistent(g) /\ handle[g] \in Handles /\ handle[g].path = LocalOf[g]
  <2>1. g \in Calls /\ CallConsistent(g) /\ handle[g] \in Handles \cup {None}
    BY DEF Calls, SasInv, TypeOK
  <2> QED BY <2>1 DEF CallConsistent, Named, At
<1>2. at'[g] = "writing" /\ \A d \in Calls \ {g} : at'[d] = at[d]
  BY <1>1 DEF SasInv, TypeOK
<1>3. written'[g] = n /\ \A h \in Gets \ {g} : written'[h] = written[h]
  BY DEF SasInv, TypeOK
<1>4. /\ Holding(g) => content'[LocalOf[g]] = parts
      /\ ~Holding(g) => content' = content
      /\ \A p \in Paths \ {LocalOf[g]} : content'[p] = content[p]
  BY <1>1 DEF Set, Holding, SasInv, TypeOK
<1>5. TypeOK'
  <2>1. content' \in [Paths -> [Parts -> Gets \cup {"before", None}]]
    BY <1>1 DEF Set, SasInv, TypeOK
  <2> QED BY <2>1 DEF SasInv, TypeOK, login, Places
<1>6. ASSUME NEW d \in Calls PROVE CallConsistent(d)'
  <2>1. CASE d = g
    BY <1>1, <1>2, <2>1 DEF CallConsistent, At, Named, Calls
  <2>2. CASE d # g
    BY <1>1, <1>2, <2>2, Others DEF SasInv
  <2> QED BY <2>1, <2>2
<1>7. LockoutAvoided' /\ \A d \in Puts : PutConsistent(d)'
  BY <1>1, <1>2, Aside
<1>8. ASSUME NEW h \in Gets PROVE GetConsistent(h)'
  <2>1. h \in Calls /\ LocalOf[h] \in Paths /\ GetConsistent(h) /\ (Holding(h)' <=> Holding(h))
    BY DEF Calls, SasInv, Holding
  <2>2. ~At(h, "writing")' => written'[h] = 0
    BY <1>2, <1>3, <2>1 DEF GetConsistent, At
  <2>3. ASSUME At(h, "writing")', Holding(h)', h \notin shared'
        PROVE content'[LocalOf[h]] = [i \in Parts |-> IF i <= written'[h] THEN h ELSE None]
    <3>1. CASE h = g
      <4>1. parts = [i \in Parts |-> IF i <= n THEN g ELSE None]
        BY <2>1, <2>3, <3>1
      <4> QED BY <1>3, <1>4, <2>1, <2>3, <3>1, <4>1
    <3>2. CASE h # g
      <4>1. content'[LocalOf[h]] = content[LocalOf[h]]
        BY <1>4, <2>1, <2>3, <3>2 DEF GetConsistent
      <4> QED BY <1>2, <1>3, <2>1, <2>3, <3>2, <4>1 DEF GetConsistent, At
    <3> QED BY <3>1, <3>2
  <2>4. ASSUME NEW e \in Gets \ {h}, Holding(h)', Holding(e)', LocalOf[h] = LocalOf[e]
        PROVE h \in shared'
    BY <2>1, <2>4 DEF GetConsistent, Holding
  <2>5. ASSUME NEW p \in Paths, NEW i \in Parts, content'[p][i] = h
        PROVE at'[h] \in {"writing", "end"} /\ answer'[h] # "error"
    <3>1. h = g \/ content[p][i] = h
      BY <1>4, <2>5
    <3>2. answer[g] # "error"
      BY <1>1 DEF CallConsistent, At
    <3> QED BY <1>2, <2>1, <3>1, <3>2 DEF GetConsistent
  <2> QED BY <2>2, <2>3, <2>4, <2>5 DEF GetConsistent
<1> QED BY <1>5, <1>6, <1>7, <1>8 DEF SasInv

LEMMA TruncateStep ==
  ASSUME SasInv, NEW g \in Gets, Truncate(g)
  PROVE  SasInv'
<1> USE SasAssumption DEF SasAssumption
<1>1. /\ at[g] = "copying" /\ Set(g, Empty) /\ at' = [at EXCEPT ![g] = "writing"]
      /\ UNCHANGED <<login, made, answer, where, handle, copies, shared>>
      /\ written' = written
  BY DEF Truncate, Goto, At
<1>2. written' = [written EXCEPT ![g] = 0]
  BY <1>1 DEF SasInv, TypeOK, GetConsistent, At
<1>3. /\ Empty \in [Parts -> Gets \cup {"before", None}]
      /\ \A i \in Parts : Empty[i] \in {g, None, content[LocalOf[g]][i]}
      /\ \A i \in Parts : Empty[i] = IF i <= 0 THEN g ELSE None
  BY DEF Empty, Parts
<1> HIDE DEF SasAssumption
<1>4. 0 \in 0 .. Size
  BY DEF SasAssumption
<1> QED BY <1>1, <1>2, <1>3, <1>4, WriteSteps

LEMMA WriteStep ==
  ASSUME SasInv, NEW g \in Gets, Write(g)
  PROVE  SasInv'
<1> USE SasAssumption DEF SasAssumption
<1>1. at[g] = "writing" /\ g \in Calls
  BY DEF Write, At, Calls
<1>2. CASE Abort(g)
  <2>1. End(g, "failed") /\ Release(g) /\ UNCHANGED <<login, made, where, content, copies>>
    BY <1>2 DEF Abort
  <2> QED BY <1>1, <2>1, ReleaseSteps DEF Answers
<1>3. CASE /\ written[g] < Size
           /\ written' = [written EXCEPT ![g] = @ + 1]
           /\ Set(g, [content[LocalOf[g]] EXCEPT ![written'[g]] = g])
           /\ UNCHANGED <<login, at, made, answer, where, handle, copies, shared>>
  <2> DEFINE n == written[g] + 1
             parts == [content[LocalOf[g]] EXCEPT ![n] = g]
  <2>1. /\ n \in 0 .. Size /\ n \in Parts
        /\ written' = [written EXCEPT ![g] = n] /\ written'[g] = n
    BY <1>3 DEF SasInv, TypeOK, Parts
  <2>2. Set(g, parts) /\ at' = [at EXCEPT ![g] = "writing"]
    BY <1>1, <1>3, <2>1 DEF SasInv, TypeOK
  <2>3. content[LocalOf[g]] \in [Parts -> Gets \cup {"before", None}]
    BY DEF SasInv, TypeOK
  <2>4. /\ parts \in [Parts -> Gets \cup {"before", None}]
        /\ \A i \in Parts : parts[i] = IF i = n THEN g ELSE content[LocalOf[g]][i]
    BY <2>1, <2>3
  <2>5. Holding(g) /\ g \notin shared =>
          \A i \in Parts : parts[i] = IF i <= n THEN g ELSE None
    <3> SUFFICES ASSUME Holding(g), g \notin shared, NEW i \in Parts
                 PROVE  parts[i] = IF i <= n THEN g ELSE None
      OBVIOUS
    <3>1. content[LocalOf[g]] = [j \in Parts |-> IF j <= written[g] THEN g ELSE None]
      BY <1>1 DEF SasInv, GetConsistent, At
    <3>2. content[LocalOf[g]][i] = IF i <= written[g] THEN g ELSE None
      BY <3>1
    <3>3. written[g] \in 0 .. Size /\ i \in Int
      BY DEF Parts, SasInv, TypeOK
    <3> QED BY <2>4, <3>2, <3>3
  <2>6. \A i \in Parts : parts[i] \in {g, None, content[LocalOf[g]][i]}
    BY <2>4
  <2>7. n \in 0 .. Size /\ written' = [written EXCEPT ![g] = n]
        /\ parts \in [Parts -> Gets \cup {"before", None}]
        /\ at[g] \in {"copying", "writing"}
        /\ UNCHANGED <<login, made, answer, where, handle, copies, shared>>
    BY <1>1, <1>3, <2>1, <2>4
  <2> HIDE DEF n, parts, SasAssumption
  <2> QED BY <2>2, <2>5, <2>6, <2>7, WriteSteps
<1> QED BY <1>2, <1>3 DEF Write

LEMMA FinishStep ==
  ASSUME SasInv, NEW g \in Gets, Finish(g)
  PROVE  SasInv'
<1>1. /\ g \in Calls /\ at[g] = "writing" /\ End(g, "result") /\ Release(g)
      /\ UNCHANGED <<login, made, where, content, copies>>
  BY DEF Finish, At, Calls
<1> QED BY <1>1, ReleaseSteps DEF Answers

\* Something else is put at a path.
LEMMA ReplaceStep ==
  ASSUME SasInv, NEW p \in Paths, Replace(p)
  PROVE  SasInv'
<1> USE SasAssumption DEF SasAssumption
<1>1. /\ UNCHANGED <<login, at, made, answer, written, copies, shared>>
      /\ \A q \in Paths \ {p} : where'[q] = where[q] /\ content'[q] = content[q]
      /\ content'[p] = Former
  BY DEF Replace, SasInv, TypeOK
<1>2. \A c \in Calls : IF handle[c] = [path |-> p, real |-> "file"]
                       THEN handle'[c] = [path |-> p, real |-> "removed"]
                       ELSE handle'[c] = handle[c]
  BY DEF Replace
<1>3. TypeOK'
  <2>1. Former \in [Parts -> Gets \cup {"before", None}]
    BY DEF Former
  <2>2. where' \in [Paths -> Leads] /\ content' \in [Paths -> [Parts -> Gets \cup {"before", None}]]
    BY <2>1 DEF Replace, SasInv, TypeOK
  <2>3. handle' \in [Calls -> Handles \cup {None}]
    BY DEF Replace, SasInv, TypeOK, Handles, Reals
  <2> QED BY <1>1, <2>2, <2>3 DEF SasInv, TypeOK, login
<1>4. ASSUME NEW d \in Calls PROVE CallConsistent(d)'
  <2>1. CallConsistent(d) /\ handle[d] \in Handles \cup {None}
    BY DEF SasInv, TypeOK
  <2>2. CASE handle[d] = [path |-> p, real |-> "file"]
    BY <1>1, <1>2, <2>1, <2>2 DEF CallConsistent, At, Named, Handles, Reals
  <2>3. CASE handle[d] # [path |-> p, real |-> "file"]
    <3>1. handle'[d] = handle[d]
      BY <1>2, <2>3
    <3>2. handle[d] # None /\ handle[d].real = "file" =>
            handle[d].path \in Paths \ {p}
      BY <2>1, <2>3 DEF Handles
    <3> QED BY <1>1, <2>1, <3>1, <3>2 DEF CallConsistent, At, Named
  <2> QED BY <2>2, <2>3
<1>5. LockoutAvoided' /\ \A d \in Puts : PutConsistent(d)'
  BY <1>1, Aside
<1>6. ASSUME NEW g \in Gets PROVE GetConsistent(g)'
  <2>1. g \in Calls /\ GetConsistent(g) /\ LocalOf[g] \in Paths
    BY DEF SasInv, Calls
  <2>2. \A h \in Gets : Holding(h)' => Holding(h) /\ handle[h].path # p
    <3> SUFFICES ASSUME NEW h \in Gets, Holding(h)' PROVE Holding(h) /\ handle[h].path # p
      OBVIOUS
    <3>1. h \in Calls /\ handle[h] \in Handles \cup {None}
      BY DEF Calls, SasInv, TypeOK
    <3>2. handle'[h] = handle[h] /\ handle[h] # [path |-> p, real |-> "file"]
      BY <1>2, <3>1 DEF Holding, Handles, Reals
    <3> QED BY <3>1, <3>2 DEF Holding, Handles
  <2>3. ASSUME At(g, "writing")', Holding(g)', g \notin shared'
        PROVE content'[LocalOf[g]] = [i \in Parts |-> IF i <= written'[g] THEN g ELSE None]
    <3>1. handle[g].path = LocalOf[g]
      BY <2>1, <2>2, <2>3 DEF SasInv, CallConsistent, Holding, Named, Calls
    <3> QED BY <1>1, <2>1, <2>2, <2>3, <3>1 DEF GetConsistent, At
  <2>4. ASSUME NEW q \in Paths, NEW i \in Parts, content'[q][i] = g
        PROVE at'[g] \in {"writing", "end"} /\ answer'[g] # "error"
    BY <1>1, <2>1, <2>4 DEF GetConsistent, Former
  <2> QED BY <1>1, <2>1, <2>2, <2>3, <2>4 DEF GetConsistent, At
<1> QED BY <1>3, <1>4, <1>5, <1>6 DEF SasInv

\* The server restarts.
LEMMA RestartStep ==
  ASSUME SasInv, Restart
  PROVE  SasInv'
<1> USE SasAssumption DEF SasAssumption
<1>1. /\ ~login_rejected' /\ UNCHANGED <<made, answer, where, content, copies>>
      /\ \A c \in Calls : handle'[c] = None /\ at'[c] \in {"new", "end"}
                          /\ (at[c] # "new" => at'[c] = "end")
      /\ \A g \in Gets : written'[g] = 0
  BY DEF Restart
<1>2. TypeOK'
  <2>1. /\ login_rejected' \in BOOLEAN /\ exposed' \subseteq Calls /\ shared' \subseteq Gets
        /\ UNCHANGED <<made, answer, where, content, copies>>
    BY DEF Restart
  <2>2. at' \in [Calls -> Places] /\ handle' \in [Calls -> Handles \cup {None}]
    BY DEF Restart, SasInv, TypeOK, Places
  <2>3. written' \in [Gets -> 0 .. Size]
    BY DEF Restart
  <2> QED BY <2>1, <2>2, <2>3 DEF SasInv, TypeOK
<1>3. ASSUME NEW d \in Calls PROVE CallConsistent(d)'
  BY <1>1 DEF SasInv, CallConsistent, At
<1>4. ASSUME NEW d \in Puts PROVE PutConsistent(d)'
  <2>1. at'[d] \in {"new", "end"}
    BY <1>1 DEF Calls
  <2> QED BY <1>1, <2>1 DEF SasInv, PutConsistent, At, LoggingIn
<1>5. ASSUME NEW g \in Gets PROVE GetConsistent(g)'
  <2>1. g \in Calls /\ at'[g] \in {"new", "end"} /\ handle'[g] = None /\ written'[g] = 0
    BY <1>1 DEF Calls
  <2> QED BY <1>1, <2>1 DEF SasInv, GetConsistent, At, Holding
<1>6. LockoutAvoided'
  BY <1>1 DEF LockoutAvoided
<1> QED BY <1>2, <1>3, <1>4, <1>5, <1>6 DEF SasInv

LEMMA StepInv == SasInv /\ [Next]_vars => SasInv'
<1> SUFFICES ASSUME SasInv, [Next]_vars PROVE SasInv'
  OBVIOUS
<1>1. ASSUME NEW c \in Calls, Step(c) PROVE SasInv'
  <2>1. CASE Begin(c) \/ Connect(c) \/ Run(c) \/ Stop(c) \/ Record(c)
    BY <2>1, ProcessSteps
  <2>2. CASE Open(c)
    BY <2>2, OpenStep
  <2>3. CASE Check(c)
    BY <2>3, CheckStep
  <2>4. CASE CopyFromDrop(c)
    BY <2>4, CopyStep
  <2>5. CASE Truncate(c)
    BY <2>5, TruncateStep DEF Truncate
  <2>6. CASE Write(c) \/ Finish(c)
    <3>1. c \in Gets
      BY <2>6 DEF Write, Finish, SasInv, CallConsistent
    <3> QED BY <2>6, <3>1, WriteStep, FinishStep
  <2> QED BY <1>1, <2>1, <2>2, <2>3, <2>4, <2>5, <2>6 DEF Step
<1>2. ASSUME NEW p \in Paths, Replace(p) PROVE SasInv'
  BY <1>2, ReplaceStep
<1>3. CASE Restart
  BY <1>3, RestartStep
<1>4. ASSUME NEW c \in Calls, OpenOtherEnd(c) PROVE SasInv'
  BY <1>4, OtherEndStep
<1>5. CASE UNCHANGED vars
  <2>1. /\ login_rejected' = login_rejected /\ exposed' = exposed /\ at' = at /\ made' = made
        /\ answer' = answer /\ where' = where /\ content' = content /\ handle' = handle
        /\ written' = written /\ copies' = copies /\ shared' = shared
    BY <1>5 DEF vars, login, folder
  <2>2. TypeOK' /\ LockoutAvoided'
    BY <2>1 DEF SasInv, TypeOK, LockoutAvoided, LoggingIn
  <2>3. \A c \in Calls : CallConsistent(c)'
    BY <2>1 DEF SasInv, CallConsistent, At, Named
  <2>4. \A c \in Puts : PutConsistent(c)'
    BY <2>1 DEF SasInv, PutConsistent, At, LoggingIn
  <2>5. \A g \in Gets : GetConsistent(g)'
    BY <2>1 DEF SasInv, GetConsistent, At, Holding
  <2> QED BY <2>2, <2>3, <2>4, <2>5 DEF SasInv
<1> QED BY <1>1, <1>2, <1>3, <1>4, <1>5 DEF Next

-----------------------------------------------------------------------------
\* The record of a rejected login, the files held, the copies and the parts written agree
\* with the places of the calls (claude_mcp_sas.py put, get, _open_in_drop, _copy_to_drop).
THEOREM Consistency == Spec => []SasInv
<1>1. Init => SasInv
  BY InitInv
<1>2. SasInv /\ [Next]_vars => SasInv'
  BY StepInv
<1> QED BY <1>1, <1>2, PTL DEF Spec

\* After a rejected login is recorded, no other login begins (claude_mcp_sas.py _connect).
THEOREM LockedOut == Spec => []LockoutAvoided
<1>1. SasInv => LockoutAvoided
  BY DEF SasInv
<1> QED BY <1>1, Consistency, PTL

\* A put sends exactly its files, each of the drop folder (claude_mcp_sas.py put).
THEOREM SendsOnly == Spec => []SendsOnlyTheFiles
<1>1. SasInv => SendsOnlyTheFiles
  BY DEF SasInv, PutConsistent, SendsOnlyTheFiles
<1> QED BY <1>1, Consistency, PTL

\* A get answered with a ToolError wrote nothing that remains (claude_mcp_sas.py get).
THEOREM ErrorsLeave == Spec => []ErrorsLeaveFiles
<1>1. SasInv => ErrorsLeaveFiles
  BY DEF SasInv, GetConsistent, ErrorsLeaveFiles
<1> QED BY <1>1, Consistency, PTL

\* A get answered as copied left its whole version of the file (claude_mcp_sas.py get,
\* _copy_to_drop).
THEOREM Whole == Spec => CopiesWhole
<1> DEFINE Copied(g) ==
      (/\ answer[g] = None /\ answer'[g] = "result"
       /\ handle[g].real = "file" /\ g \notin shared)
      => content'[LocalOf[g]] = [i \in Parts |-> IF i <= Size THEN g ELSE None]
<1>1. ASSUME SasInv, [Next]_vars, NEW g \in Gets PROVE Copied(g)
  <2> USE SasAssumption DEF SasAssumption
  <2> SUFFICES ASSUME answer[g] = None, answer'[g] = "result",
                      handle[g].real = "file", g \notin shared
               PROVE  content'[LocalOf[g]] = [i \in Parts |-> IF i <= Size THEN g ELSE None]
    OBVIOUS
  <2>1. g \in Calls /\ g \notin Commands /\ g \notin made /\ answer' # answer
    BY <1>1 DEF Calls, SasInv, TypeOK
  <2>2. PICK c \in Calls : Step(c)
    BY <1>1, <2>1 DEF Next, OpenOtherEnd, Goto, Replace, Restart, vars
  <2>3. \/ answer' = answer
        \/ \E a \in Answers : answer' = [answer EXCEPT ![c] = a]
    BY <2>2 DEF Step, Begin, Connect, Run, Succeed, Fail, Stop, Record, Open, Check,
                CopyFromDrop, Truncate, Write, Finish, Abort, Goto, End, Answers
  <2>4. c = g
    BY <1>1, <2>1, <2>3 DEF SasInv, TypeOK
  <2>5. Finish(g)
    BY <1>1, <2>1, <2>2, <2>4 DEF Step, Begin, Connect, Run, Succeed, Fail, Stop, Record, Open,
                            Check, CopyFromDrop, Truncate, Write, Finish, Abort, Goto, End,
                            SasInv, TypeOK
  <2>6. content' = content /\ at[g] = "writing" /\ written[g] = Size /\ handle[g] # None
    BY <1>1, <2>1, <2>5 DEF Finish, At, SasInv, CallConsistent
  <2> QED BY <1>1, <2>6 DEF SasInv, GetConsistent, At, Holding
<1>2. SasInv /\ [Next]_vars => [\A g \in Gets : Copied(g)]_vars
  BY <1>1
<1> QED BY <1>2, Consistency, PTL DEF Spec, CopiesWhole
=============================================================================
