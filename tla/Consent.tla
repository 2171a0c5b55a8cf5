------------------------------- MODULE Consent -------------------------------
(***************************************************************************)
(* What the gateway promises the person who lets an agent use a tool: a    *)
(* call of a tool runs at most once, and only if its group was open when   *)
(* it was admitted; a write runs only if, after that, the person's last    *)
(* word on it was yes, or, without a word on it, if the person let this    *)
(* agent use this tool of this group until a time not reached yet; and a   *)
(* call that its agent gave up before it was let through never runs.  Once *)
(* a call is let through the person is not asked about it any more.        *)
(***************************************************************************)
EXTENDS Integers

CONSTANTS Requests, KeyOf, None

Keys == {KeyOf[c] : c \in Requests}
Groups == {KeyOf[c].group : c \in Requests}
Kinds == {"other", "denied", "read", "write"}

VARIABLES
  clock,
  open,   \* the open groups
  word,   \* the last word of the person on each write: approved, denied, None
  permit, \* until when a tool may be used, None if it was never let
  call,   \* of each request: none, received, admitted, cleared, through, run, over
  kind,   \* of each request, once it is received
  gone    \* requests given up by their agent

vars == <<clock, open, word, permit, call, kind, gone>>

Init ==
  /\ clock = 0
  /\ open = {}
  /\ word = [c \in Requests |-> None]
  /\ permit = [k \in Keys |-> None]
  /\ call = [c \in Requests |-> "none"]
  /\ kind = [c \in Requests |-> None]
  /\ gone = {}

Goto(c, state) == call' = [call EXCEPT ![c] = state]

Receive(c) ==
  /\ call[c] = "none"
  /\ \E k \in Kinds :
       /\ kind' = [kind EXCEPT ![c] = k]
       /\ Goto(c, CASE k = "denied" -> "over"
                    [] k = "other" -> "through"
                    [] k \in {"read", "write"} -> "received")
  /\ UNCHANGED <<clock, open, word, permit, gone>>

\* The groups are opened, by the person, and closed, by the person or by their time.
ChangeGroups ==
  /\ open' \subseteq Groups
  /\ UNCHANGED <<clock, word, permit, call, kind, gone>>

\* A call of a tool is admitted by its group, whatever groups it finds expired.
Admit(c) ==
  /\ call[c] = "received"
  /\ KeyOf[c].group \in open /\ KeyOf[c].group \in open' /\ open' \subseteq open
  /\ Goto(c, "admitted")
  /\ UNCHANGED <<clock, word, permit, kind, gone>>

\* The person speaks of an admitted write that is not cleared: yes, no, or yes to the tool
\* for a while.
Say(c, answer) ==
  /\ kind[c] = "write" /\ call[c] = "admitted"
  /\ word' = [word EXCEPT ![c] = answer]
  /\ UNCHANGED <<clock, open, call, kind, gone>>
  /\ \/ UNCHANGED permit
     \/ /\ answer = "approved"
        /\ permit'[KeyOf[c]] \in Nat
        /\ permit' = [permit EXCEPT ![KeyOf[c]] = permit'[KeyOf[c]]]

Permitted(k) == permit[k] # None /\ clock < permit[k]

MayRun(c) ==
  \/ kind[c] = "read"
  \/ kind[c] = "write" /\ word[c] = "approved"
  \/ kind[c] = "write" /\ word[c] = None /\ Permitted(KeyOf[c])

Clear(c) ==
  /\ call[c] = "admitted"
  /\ MayRun(c)
  /\ Goto(c, "cleared")
  /\ UNCHANGED <<clock, open, word, permit, kind, gone>>

LetThrough(c) ==
  /\ call[c] = "cleared" /\ c \notin gone
  /\ Goto(c, "through")
  /\ UNCHANGED <<clock, open, word, permit, kind, gone>>

Run(c) ==
  /\ call[c] = "through"
  /\ Goto(c, "run")
  /\ UNCHANGED <<clock, open, word, permit, kind, gone>>

End(c) ==
  /\ call[c] \notin {"none", "over"}
  /\ Goto(c, "over")
  /\ UNCHANGED <<clock, open, word, permit, kind, gone>>

GiveUp(c) ==
  /\ gone' = gone \cup {c}
  /\ UNCHANGED <<clock, open, word, permit, call, kind>>

Pass ==
  /\ clock' > clock
  /\ UNCHANGED <<open, word, permit, call, kind, gone>>

Next ==
  \/ Pass
  \/ ChangeGroups
  \/ \E c \in Requests :
       Receive(c) \/ Admit(c) \/ Clear(c) \/ LetThrough(c) \/ Run(c) \/ End(c) \/ GiveUp(c)
  \/ \E c \in Requests, answer \in {"approved", "denied"} : Say(c, answer)

Spec == Init /\ [][Next]_vars
=============================================================================
