-------------------------------- MODULE Slots --------------------------------
(***************************************************************************)
(* The launches of agents of one profile (_claude_agent of launch.sh):     *)
(* each takes the first free slot through a lock, makes the home of the    *)
(* slot, may start the speech relay, and runs a container named after the  *)
(* slot with that home.  A lock is held by the processes that have its     *)
(* file open, which the children of a launch inherit.  A launch may be     *)
(* killed, which leaves its container running, and Docker may crash, which *)
(* leaves containers stopped.                                              *)
(***************************************************************************)
EXTENDS Integers, FiniteSets

CONSTANTS
  Launches,
  Max,      \* AGENT_MAX_SLOTS
  Relay     \* the process of the speech relay

ASSUME SlotsAssumption == Max \in Nat \ {0} /\ Relay \notin Launches

Slots == 1 .. Max

VARIABLES
  stage,      \* where each launch is
  slot,    \* the slot that each launch tries or took
  holders, \* the processes that hold the lock of each slot
  home,    \* the home of each slot: none, made (empty), or with the state of Claude Code
  agent,   \* the container that each launch created
  relay    \* whether the speech relay runs

slotVars == <<stage, slot, holders, home, agent, relay>>

\* The launches in these places hold the lock of their slot.
Holding == {"taken", "copying", "ready", "removing", "starting", "running"}
Over == {"ended", "refused", "conflict", "killed"}

SlotsTypeOK ==
  /\ stage \in [Launches -> {"new", "trying"} \cup Holding \cup Over]
  /\ slot \in [Launches -> Slots]
  /\ holders \in [Slots -> SUBSET (Launches \cup {Relay})]
  /\ home \in [Slots -> {"none", "made", "filled"}]
  /\ agent \in [Launches -> {"none", "running", "stopped"}]
  /\ relay \in BOOLEAN

SlotsInit ==
  /\ stage = [l \in Launches |-> "new"]
  /\ slot = [l \in Launches |-> 1]
  /\ holders = [n \in Slots |-> {}]
  /\ home \in [Slots -> {"none", "filled"}]
  /\ agent = [l \in Launches |-> "none"]
  /\ relay \in BOOLEAN

AtStage(l, s) == stage[l] = s
ToStage(l, s) == stage' = [stage EXCEPT ![l] = s]
Release(process, n) == [holders EXCEPT ![n] = @ \ {process}]

\* The container of l takes the name, and the home, of the slot n.
Occupies(l, n) == slot[l] = n /\ agent[l] # "none"

-----------------------------------------------------------------------------
\* A launch.

Begin(l) ==
  /\ AtStage(l, "new")
  /\ ToStage(l, "trying")
  /\ UNCHANGED <<slot, holders, home, agent, relay>>

\* Mutant of Try: a free slot isn't locked.
TryUnlocked(l) ==
  /\ AtStage(l, "trying")
  /\ ToStage(l, "taken")
  /\ UNCHANGED <<slot, holders, home, agent, relay>>

\* flock -n on the file of one slot after the other.
Try(l) ==
  /\ AtStage(l, "trying")
  /\ \/ /\ holders[slot[l]] = {}
        /\ holders' = [holders EXCEPT ![slot[l]] = {l}]
        /\ ToStage(l, "taken")
        /\ UNCHANGED slot
     \/ /\ holders[slot[l]] # {}
        /\ UNCHANGED holders
        /\ \/ slot[l] < Max /\ slot' = [slot EXCEPT ![l] = @ + 1] /\ UNCHANGED stage
           \/ slot[l] = Max /\ ToStage(l, "refused") /\ UNCHANGED slot
  /\ UNCHANGED <<home, agent, relay>>

\* _claude_agent_slot_home: a new home is filled from that of slot 1.
MakeHome(l) ==
  /\ AtStage(l, "taken")
  /\ \/ home[slot[l]] # "none" /\ ToStage(l, "ready") /\ UNCHANGED home
     \/ /\ home[slot[l]] = "none"
        /\ home' = [home EXCEPT ![slot[l]] = "made"]
        /\ ToStage(l, IF slot[l] = 1 THEN "ready" ELSE "copying")
  /\ UNCHANGED <<slot, holders, agent, relay>>

Copy(l) ==
  /\ AtStage(l, "copying")
  /\ home' = [home EXCEPT ![slot[l]] = IF home[1] = "filled" THEN "filled" ELSE @]
  /\ ToStage(l, "ready")
  /\ UNCHANGED <<slot, holders, agent, relay>>

\* Mutant of StartRelay: the relay inherits the lock (no 9>&-).
StartRelayInheriting(l) ==
  /\ AtStage(l, "ready")
  /\ ToStage(l, "removing")
  /\ relay' = TRUE
  /\ holders' = IF relay THEN holders
                ELSE [holders EXCEPT ![slot[l]] = @ \cup {Relay}]
  /\ UNCHANGED <<slot, home, agent>>

\* With the speech notifications: a relay that runs already makes the new one end.
StartRelay(l) ==
  /\ AtStage(l, "ready")
  /\ ToStage(l, "removing")
  /\ relay' \in {relay, TRUE}
  /\ UNCHANGED <<slot, holders, home, agent>>

\* Mutant of Remove: nothing is removed.
RemoveNothing(l) ==
  /\ AtStage(l, "removing")
  /\ ToStage(l, "starting")
  /\ UNCHANGED <<slot, holders, home, agent, relay>>

\* docker rm of the name of the slot: a running container stays.
Remove(l) ==
  /\ AtStage(l, "removing")
  /\ ToStage(l, "starting")
  /\ agent' = [k \in Launches |->
       IF Occupies(k, slot[l]) /\ agent[k] = "stopped" THEN "none" ELSE agent[k]]
  /\ UNCHANGED <<slot, holders, home, relay>>

\* Mutant of Run: the container has no name.
RunUnnamed(l) ==
  /\ AtStage(l, "starting")
  /\ agent' = [agent EXCEPT ![l] = "running"]
  /\ ToStage(l, "running")
  /\ UNCHANGED <<slot, holders, home, relay>>

\* docker run, which fails when the name is taken.
Run(l) ==
  /\ AtStage(l, "starting")
  /\ IF \E k \in Launches : Occupies(k, slot[l])
     THEN /\ ToStage(l, "conflict")
          /\ holders' = Release(l, slot[l])
          /\ UNCHANGED agent
     ELSE /\ agent' = [agent EXCEPT ![l] = "running"]
          /\ ToStage(l, "running")
          /\ UNCHANGED holders
  /\ UNCHANGED <<slot, home, relay>>

\* docker run returns: the subshell ends and its lock with it.
EndLaunch(l) ==
  /\ AtStage(l, "running") /\ agent[l] # "running"
  /\ ToStage(l, "ended")
  /\ holders' = Release(l, slot[l])
  /\ UNCHANGED <<slot, home, agent, relay>>

\* A step of the launch fails and ends it: the home, the network of the agents, or
\* docker run for another reason than the name, which leaves no container (--rm).
Fail(l) ==
  /\ stage[l] \in {"taken", "ready", "starting"}
  /\ ToStage(l, "ended")
  /\ holders' = Release(l, slot[l])
  /\ UNCHANGED <<slot, home, agent, relay>>

\* The launch and the docker client are killed, e.g. with their terminal; or the person
\* detaches from the container (docker run -it), which leaves the same state.
Kill(l) ==
  /\ stage[l] \in Holding
  /\ ToStage(l, "killed")
  /\ holders' = Release(l, slot[l])
  /\ UNCHANGED <<slot, home, agent, relay>>

-----------------------------------------------------------------------------
\* The agent writes the state of Claude Code in its home, and ends (--rm).
Onboard(l) ==
  /\ agent[l] = "running"
  /\ home' = [home EXCEPT ![slot[l]] = "filled"]
  /\ UNCHANGED <<stage, slot, holders, agent, relay>>

ExitAgent(l) ==
  /\ agent[l] = "running"
  /\ agent' = [agent EXCEPT ![l] = "none"]
  /\ UNCHANGED <<stage, slot, holders, home, relay>>

\* Docker ends without removing its containers.
Crash ==
  /\ \E l \in Launches : agent[l] = "running"
  /\ agent' = [l \in Launches |-> IF agent[l] = "running" THEN "stopped" ELSE agent[l]]
  /\ UNCHANGED <<stage, slot, holders, home, relay>>

\* claude_notify_speech_stop.
StopRelay ==
  /\ relay
  /\ relay' = FALSE
  /\ holders' = [n \in Slots |-> holders[n] \ {Relay}]
  /\ UNCHANGED <<stage, slot, home, agent>>

Step(l) ==
  \/ Begin(l) \/ Try(l) \/ MakeHome(l) \/ Copy(l) \/ StartRelay(l) \/ Remove(l)
  \/ Run(l) \/ EndLaunch(l)

SlotsNext ==
  \/ \E l \in Launches : Step(l) \/ Fail(l) \/ Kill(l) \/ Onboard(l) \/ ExitAgent(l)
  \/ Crash \/ StopRelay

SlotsSpec == SlotsInit /\ [][SlotsNext]_slotVars

-----------------------------------------------------------------------------
\* The files of a home are "never written by two agents at the same time"
\* (README.md:456): no two containers run with one home, though a killed launch
\* gives the lock of its slot back while its container runs.
OneAgentPerHome ==
  \A k, l \in Launches :
    k # l /\ agent[k] = "running" /\ agent[l] = "running" => slot[k] # slot[l]

\* The lock of a slot is held by its launch, until that ends, and by nothing that
\* outlives it: a slot is in use by one launch at most, and free when it is over,
\* although the speech relay was started from it (launch.sh:99-114, 154).
SlotsHeldByLaunches ==
  /\ \A l \in Launches : stage[l] \in Holding => holders[slot[l]] = {l}
  /\ \A n \in Slots : \A p \in holders[n] :
       p \in Launches /\ stage[p] \in Holding /\ slot[p] = n

\* A launch fails on the name of its container only when a killed, or detached, launch
\* left a container running in that slot: one left stopped, by a crash of Docker, is in
\* nobody's way (launch.sh:192-196).
ConflictOnlyAfterKill ==
  \A l \in Launches : AtStage(l, "conflict") =>
    \E k \in Launches : AtStage(k, "killed") /\ slot[k] = slot[l]

\* A container belongs to a launch that waits for it, that was killed, or that saw
\* it stop; a launch that is about to start its own finds at most the container of
\* a killed launch.
ContainersAccounted ==
  /\ \A l \in Launches :
       /\ agent[l] = "running" => stage[l] \in {"running", "killed"}
       /\ agent[l] = "stopped" => stage[l] \in {"running", "killed", "ended"}
  /\ \A k, l \in Launches :
       AtStage(l, "starting") /\ Occupies(k, slot[l]) => AtStage(k, "killed")

SlotsInv == SlotsTypeOK /\ SlotsHeldByLaunches /\ ContainersAccounted
=============================================================================
