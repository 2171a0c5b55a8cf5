---------------------------- MODULE LaunchProofs ----------------------------
(***************************************************************************)
(* Theorems about launch.sh: Host, for any terminals and servers, then     *)
(* Slots, for any number of launches and of slots.  The two modules share  *)
(* no state.                                                               *)
(*                                                                         *)
(* The invariant SlotsInv is inductive: the lock of a slot tells which     *)
(* launch is at work in it, and the containers are accounted for by the    *)
(* stage of their launch, so a launch that holds the lock and has removed  *)
(* the stopped containers meets only those of killed launches.             *)
(***************************************************************************)
EXTENDS Host, Slots, TLAPS

Places == {"shell"} \cup GatewayPlaces \cup McpPlaces
Watching == {"wait", "clean", "drop"}
AfterNetwork == McpPlaces \ {"stop", "rm", "started?", "network?", "network"}

LEMMA InitInv == Init => NetworksInv
BY HostAssumption DEF HostAssumption, Init, NetworksInv, TypeOK, CommandConsistent, Covered,
     FileAccounted, Containers, Actions, At, McpPlaces

\* Only the terminal t moves.
Moves(t) ==
  /\ at' \in [Terminals -> Places]
  /\ action' \in [Terminals -> Actions]
  /\ server' \in [Terminals -> Servers \cup {None}]
  /\ todo' \in [Terminals -> SUBSET Servers]
  /\ \A u \in Terminals \ {t} :
       at'[u] = at[u] /\ server'[u] = server[u] /\ todo'[u] = todo[u]

LEMMA ContinueMoves ==
  ASSUME NetworksInv, NEW t \in Terminals, NEW p \in Places, Continue(t, p)
  PROVE  Moves(t) /\ at'[t] = p /\ server' = server /\ todo' = todo
BY DEF Continue, Goto, Moves, NetworksInv, TypeOK, Places

LEMMA EndMoves ==
  ASSUME NetworksInv, NEW t \in Terminals, NEW ok \in BOOLEAN, End(t, ok)
  PROVE  /\ Moves(t) /\ at'[t] = "shell" /\ todo'[t] = {}
         /\ disturbed' \subseteq Terminals
         /\ joiner' = IF joiner # t THEN joiner ELSE IF ok THEN "joined" ELSE "failed"
         /\ failed \subseteq failed' /\ failed' \subseteq Servers
         /\ ~ok /\ at[t] \in McpPlaces => server[t] \in failed'
<1>1. Moves(t) /\ at'[t] = "shell" /\ todo'[t] = {} /\ disturbed' \subseteq Terminals
  BY DEF End, Goto, Moves, NetworksInv, TypeOK, Places, Actions
<1>2. at[t] \in McpPlaces => server[t] \in Servers
  BY DEF NetworksInv, CommandConsistent
<1> QED BY <1>1, <1>2 DEF End, NetworksInv, TypeOK

\* What the docker commands of most steps ensure of the gateway and of the servers.
Kept ==
  /\ gateway' \in Containers /\ (gateway' = "running" => gateway = "running")
  /\ joined' \subseteq Servers /\ (gateway' = "running" => joined \subseteq joined')
  /\ networks \subseteq networks' /\ networks' \subseteq Servers
  /\ container' \in [Servers -> Containers]
  /\ phase' \in [Servers -> {"waiting", "fed", "listening"}]
  /\ started' \subseteq started
  /\ \A s \in file' : s \in Servers /\ container'[s] = "running"

\* A command ends.
LEMMA EndStep ==
  ASSUME NetworksInv, NEW t \in Terminals, NEW ok \in BOOLEAN, End(t, ok), Kept, file' = file,
         ok => at[t] \notin Watching,
         ok /\ joiner = t => At(t, "joining") /\ todo[t] = {}
  PROVE  NetworksInv'
<1> USE HostAssumption DEF HostAssumption
<1>1. /\ Moves(t) /\ at'[t] = "shell" /\ todo'[t] = {}
      /\ disturbed' \subseteq Terminals
      /\ joiner' = IF joiner # t THEN joiner ELSE IF ok THEN "joined" ELSE "failed"
      /\ failed \subseteq failed' /\ failed' \subseteq Servers
      /\ ~ok /\ at[t] \in McpPlaces => server[t] \in failed'
  BY EndMoves
<1>2. TypeOK'
  BY <1>1 DEF Kept, Moves, Places, NetworksInv, TypeOK
<1>3. ASSUME NEW s \in Servers, Covered(s) PROVE Covered(s)'
  <2>1. CASE joiner = t
    BY <1>1, <1>3, <2>1 DEF Covered, Kept, At
  <2>2. CASE joiner # t
    BY <1>1, <1>3, <2>2 DEF Covered, Kept, At, Moves
  <2> QED BY <2>1, <2>2
<1>4. ASSUME NEW u \in Terminals PROVE CommandConsistent(u)'
  <2>1. CASE u = t
    BY <1>1, <2>1 DEF CommandConsistent, At, McpPlaces
  <2>2. CASE u # t
    <3>1. at'[u] = at[u] /\ server'[u] = server[u] /\ todo'[u] = todo[u]
          /\ (joiner' = u => joiner = u) /\ CommandConsistent(u)
      BY <1>1, <2>2 DEF Moves, NetworksInv
    <3>2. at[u] \in McpPlaces => server[u] \in Servers
      BY <3>1 DEF CommandConsistent
    <3> QED BY <1>3, <3>1, <3>2 DEF CommandConsistent, Kept, At, McpPlaces
  <2> QED BY <2>1, <2>2
<1>5. \A s \in started' : s \in networks' /\ Covered(s)'
  BY <1>3 DEF Kept, NetworksInv, TypeOK
<1>6. FileAccounted'
  <2> SUFFICES ASSUME NEW s \in file, s \notin failed'
               PROVE  \E u \in Terminals : OnServer(u, s)' /\ at'[u] \in Watching
    BY DEF FileAccounted, Watching
  <2>1. PICK u \in Terminals : OnServer(u, s) /\ at[u] \in Watching
    BY <1>1 DEF NetworksInv, FileAccounted, Watching
  <2>2. u # t
    BY <1>1, <2>1 DEF OnServer
  <2> QED BY <1>1, <2>1, <2>2 DEF Moves, OnServer
<1> QED BY <1>2, <1>4, <1>5, <1>6 DEF NetworksInv, Kept

\* A command goes on, outside the joins of claude_gateway.
LEMMA GoStep ==
  ASSUME NetworksInv, NEW t \in Terminals, NEW p \in Places, Continue(t, p), Kept,
         at[t] \notin Joining, p \notin Joining,
         joiner' = joiner, disturbed' = disturbed, failed' \subseteq Servers,
         p \in McpPlaces => at[t] \in McpPlaces,
         p \in AfterNetwork => server[t] \in networks',
         p \in {"hand", "wait", "clean"} => Covered(server[t]) \/ server[t] \in joined',
         \A s \in file' : \/ s \in file /\ (s \in failed => s \in failed')
                          \/ server[t] = s /\ p = "wait",
         at[t] \in Watching /\ p \notin Watching => server[t] \notin file'
  PROVE  NetworksInv'
<1> USE HostAssumption DEF HostAssumption
<1>1. Moves(t) /\ at'[t] = p /\ server' = server /\ todo' = todo
  BY ContinueMoves
<1>2. TypeOK'
  BY <1>1 DEF Kept, Moves, Places, NetworksInv, TypeOK
<1>3. joiner # t /\ at[t] \in McpPlaces => server[t] \in Servers
  BY DEF NetworksInv, CommandConsistent
<1>4. ASSUME NEW s \in Servers, Covered(s) PROVE Covered(s)'
  BY <1>1, <1>4 DEF Covered, Kept, At, Moves, NetworksInv, CommandConsistent
<1>5. ASSUME NEW u \in Terminals PROVE CommandConsistent(u)'
  <2>1. CASE u = t
    <3>1. p \in McpPlaces => server[t] \in Servers
      BY DEF NetworksInv, CommandConsistent
    <3>2. joiner # t
      BY DEF NetworksInv, CommandConsistent
    <3>3. p \in {"hand", "wait", "clean"} => p \in McpPlaces /\ Covered(server[t])'
      BY <1>1, <1>4, <3>1 DEF Covered, McpPlaces
    <3> QED BY <1>1, <2>1, <3>1, <3>2, <3>3 DEF CommandConsistent, At, AfterNetwork, Joining
  <2>2. CASE u # t
    <3>1. at'[u] = at[u] /\ server'[u] = server[u] /\ todo'[u] = todo[u]
          /\ joiner' = joiner /\ CommandConsistent(u)
      BY <1>1, <2>2 DEF Moves, NetworksInv
    <3>2. at[u] \in McpPlaces => server[u] \in Servers
      BY <3>1 DEF CommandConsistent
    <3> QED BY <1>4, <3>1, <3>2 DEF CommandConsistent, Kept, At, McpPlaces
  <2> QED BY <2>1, <2>2
<1>6. \A s \in started' : s \in networks' /\ Covered(s)'
  BY <1>4 DEF Kept, NetworksInv, TypeOK
<1>7. FileAccounted'
  <2> SUFFICES ASSUME NEW s \in file', s \notin failed'
               PROVE  \E u \in Terminals : OnServer(u, s)' /\ at'[u] \in Watching
    BY DEF FileAccounted, Watching
  <2>1. CASE server[t] = s /\ p = "wait"
    BY <1>1, <2>1 DEF OnServer, McpPlaces, Watching
  <2>2. CASE s \in file /\ s \notin failed
    <3>1. PICK u \in Terminals : OnServer(u, s) /\ at[u] \in Watching
      BY <2>2 DEF NetworksInv, FileAccounted, Watching
    <3>2. CASE u = t
      BY <1>1, <3>1, <3>2 DEF OnServer, McpPlaces, Watching
    <3>3. CASE u # t
      BY <1>1, <3>1, <3>3 DEF Moves, OnServer
    <3> QED BY <3>2, <3>3
  <2> QED BY <2>1, <2>2
<1> QED BY <1>2, <1>5, <1>6, <1>7 DEF NetworksInv, Kept

\* The steps of claude_gateway and claude_gateway_stop, but the joins.
LEMMA GatewaySteps ==
  ASSUME NetworksInv, NEW t \in Terminals,
         BeginGateway(t) \/ StopGateway(t) \/ IsRunning(t) \/ RemoveGateway(t)
           \/ GatewayStop(t) \/ GatewayRm(t)
  PROVE  NetworksInv'
<1>1. Kept /\ file' = file /\ at[t] \notin Joining
  BY DEF BeginGateway, StopGateway, IsRunning, RemoveGateway, GatewayStop, GatewayRm,
         GatewayRemoved, Kept, NetworksInv, TypeOK, Containers, At, Joining, docker, history
<1>2. joiner # t /\ at[t] \notin Watching
  BY <1>1 DEF NetworksInv, CommandConsistent, BeginGateway, StopGateway, IsRunning,
              RemoveGateway, GatewayStop, GatewayRm, At, Watching
<1>3. CASE End(t, TRUE)
  BY <1>1, <1>2, <1>3, EndStep
<1>4. CASE /\ \E p \in GatewayPlaces \ Joining : Continue(t, p)
           /\ UNCHANGED history
  <2>1. PICK p \in GatewayPlaces \ Joining : Continue(t, p)
    BY <1>4
  <2>2. p \in Places /\ p \notin McpPlaces
    BY DEF Places, GatewayPlaces, McpPlaces, Joining
  <2>3. joiner' = joiner /\ disturbed' = disturbed /\ failed' = failed /\ failed' \subseteq Servers
    BY <1>4 DEF history, NetworksInv, TypeOK
  <2> QED BY <1>1, <1>2, <2>1, <2>2, <2>3, GoStep DEF AfterNetwork, McpPlaces
<1> QED
  BY <1>3, <1>4 DEF BeginGateway, StopGateway, IsRunning, RemoveGateway, GatewayStop,
                    GatewayRm, GatewayPlaces, Joining

\* The steps that create the gateway and join it to the networks.
LEMMA JoinSteps ==
  ASSUME NetworksInv, NEW t \in Terminals, Moves(t),
         UNCHANGED <<networks, container, phase, file, started, disturbed, failed>>,
         at[t] \notin McpPlaces, at'[t] \in Joining,
         gateway' \in Containers, joined' \subseteq Servers, joiner' \in {joiner, t},
         at'[t] = "connecting" => server'[t] \in todo'[t],
         \A s \in networks : Covered(s) => Covered(s)'
  PROVE  NetworksInv'
<1> USE HostAssumption DEF HostAssumption
<1>1. TypeOK'
  BY DEF Moves, Places, NetworksInv, TypeOK
<1>2. ASSUME NEW u \in Terminals PROVE CommandConsistent(u)'
  <2>1. CASE u = t
    BY <2>1 DEF CommandConsistent, At, McpPlaces, Joining
  <2>2. CASE u # t
    <3>1. at'[u] = at[u] /\ server'[u] = server[u] /\ todo'[u] = todo[u]
          /\ (joiner' = u => joiner = u) /\ CommandConsistent(u)
      BY <2>2 DEF Moves, NetworksInv
    <3> QED BY <3>1 DEF CommandConsistent, At, McpPlaces
  <2> QED BY <2>1, <2>2
<1>3. FileAccounted'
  <2> SUFFICES ASSUME NEW s \in file, s \notin failed
               PROVE  \E u \in Terminals : OnServer(u, s)' /\ at'[u] \in Watching
    BY DEF FileAccounted, Watching
  <2>1. PICK u \in Terminals : OnServer(u, s) /\ at[u] \in Watching
    BY DEF NetworksInv, FileAccounted, Watching
  <2>2. u # t
    BY <2>1 DEF OnServer
  <2> QED BY <2>1, <2>2 DEF Moves, OnServer
<1> QED BY <1>1, <1>2, <1>3 DEF NetworksInv

LEMMA CreateGatewayStep ==
  ASSUME NetworksInv, NEW t \in Terminals, CreateGateway(t)
  PROVE  NetworksInv'
<1> USE HostAssumption DEF HostAssumption
<1>1. at[t] = "creating" /\ joiner # t
  BY DEF CreateGateway, At, NetworksInv, CommandConsistent, Joining
<1>2. CASE /\ gateway = "none" /\ gateway' = "running" /\ joiner' = t
           /\ Continue(t, "listing")
           /\ UNCHANGED <<started, disturbed, failed>>
  <2>1. Moves(t) /\ at'[t] = "listing"
    BY <1>2, ContinueMoves DEF Places, GatewayPlaces, Joining
  <2>2. UNCHANGED <<networks, container, phase, file, started, disturbed, failed>>
        /\ joined' \subseteq Servers
    BY <1>2 DEF CreateGateway, NetworksInv, TypeOK
  <2>3. \A s \in networks : Covered(s)'
    BY <1>2, <2>1 DEF Covered, At
  <2> QED
    BY <1>1, <1>2, <2>1, <2>2, <2>3, JoinSteps DEF McpPlaces, Joining, Containers
<1>3. CASE /\ gateway' \in IF gateway = "none" THEN {"none", "stopped"} ELSE {gateway}
           /\ End(t, FALSE) /\ UNCHANGED started
  <2>1. Kept /\ file' = file
    BY <1>3 DEF CreateGateway, Kept, NetworksInv, TypeOK, Containers
  <2> QED BY <1>3, <2>1, EndStep
<1> QED BY <1>2, <1>3 DEF CreateGateway

LEMMA ListNetworksStep ==
  ASSUME NetworksInv, NEW t \in Terminals, ListNetworks(t)
  PROVE  NetworksInv'
<1>1. /\ at[t] = "listing" /\ at'[t] = "joining" /\ Moves(t)
      /\ todo'[t] = networks /\ UNCHANGED <<docker, history>>
  BY DEF ListNetworks, Goto, At, Moves, NetworksInv, TypeOK, Places, GatewayPlaces, Joining
<1>2. ASSUME NEW s \in networks, Covered(s) PROVE Covered(s)'
  BY <1>1, <1>2 DEF Covered, At, Moves, docker, history
<1> QED
  BY <1>1, <1>2, JoinSteps DEF McpPlaces, Joining, docker, history, NetworksInv, TypeOK

LEMMA JoinNextStep ==
  ASSUME NetworksInv, NEW t \in Terminals, JoinNext(t)
  PROVE  NetworksInv'
<1>1. at[t] = "joining" /\ UNCHANGED docker
  BY DEF JoinNext, At
<1>2. CASE todo[t] = {} /\ End(t, TRUE) /\ UNCHANGED started
  <2>1. Kept /\ file' = file
    BY <1>1, <1>2 DEF docker, Kept, NetworksInv, TypeOK
  <2> QED BY <1>1, <1>2, <2>1, EndStep DEF Watching, At
<1>3. ASSUME NEW n \in todo[t], n \in joined, todo' = [todo EXCEPT ![t] = @ \ {n}],
             UNCHANGED <<at, action, server, history>>
      PROVE  NetworksInv'
  <2>1. Moves(t) /\ todo'[t] = todo[t] \ {n}
    BY <1>3 DEF Moves, NetworksInv, TypeOK, Places
  <2>2. ASSUME NEW s \in networks, Covered(s) PROVE Covered(s)'
    BY <1>1, <1>3, <2>1, <2>2 DEF Covered, At, Moves, docker, history
  <2> QED BY <1>1, <1>3, <2>1, <2>2, JoinSteps
            DEF McpPlaces, Joining, docker, history, NetworksInv, TypeOK
<1>4. ASSUME NEW n \in todo[t], server' = [server EXCEPT ![t] = n], Goto(t, "connecting"),
             UNCHANGED <<action, todo, history>>
      PROVE  NetworksInv'
  <2>1. n \in Servers
    BY DEF NetworksInv, TypeOK
  <2>2. Moves(t) /\ at'[t] = "connecting" /\ server'[t] = n /\ todo' = todo
    BY <1>4, <2>1 DEF Goto, Moves, NetworksInv, TypeOK, Places, GatewayPlaces, Joining
  <2>3. ASSUME NEW s \in networks, Covered(s) PROVE Covered(s)'
    BY <1>1, <1>4, <2>2, <2>3 DEF Covered, At, Moves, docker, history
  <2> QED BY <1>1, <1>4, <2>2, <2>3, JoinSteps
            DEF McpPlaces, Joining, docker, history, NetworksInv, TypeOK
<1> QED BY <1>2, <1>3, <1>4 DEF JoinNext

LEMMA ConnectStep ==
  ASSUME NetworksInv, NEW t \in Terminals, Connect(t)
  PROVE  NetworksInv'
<1>1. at[t] = "connecting" /\ server[t] \in todo[t] /\ server[t] \in Servers
  BY DEF Connect, At, NetworksInv, TypeOK, CommandConsistent
<1>2. CASE /\ Connects(server[t])
           /\ todo' = [todo EXCEPT ![t] = @ \ {server[t]}]
           /\ Goto(t, "joining")
           /\ UNCHANGED <<action, server, history>>
  <2>1. Moves(t) /\ at'[t] = "joining" /\ todo'[t] = todo[t] \ {server[t]}
    BY <1>2 DEF Goto, Moves, NetworksInv, TypeOK, Places, GatewayPlaces, Joining
  <2>2. /\ joined' = joined \cup {server[t]} /\ gateway' = gateway
        /\ UNCHANGED <<networks, container, phase, file>>
    BY <1>2 DEF Connects
  <2>3. ASSUME NEW s \in networks, Covered(s) PROVE Covered(s)'
    BY <1>1, <1>2, <2>1, <2>2, <2>3 DEF Covered, At, Moves, history
  <2> QED BY <1>1, <1>2, <2>1, <2>2, <2>3, JoinSteps
            DEF McpPlaces, Joining, history, NetworksInv, TypeOK
<1>3. CASE End(t, FALSE) /\ UNCHANGED <<docker, started>>
  <2>1. Kept /\ file' = file
    BY <1>3 DEF docker, Kept, NetworksInv, TypeOK
  <2> QED BY <1>3, <2>1, EndStep
<1> QED BY <1>2, <1>3 DEF Connect

-----------------------------------------------------------------------------
\* A step of claude_mcp ends the command, or goes on.
LEMMA McpEnd ==
  ASSUME NetworksInv, NEW t \in Terminals, at[t] \in McpPlaces, Kept, file' = file,
         End(t, FALSE) \/ (End(t, TRUE) /\ at[t] \notin Watching)
  PROVE  NetworksInv'
<1>1. joiner # t
  BY DEF NetworksInv, CommandConsistent, McpPlaces, Joining
<1> QED BY <1>1, EndStep

LEMMA McpGo ==
  ASSUME NetworksInv, NEW t \in Terminals, NEW p \in McpPlaces, Continue(t, p),
         at[t] \in McpPlaces, Kept,
         joiner' = joiner, disturbed' = disturbed, failed' \subseteq Servers,
         p \in AfterNetwork => at[t] \in AfterNetwork \/ server[t] \in networks',
         p \in {"hand", "wait", "clean"} => \/ at[t] \in {"hand", "wait", "clean"}
                                            \/ gateway # "running"
                                            \/ server[t] \in joined',
         \A s \in file' : \/ s \in file /\ (s \in failed => s \in failed')
                          \/ server[t] = s /\ p = "wait",
         at[t] \in Watching /\ p \notin Watching => server[t] \notin file'
  PROVE  NetworksInv'
<1>1. p \in Places /\ p \notin Joining /\ at[t] \notin Joining
  BY DEF Places, McpPlaces, Joining
<1>2. p \in AfterNetwork => server[t] \in networks'
  BY DEF NetworksInv, CommandConsistent, AfterNetwork, Kept
<1>3. p \in {"hand", "wait", "clean"} => Covered(server[t]) \/ server[t] \in joined'
  BY DEF NetworksInv, CommandConsistent, Covered
<1> QED BY <1>1, <1>2, <1>3, GoStep

\* The steps that change nothing in Docker.
LEMMA ReadGo ==
  ASSUME NetworksInv, NEW t \in Terminals, NEW p \in McpPlaces, Continue(t, p),
         at[t] \in McpPlaces, at[t] \in Watching => p \in Watching,
         UNCHANGED docker, UNCHANGED history,
         p \in AfterNetwork => at[t] \in AfterNetwork \/ server[t] \in networks,
         p \in {"hand", "wait", "clean"} => \/ at[t] \in {"hand", "wait", "clean"}
                                            \/ gateway # "running"
                                            \/ server[t] \in joined
  PROVE  NetworksInv'
<1>1. Kept /\ joiner' = joiner /\ disturbed' = disturbed /\ failed' = failed
      /\ failed' \subseteq Servers /\ file' = file
  BY DEF Kept, docker, history, NetworksInv, TypeOK
<1>2. p \in AfterNetwork => at[t] \in AfterNetwork \/ server[t] \in networks'
  BY DEF docker
<1>3. p \in {"hand", "wait", "clean"} => \/ at[t] \in {"hand", "wait", "clean"}
                                         \/ gateway # "running"
                                         \/ server[t] \in joined'
  BY DEF docker
<1> QED BY <1>1, <1>2, <1>3, McpGo

LEMMA ReadEnd ==
  ASSUME NetworksInv, NEW t \in Terminals, at[t] \in McpPlaces, UNCHANGED <<docker, started>>,
         End(t, FALSE) \/ (End(t, TRUE) /\ at[t] \notin Watching)
  PROVE  NetworksInv'
<1>1. Kept /\ file' = file
  BY DEF docker, Kept, NetworksInv, TypeOK
<1> QED BY <1>1, McpEnd

LEMMA IsStartedStep ==
  ASSUME NetworksInv, NEW t \in Terminals, IsStarted(t)
  PROVE  NetworksInv'
<1>1. at[t] = "started?" /\ at[t] \in McpPlaces /\ at[t] \notin Watching
  BY DEF IsStarted, At, McpPlaces, Watching
<1>2. CASE End(t, FALSE) \/ End(t, TRUE)
  BY <1>1, <1>2, ReadEnd DEF IsStarted
<1>3. CASE Continue(t, "network?") /\ UNCHANGED <<joiner, disturbed, failed>>
  <2>1. UNCHANGED docker /\ UNCHANGED history
    BY <1>3 DEF IsStarted, history
  <2> QED BY <1>1, <1>3, <2>1, ReadGo DEF McpPlaces, AfterNetwork
<1> QED BY <1>2, <1>3 DEF IsStarted

LEMMA HasNetworkStep ==
  ASSUME NetworksInv, NEW t \in Terminals, HasNetwork(t)
  PROVE  NetworksInv'
<1>1. /\ at[t] = "network?" /\ at[t] \in McpPlaces /\ at[t] \notin Watching
      /\ UNCHANGED docker /\ UNCHANGED history
  BY DEF HasNetwork, At, McpPlaces, Watching
<1>2. CASE server[t] \in networks
  <2>1. Continue(t, "clear")
    BY <1>2 DEF HasNetwork
  <2> QED BY <1>1, <1>2, <2>1, ReadGo DEF McpPlaces
<1>3. CASE server[t] \notin networks
  <2>1. Continue(t, "network")
    BY <1>3 DEF HasNetwork
  <2> QED BY <1>1, <2>1, ReadGo DEF McpPlaces, AfterNetwork
<1> QED BY <1>2, <1>3

LEMMA GatewayReadSteps ==
  ASSUME NetworksInv, NEW t \in Terminals, HasGateway(t) \/ IsJoined(t)
  PROVE  NetworksInv'
<1>1. /\ at[t] \in {"gateway?", "joined?"} /\ at[t] \in McpPlaces /\ at[t] \notin Watching
      /\ at[t] \in AfterNetwork /\ UNCHANGED docker /\ UNCHANGED history
  BY DEF HasGateway, IsJoined, At, McpPlaces, Watching, AfterNetwork
<1>2. \/ Continue(t, "joined?") \/ Continue(t, "join")
      \/ Continue(t, "hand") /\ (gateway # "running" \/ server[t] \in joined)
  BY DEF HasGateway, IsJoined
<1>3. CASE Continue(t, "joined?") \/ Continue(t, "join")
  BY <1>1, <1>3, ReadGo DEF McpPlaces
<1>4. CASE Continue(t, "hand") /\ (gateway # "running" \/ server[t] \in joined)
  BY <1>1, <1>4, ReadGo DEF McpPlaces
<1> QED BY <1>2, <1>3, <1>4

LEMMA WaitStep ==
  ASSUME NetworksInv, NEW t \in Terminals, Wait(t)
  PROVE  NetworksInv'
<1>1. at[t] = "wait" /\ at[t] \in McpPlaces /\ at[t] \in AfterNetwork
  BY DEF Wait, At, McpPlaces, AfterNetwork
<1>2. CASE End(t, FALSE)
  <2>1. Kept /\ file' = file
    BY DEF Wait, Kept, docker, NetworksInv, TypeOK
  <2> QED BY <1>1, <1>2, <2>1, EndStep
<1>3. CASE Continue(t, "clean") /\ UNCHANGED <<joiner, disturbed, failed>>
  <2>1. UNCHANGED docker /\ UNCHANGED history
    BY <1>3 DEF Wait, history
  <2> QED BY <1>1, <1>3, <2>1, ReadGo DEF McpPlaces, Watching
<1> QED BY <1>2, <1>3 DEF Wait

-----------------------------------------------------------------------------
\* A container that is stopped, or removed.
LEMMA StoppedKeeps ==
  ASSUME NetworksInv, NEW s \in Servers, Stopped(s)
  PROVE  /\ Kept /\ file' = file \ {s} /\ failed' = failed \ {s}
         /\ failed' \subseteq Servers /\ joiner' = joiner
BY DEF Stopped, Kept, NetworksInv, TypeOK, Containers

LEMMA RemovedKeeps ==
  ASSUME NetworksInv, NEW s \in Servers, Removed(s)
  PROVE  Kept /\ file' = file
BY DEF Removed, Kept, NetworksInv, TypeOK, Containers

LEMMA StopServerStep ==
  ASSUME NetworksInv, NEW t \in Terminals, StopServer(t)
  PROVE  NetworksInv'
<1>1. /\ at[t] = "stop" /\ at[t] \in McpPlaces /\ at[t] \notin Watching
      /\ server[t] \in Servers
  BY DEF StopServer, At, McpPlaces, Watching, NetworksInv, CommandConsistent
<1>2. CASE Stopped(server[t]) /\ Continue(t, "rm") /\ UNCHANGED disturbed
  <2>1. /\ Kept /\ file' = file \ {server[t]} /\ failed' = failed \ {server[t]}
        /\ failed' \subseteq Servers /\ joiner' = joiner
    BY <1>1, <1>2, StoppedKeeps
  <2>2. \A s \in file' : s \in file /\ (s \in failed => s \in failed')
    BY <2>1
  <2> QED BY <1>1, <1>2, <2>1, <2>2, McpGo DEF McpPlaces, AfterNetwork
<1>3. CASE UNCHANGED <<docker, started>> /\ End(t, TRUE)
  BY <1>1, <1>3, ReadEnd
<1>4. CASE /\ UNCHANGED <<docker, started>> /\ Continue(t, "started?")
           /\ UNCHANGED <<joiner, disturbed, failed>>
  <2>1. UNCHANGED docker /\ UNCHANGED history
    BY <1>4 DEF history
  <2> QED BY <1>1, <1>4, <2>1, ReadGo DEF McpPlaces, AfterNetwork
<1> QED BY <1>2, <1>3, <1>4 DEF StopServer

LEMMA RemoveSteps ==
  ASSUME NetworksInv, NEW t \in Terminals, RemoveServer(t) \/ ClearServer(t) \/ DropRm(t)
  PROVE  NetworksInv'
<1>1. /\ at[t] \in {"rm", "clear", "drop rm"} /\ at[t] \in McpPlaces /\ at[t] \notin Watching
      /\ server[t] \in Servers /\ Removed(server[t])
  BY DEF RemoveServer, ClearServer, DropRm, At, McpPlaces, Watching, NetworksInv,
         CommandConsistent
<1>2. Kept /\ file' = file
  BY <1>1, RemovedKeeps
<1>3. CASE End(t, TRUE) \/ End(t, FALSE)
  BY <1>1, <1>2, <1>3, McpEnd
<1>4. CASE /\ UNCHANGED <<joiner, disturbed, failed>>
           /\ \/ Continue(t, "started?")
              \/ at[t] = "clear" /\ Continue(t, "run")
  <2>1. joiner' = joiner /\ disturbed' = disturbed /\ failed' = failed
        /\ failed' \subseteq Servers
    BY <1>4 DEF NetworksInv, TypeOK
  <2>2. CASE Continue(t, "started?")
    BY <1>1, <1>2, <2>1, <2>2, McpGo DEF McpPlaces, AfterNetwork
  <2>3. CASE at[t] = "clear" /\ Continue(t, "run")
    <3>1. at[t] \in AfterNetwork
      BY <2>3 DEF AfterNetwork, McpPlaces
    <3> QED BY <1>1, <1>2, <2>1, <2>3, <3>1, McpGo DEF McpPlaces
  <2> QED BY <1>4, <2>2, <2>3
<1> QED BY <1>3, <1>4 DEF RemoveServer, ClearServer, DropRm, At

LEMMA DropServerStep ==
  ASSUME NetworksInv, NEW t \in Terminals, DropServer(t)
  PROVE  NetworksInv'
<1>1. /\ at[t] = "drop" /\ at[t] \in McpPlaces /\ at[t] \in AfterNetwork
      /\ server[t] \in Servers
  BY DEF DropServer, At, McpPlaces, AfterNetwork, NetworksInv, CommandConsistent
<1>2. /\ Kept /\ file' = file \ {server[t]} /\ failed' = failed \ {server[t]}
      /\ failed' \subseteq Servers /\ joiner' = joiner
  BY <1>1, StoppedKeeps DEF DropServer
<1>3. \A s \in file' : s \in file /\ (s \in failed => s \in failed')
  BY <1>2
<1>4. server[t] \notin file' /\ Continue(t, "drop rm") /\ disturbed' = disturbed
  BY <1>2 DEF DropServer
<1> QED BY <1>1, <1>2, <1>3, <1>4, McpGo DEF McpPlaces

-----------------------------------------------------------------------------
\* The steps that create the network and the container, and join the gateway.
LEMMA CreateSteps ==
  ASSUME NetworksInv, NEW t \in Terminals, CreateNetwork(t) \/ RunServer(t) \/ Join(t)
  PROVE  NetworksInv'
<1>1. /\ at[t] \in {"network", "run", "join"} /\ at[t] \in McpPlaces /\ at[t] \notin Watching
      /\ server[t] \in Servers
  BY DEF CreateNetwork, RunServer, Join, At, McpPlaces, Watching, NetworksInv,
         CommandConsistent
<1>2. Kept /\ file' = file
  <2>1. CASE CreateNetwork(t)
    BY <1>1, <2>1 DEF CreateNetwork, Kept, NetworksInv, TypeOK
  <2>2. CASE RunServer(t)
    <3>1. /\ UNCHANGED <<gateway, joined, networks, phase, file, started>>
          /\ \/ container' = container
             \/ /\ container[server[t]] = "none"
                /\ \E c \in {"running", "stopped"} :
                     container' = [container EXCEPT ![server[t]] = c]
      BY <2>2 DEF RunServer
    <3>2. container' \in [Servers -> Containers]
      BY <1>1, <3>1 DEF NetworksInv, TypeOK, Containers
    <3>3. \A s \in file : container'[s] = "running"
      BY <1>1, <3>1 DEF NetworksInv, TypeOK
    <3> QED BY <3>1, <3>2, <3>3 DEF Kept, NetworksInv, TypeOK
  <2>3. CASE Join(t)
    BY <1>1, <2>3 DEF Join, Connects, docker, Kept, NetworksInv, TypeOK
  <2> QED BY <2>1, <2>2, <2>3
<1>3. CASE End(t, FALSE)
  BY <1>1, <1>2, <1>3, McpEnd
<1>4. CASE /\ UNCHANGED <<joiner, disturbed>> /\ failed' \subseteq failed
           /\ failed \ {server[t]} \subseteq failed'
           /\ file \cap failed \subseteq failed'
           /\ \/ Continue(t, "clear") /\ server[t] \in networks'
              \/ at[t] = "run" /\ Continue(t, "gateway?")
              \/ at[t] = "join" /\ Continue(t, "hand") /\ server[t] \in joined'
  <2>1. /\ joiner' = joiner /\ disturbed' = disturbed /\ failed' \subseteq Servers
        /\ \A s \in file' : s \in file /\ (s \in failed => s \in failed')
    BY <1>2, <1>4 DEF NetworksInv, TypeOK
  <2>2. CASE Continue(t, "clear") /\ server[t] \in networks'
    BY <1>1, <1>2, <2>1, <2>2, McpGo DEF McpPlaces
  <2>3. CASE at[t] = "run" /\ Continue(t, "gateway?")
    <3>1. at[t] \in AfterNetwork
      BY <2>3 DEF AfterNetwork, McpPlaces
    <3> QED BY <1>1, <1>2, <2>1, <2>3, <3>1, McpGo DEF McpPlaces
  <2>4. CASE at[t] = "join" /\ Continue(t, "hand") /\ server[t] \in joined'
    <3>1. at[t] \in AfterNetwork
      BY <2>4 DEF AfterNetwork, McpPlaces
    <3> QED BY <1>1, <1>2, <2>1, <2>4, <3>1, McpGo DEF McpPlaces
  <2> QED BY <1>4, <2>2, <2>3, <2>4
<1>5. CASE CreateNetwork(t)
  <2>1. \/ End(t, FALSE)
        \/ /\ Continue(t, "clear") /\ UNCHANGED <<joiner, disturbed, failed>>
           /\ server[t] \in networks'
    BY <1>5 DEF CreateNetwork
  <2> QED BY <1>3, <1>4, <2>1
<1>6. CASE RunServer(t)
  <2>1. \/ End(t, FALSE)
        \/ /\ Continue(t, "gateway?") /\ UNCHANGED <<joiner, disturbed>>
           /\ failed' = failed \ {server[t]} /\ container[server[t]] = "none"
    BY <1>6 DEF RunServer
  <2>2. container[server[t]] = "none" => server[t] \notin file
    BY DEF NetworksInv
  <2>3. at[t] = "run"
    BY <1>6 DEF RunServer, At
  <2> QED BY <1>3, <1>4, <2>1, <2>2, <2>3
<1>7. CASE Join(t)
  <2>1. \/ End(t, FALSE)
        \/ /\ Continue(t, "hand") /\ UNCHANGED <<joiner, disturbed, failed>>
           /\ server[t] \in joined'
    BY <1>7 DEF Join, Connects
  <2>2. at[t] = "join"
    BY <1>7 DEF Join, At
  <2> QED BY <1>3, <1>4, <2>1, <2>2
<1> QED BY <1>5, <1>6, <1>7

\* The step that hands the secrets over.
LEMMA HandStep ==
  ASSUME NetworksInv, NEW t \in Terminals, Hand(t)
  PROVE  NetworksInv'
<1>1. /\ at[t] = "hand" /\ at[t] \in McpPlaces /\ at[t] \in AfterNetwork
      /\ at[t] \notin Watching /\ server[t] \in Servers
  BY DEF Hand, At, McpPlaces, AfterNetwork, Watching, NetworksInv, CommandConsistent
<1>2. /\ Kept /\ joiner' = joiner /\ disturbed' = disturbed /\ failed' = failed
      /\ failed' \subseteq Servers
  BY <1>1 DEF Hand, Kept, history, NetworksInv, TypeOK
<1>3. CASE file' = file \cup {server[t]} /\ Continue(t, "wait")
  <2>1. \A s \in file' : \/ s \in file /\ (s \in failed => s \in failed')
                         \/ server[t] = s
    BY <1>2, <1>3
  <2> QED BY <1>1, <1>2, <1>3, <2>1, McpGo DEF McpPlaces, Watching
<1>4. CASE Continue(t, "drop") /\ UNCHANGED file
  <2>1. \A s \in file' : s \in file /\ (s \in failed => s \in failed')
    BY <1>2, <1>4
  <2> QED BY <1>1, <1>2, <1>4, <2>1, McpGo DEF McpPlaces
<1> QED BY <1>3, <1>4 DEF Hand

\* The server is announced as started: it is covered, and its file is gone.
LEMMA CleanStep ==
  ASSUME NetworksInv, NEW t \in Terminals, Clean(t)
  PROVE  NetworksInv'
<1> USE HostAssumption DEF HostAssumption
<1>1. /\ at[t] = "clean" /\ at[t] \in McpPlaces /\ at[t] \in AfterNetwork
      /\ server[t] \in Servers /\ server[t] \in networks /\ Covered(server[t])
      /\ joiner # t
  BY DEF Clean, At, McpPlaces, AfterNetwork, NetworksInv, CommandConsistent, Joining
<1>2. UNCHANGED <<gateway, joined, networks, container, phase>>
  BY DEF Clean
<1>3. CASE Continue(t, "drop") /\ UNCHANGED <<file, history>>
  <2>1. UNCHANGED docker /\ UNCHANGED history
    BY <1>2, <1>3 DEF docker
  <2> QED BY <1>1, <1>3, <2>1, ReadGo DEF McpPlaces, Watching
<1>4. CASE /\ file' = file \ {server[t]} /\ started' = started \cup {server[t]}
           /\ End(t, TRUE)
  <2>1. /\ Moves(t) /\ at'[t] = "shell" /\ disturbed' \subseteq Terminals
        /\ joiner' = joiner /\ failed \subseteq failed' /\ failed' \subseteq Servers
    BY <1>1, <1>4, EndMoves
  <2>2. TypeOK'
    BY <1>1, <1>2, <1>4, <2>1 DEF Moves, Places, NetworksInv, TypeOK
  <2>3. ASSUME NEW s \in Servers, Covered(s) PROVE Covered(s)'
    BY <1>1, <1>2, <2>1, <2>3 DEF Covered, At, Moves
  <2>4. ASSUME NEW u \in Terminals PROVE CommandConsistent(u)'
    <3>1. CASE u = t
      BY <1>1, <2>1, <3>1 DEF CommandConsistent, At, McpPlaces
    <3>2. CASE u # t
      <4>1. at'[u] = at[u] /\ server'[u] = server[u] /\ todo'[u] = todo[u]
            /\ CommandConsistent(u)
        BY <2>1, <3>2 DEF Moves, NetworksInv
      <4>2. at[u] \in McpPlaces => server[u] \in Servers
        BY <4>1 DEF CommandConsistent
      <4> QED BY <1>2, <2>1, <2>3, <4>1, <4>2 DEF CommandConsistent, At, McpPlaces
    <3> QED BY <3>1, <3>2
  <2>5. \A s \in started' : s \in networks' /\ Covered(s)'
    BY <1>1, <1>2, <1>4, <2>3 DEF NetworksInv, TypeOK
  <2>6. FileAccounted'
    <3> SUFFICES ASSUME NEW s \in file', s \notin failed'
                 PROVE  \E u \in Terminals : OnServer(u, s)' /\ at'[u] \in Watching
      BY DEF FileAccounted, Watching
    <3>1. s \in file /\ s # server[t] /\ s \notin failed
      BY <1>4, <2>1
    <3>2. PICK u \in Terminals : OnServer(u, s) /\ at[u] \in Watching
      BY <3>1 DEF NetworksInv, FileAccounted, Watching
    <3>3. u # t
      BY <3>1, <3>2 DEF OnServer
    <3> QED BY <2>1, <3>2, <3>3 DEF Moves, OnServer
  <2> QED BY <1>2, <1>4, <2>2, <2>4, <2>5, <2>6 DEF NetworksInv
<1> QED BY <1>3, <1>4 DEF Clean

-----------------------------------------------------------------------------
LEMMA BeginMcpStep ==
  ASSUME NetworksInv, NEW t \in Terminals, NEW s \in Servers, NEW a \in Actions,
         BeginMcp(t, s, a)
  PROVE  NetworksInv'
<1> USE HostAssumption DEF HostAssumption
<1>1. /\ at[t] = "shell" /\ at'[t] \in {"started?", "stop"} /\ Moves(t) /\ server'[t] = s
  BY DEF BeginMcp, At, Goto, Moves, Places, McpPlaces, NetworksInv, TypeOK
<1>2. UNCHANGED docker /\ UNCHANGED <<joiner, started, failed>> /\ todo' = todo
      /\ disturbed' \subseteq Terminals
  BY DEF BeginMcp, NetworksInv, TypeOK
<1>3. TypeOK'
  BY <1>1, <1>2 DEF Moves, Places, NetworksInv, TypeOK, docker
<1>4. ASSUME NEW n \in Servers, Covered(n) PROVE Covered(n)'
  BY <1>1, <1>2, <1>4 DEF Covered, At, Moves, docker
<1>5. ASSUME NEW u \in Terminals PROVE CommandConsistent(u)'
  <2>1. CASE u = t
    <3>1. joiner # t
      BY <1>1 DEF NetworksInv, CommandConsistent, Joining
    <3> QED BY <1>1, <1>2, <2>1, <3>1 DEF CommandConsistent, At, McpPlaces
  <2>2. CASE u # t
    <3>1. at'[u] = at[u] /\ server'[u] = server[u] /\ todo'[u] = todo[u]
          /\ CommandConsistent(u)
      BY <1>1, <2>2 DEF Moves, NetworksInv
    <3>2. at[u] \in McpPlaces => server[u] \in Servers
      BY <3>1 DEF CommandConsistent
    <3> QED BY <1>2, <1>4, <3>1, <3>2 DEF CommandConsistent, At, McpPlaces, docker
  <2> QED BY <2>1, <2>2
<1>6. \A n \in started' : n \in networks' /\ Covered(n)'
  BY <1>2, <1>4 DEF NetworksInv, TypeOK, docker
<1>7. FileAccounted'
  <2> SUFFICES ASSUME NEW n \in file, n \notin failed
               PROVE  \E u \in Terminals : OnServer(u, n)' /\ at'[u] \in Watching
    BY <1>2 DEF FileAccounted, Watching, docker
  <2>1. PICK u \in Terminals : OnServer(u, n) /\ at[u] \in Watching
    BY DEF NetworksInv, FileAccounted, Watching
  <2>2. u # t
    BY <1>1, <2>1 DEF Watching
  <2> QED BY <1>1, <2>1, <2>2 DEF Moves, OnServer
<1> QED BY <1>2, <1>3, <1>5, <1>6, <1>7 DEF NetworksInv, docker

LEMMA InterruptStep ==
  ASSUME NetworksInv, NEW t \in Terminals, Interrupt(t)
  PROVE  NetworksInv'
<1>1. Kept /\ file' = file /\ End(t, FALSE)
  BY DEF Interrupt, docker, Kept, NetworksInv, TypeOK
<1> QED BY <1>1, EndStep

\* The process of a server.
LEMMA ServerSteps ==
  ASSUME NetworksInv, NEW s \in Servers, Feed(s) \/ Listen(s) \/ Exit(s)
  PROVE  NetworksInv'
<1>1. /\ Kept /\ UNCHANGED <<networks, gateway, joined, shell, joiner, disturbed>>
      /\ file' \subseteq file /\ failed' \subseteq failed
      /\ \A n \in file' : n \in failed => n \in failed'
  BY DEF Feed, Listen, Exit, Stopped, Kept, history, NetworksInv, TypeOK, Containers
<1>2. TypeOK'
  BY <1>1 DEF Kept, shell, NetworksInv, TypeOK
<1>3. ASSUME NEW n \in Servers, Covered(n) PROVE Covered(n)'
  BY <1>1, <1>3 DEF Covered, At, shell
<1>4. ASSUME NEW u \in Terminals PROVE CommandConsistent(u)'
  <2>1. CommandConsistent(u) /\ at' = at /\ server' = server /\ todo' = todo
    BY <1>1 DEF NetworksInv, shell
  <2>2. at[u] \in McpPlaces => server[u] \in Servers
    BY <2>1 DEF CommandConsistent
  <2> QED BY <1>1, <1>3, <2>1, <2>2 DEF CommandConsistent, At, McpPlaces
<1>5. \A n \in started' : n \in networks' /\ Covered(n)'
  BY <1>1, <1>3 DEF Kept, NetworksInv, TypeOK
<1>6. FileAccounted'
  BY <1>1 DEF NetworksInv, FileAccounted, OnServer, shell
<1> QED BY <1>1, <1>2, <1>4, <1>5, <1>6 DEF NetworksInv, Kept

LEMMA StepInv == NetworksInv /\ [Next]_vars => NetworksInv'
<1> SUFFICES ASSUME NetworksInv, [Next]_vars PROVE NetworksInv'
  OBVIOUS
<1>1. ASSUME NEW t \in Terminals, GatewayCommand(t) PROVE NetworksInv'
  BY <1>1, GatewaySteps, CreateGatewayStep, ListNetworksStep, JoinNextStep, ConnectStep
     DEF GatewayCommand
<1>2. ASSUME NEW t \in Terminals, McpCommand(t) PROVE NetworksInv'
  BY <1>2, StopServerStep, RemoveSteps, IsStartedStep, HasNetworkStep, CreateSteps,
     GatewayReadSteps, HandStep, WaitStep, CleanStep, DropServerStep DEF McpCommand
<1>3. CASE UNCHANGED vars
  BY <1>3 DEF vars, docker, shell, history, NetworksInv, TypeOK, CommandConsistent, Covered,
              FileAccounted, OnServer, At
<1> QED
  BY <1>1, <1>2, <1>3, GatewaySteps, BeginMcpStep, InterruptStep, ServerSteps DEF Next

-----------------------------------------------------------------------------
\* What every step of the command of t does to the commands and to the servers.

\* It stays on its server until it ends, and disturbs nobody.
Follows(t) ==
  /\ Moves(t)
  /\ at'[t] \in McpPlaces => at[t] \in McpPlaces /\ server'[t] = server[t]
  /\ \/ disturbed' = disturbed
     \/ disturbed' = disturbed \ {t} /\ at'[t] \notin McpPlaces

\* It touches no other server, and a server that it announces runs.
Touches(t) ==
  /\ at[t] \notin McpPlaces => UNCHANGED <<container, phase>>
  /\ \A s \in Servers : s # server[t] => container'[s] = container[s] /\ phase'[s] = phase[s]
  /\ \A s \in started' : container'[s] = "running"
  /\ \A s \in started' \ started : container[s] = "running"

\* It saw its server listening.
Sees(t) ==
  At(t, "clean")' => UNCHANGED <<container, phase>> /\ Listens(server[t])

LEMMA EndFollows ==
  ASSUME NetworksInv, NEW t \in Terminals, NEW ok \in BOOLEAN, End(t, ok)
  PROVE  Follows(t) /\ Sees(t)
BY EndMoves DEF End, Follows, Sees, At, McpPlaces

LEMMA ContinueFollows ==
  ASSUME NetworksInv, NEW t \in Terminals, NEW p \in Places, Continue(t, p),
         p \in McpPlaces => at[t] \in McpPlaces, disturbed' = disturbed,
         p = "clean" => UNCHANGED <<container, phase>> /\ Listens(server[t])
  PROVE  Follows(t) /\ Sees(t)
<1>1. Moves(t) /\ at'[t] = p /\ server' = server
  BY ContinueMoves
<1>2. Follows(t)
  BY <1>1 DEF Follows
<1>3. Sees(t)
  BY <1>1 DEF Sees, At
<1> QED BY <1>2, <1>3

LEMMA GatewayFollows ==
  ASSUME NetworksInv, NEW t \in Terminals, GatewayCommand(t) \/ BeginGateway(t)
  PROVE  Follows(t) /\ Sees(t)
<1>1. CASE \/ ListNetworks(t)
           \/ JoinNext(t) /\ ~End(t, TRUE)
           \/ Connect(t) /\ ~End(t, FALSE)
  <2>1. at'[t] \in Joining /\ disturbed' = disturbed
    BY <1>1 DEF ListNetworks, JoinNext, Connect, Goto, At, Joining, history,
                NetworksInv, TypeOK
  <2>2. \A n \in todo[t] : n \in Servers
    BY DEF NetworksInv, TypeOK
  <2>3. Moves(t)
    BY <1>1, <2>2 DEF ListNetworks, JoinNext, Connect, Connects, Goto, Moves, Places,
                      GatewayPlaces, Joining, NetworksInv, TypeOK
  <2> QED BY <2>1, <2>3 DEF Follows, Sees, At, Joining, McpPlaces
<1>2. CASE End(t, TRUE) \/ End(t, FALSE)
  BY <1>2, EndFollows
<1>3. CASE disturbed' = disturbed /\ \E p \in GatewayPlaces : Continue(t, p)
  BY <1>3, ContinueFollows DEF Places, McpPlaces, GatewayPlaces, Joining
<1> QED
  BY <1>1, <1>2, <1>3 DEF GatewayCommand, BeginGateway, StopGateway, IsRunning,
     RemoveGateway, CreateGateway, GatewayStop, GatewayRm, history, GatewayPlaces, Joining

LEMMA McpFollows ==
  ASSUME NetworksInv, NEW t \in Terminals, McpCommand(t)
  PROVE  Follows(t) /\ Sees(t)
<1>1. at[t] \in McpPlaces
  BY DEF McpCommand, StopServer, RemoveServer, IsStarted, HasNetwork, CreateNetwork,
     ClearServer, RunServer, HasGateway, IsJoined, Join, Hand, Wait, Clean, DropServer,
     DropRm, At, McpPlaces
<1>2. CASE End(t, TRUE) \/ End(t, FALSE)
  BY <1>2, EndFollows
<1>3. CASE /\ disturbed' = disturbed
           /\ \E p \in McpPlaces \ {"clean"} : Continue(t, p)
  BY <1>1, <1>3, ContinueFollows DEF Places
<1>4. CASE /\ UNCHANGED <<docker, disturbed>> /\ Listens(server[t])
           /\ Continue(t, "clean")
  BY <1>1, <1>4, ContinueFollows DEF Places, McpPlaces, docker
<1> QED
  BY <1>2, <1>3, <1>4 DEF McpCommand, StopServer, RemoveServer, IsStarted, HasNetwork,
     CreateNetwork, ClearServer, RunServer, HasGateway, IsJoined, Join, Hand, Wait, Clean,
     DropServer, DropRm, history, McpPlaces

LEMMA GatewayTouches ==
  ASSUME HostInv, NEW t \in Terminals,
         GatewayCommand(t) \/ BeginGateway(t) \/ Interrupt(t)
  PROVE  Touches(t)
<1>1. UNCHANGED <<container, phase, started>>
  BY DEF GatewayCommand, BeginGateway, Interrupt, StopGateway, IsRunning, RemoveGateway,
     CreateGateway, ListNetworks, JoinNext, Connect, Connects, GatewayStop, GatewayRm,
     docker, history
<1> QED BY <1>1 DEF Touches, HostInv, StartedInv

LEMMA McpTouches ==
  ASSUME HostInv, NEW t \in Terminals, McpCommand(t)
  PROVE  Touches(t)
<1>1. at[t] \in McpPlaces /\ server[t] \in Servers
  BY DEF McpCommand, StopServer, RemoveServer, IsStarted, HasNetwork, CreateNetwork,
     ClearServer, RunServer, HasGateway, IsJoined, Join, Hand, Wait, Clean, DropServer,
     DropRm, At, McpPlaces, HostInv, NetworksInv, CommandConsistent
<1>2. /\ container \in [Servers -> Containers] /\ started \subseteq Servers
      /\ phase \in [Servers -> {"waiting", "fed", "listening"}]
      /\ \A s \in started : container[s] = "running"
  BY DEF HostInv, NetworksInv, TypeOK, StartedInv
<1>3. CASE Stopped(server[t])
  BY <1>1, <1>2, <1>3 DEF Stopped, Touches
<1>4. CASE Removed(server[t])
  BY <1>1, <1>2, <1>4 DEF Removed, Touches
<1>5. CASE UNCHANGED <<container, phase, started>>
  BY <1>1, <1>2, <1>5 DEF Touches
<1>6. CASE RunServer(t)
  <2>1. /\ UNCHANGED <<phase, started>>
        /\ \/ container' = container
           \/ /\ container[server[t]] = "none"
              /\ \E c \in {"running", "stopped"} :
                   container' = [container EXCEPT ![server[t]] = c]
    BY <1>6 DEF RunServer
  <2> QED BY <1>1, <1>2, <2>1 DEF Touches
<1>7. CASE Clean(t)
  BY <1>1, <1>2, <1>7 DEF Clean, history, Touches
<1> QED
  BY <1>3, <1>4, <1>5, <1>6, <1>7 DEF McpCommand, StopServer, RemoveServer, IsStarted,
     HasNetwork, CreateNetwork, ClearServer, HasGateway, IsJoined, Join, Connects, Hand,
     Wait, DropServer, DropRm, docker, history

\* A step of one command keeps what an undisturbed one knows of its server.
LEMMA CommandStarted ==
  ASSUME HostInv, NEW t \in Terminals, Follows(t), Touches(t), Sees(t)
  PROVE  StartedInv'
<1>1. ASSUME NEW u \in Terminals, u \notin disturbed', at'[u] \in McpPlaces
      PROVE  /\ u \notin disturbed /\ at[u] \in McpPlaces /\ server'[u] = server[u]
             /\ server[u] \in Servers
             /\ \A v \in Terminals \ {u} : ~OnServer(v, server[u])
  <2>1. u \notin disturbed /\ at[u] \in McpPlaces /\ server'[u] = server[u]
    BY <1>1 DEF Follows, Moves
  <2> QED BY <2>1 DEF HostInv, NetworksInv, CommandConsistent, StartedInv
<1>2. ASSUME NEW u \in Terminals, u \notin disturbed', at'[u] \in McpPlaces,
             NEW v \in Terminals \ {u}
      PROVE  ~OnServer(v, server[u])'
  BY <1>1, <1>2 DEF Follows, Moves, OnServer
<1>3. ASSUME NEW u \in Terminals, u \notin disturbed', at'[u] = "clean",
             container'[server'[u]] = "running"
      PROVE  phase'[server'[u]] = "listening"
  <2>1. at'[u] \in McpPlaces
    BY <1>3 DEF McpPlaces
  <2>2. CASE u = t
    BY <1>1, <1>3, <2>1, <2>2 DEF Sees, At, Listens
  <2>3. CASE u # t
    <3>1. at[u] = "clean"
      BY <1>3, <2>3 DEF Follows, Moves
    <3>2. /\ container'[server[u]] = container[server[u]]
          /\ phase'[server[u]] = phase[server[u]]
      BY <1>1, <1>3, <2>1, <2>3 DEF Touches, OnServer
    <3> QED BY <1>1, <1>3, <2>1, <3>1, <3>2 DEF HostInv, StartedInv, At
  <2> QED BY <2>2, <2>3
<1> QED BY <1>2, <1>3 DEF StartedInv, Touches, At

\* A command that begins on the server of another one disturbs it, and is disturbed.
LEMMA BeginStarted ==
  ASSUME HostInv, NEW t \in Terminals, NEW s \in Servers, NEW a \in Actions,
         BeginMcp(t, s, a)
  PROVE  StartedInv'
<1>1. /\ at'[t] \in {"started?", "stop"} /\ Moves(t) /\ server'[t] = s
      /\ UNCHANGED <<container, phase, started>>
  BY DEF BeginMcp, docker, At, Goto, Moves, Places, McpPlaces, HostInv, NetworksInv, TypeOK
<1>2. disturbed \ {t} \subseteq disturbed'
  BY DEF BeginMcp
<1>3. ASSUME NEW u \in Terminals \ {t}, OnServer(u, s)
      PROVE  u \in disturbed' /\ t \in disturbed'
  BY <1>3 DEF BeginMcp
<1>4. ASSUME NEW u \in Terminals, u \notin disturbed', at'[u] \in McpPlaces,
             NEW v \in Terminals \ {u}
      PROVE  ~OnServer(v, server[u])'
  <2>1. CASE u = t
    BY <1>1, <1>3, <1>4, <2>1 DEF Moves, OnServer
  <2>2. CASE v = t
    BY <1>1, <1>3, <1>4, <2>2 DEF Moves, OnServer
  <2>3. CASE u # t /\ v # t
    BY <1>1, <1>2, <1>4, <2>3 DEF Moves, OnServer, HostInv, StartedInv
  <2> QED BY <2>1, <2>2, <2>3
<1>5. ASSUME NEW u \in Terminals, u \notin disturbed', at'[u] = "clean",
             container[server'[u]] = "running"
      PROVE  phase[server'[u]] = "listening"
  <2>1. u # t
    BY <1>1, <1>5
  <2> QED BY <1>1, <1>2, <1>5, <2>1 DEF Moves, McpPlaces, HostInv, StartedInv, At
<1> QED BY <1>1, <1>4, <1>5 DEF HostInv, StartedInv, At

LEMMA ServerStarted ==
  ASSUME HostInv, NEW s \in Servers, Feed(s) \/ Listen(s) \/ Exit(s)
  PROVE  StartedInv'
<1>1. /\ UNCHANGED <<shell, disturbed>> /\ started' \subseteq started
      /\ \A n \in Servers : \/ container'[n] = container[n]
                            \/ n = s /\ container'[n] = "stopped" /\ s \notin started'
      /\ \A n \in Servers : container'[n] = "running" /\ phase[n] = "listening" =>
           phase'[n] = "listening"
  <2>1. CASE Feed(s) \/ Listen(s)
    BY <2>1 DEF Feed, Listen, history, HostInv, NetworksInv, TypeOK
  <2>2. CASE Exit(s)
    BY <2>2 DEF Exit, Stopped, HostInv, NetworksInv, TypeOK
  <2> QED BY <2>1, <2>2
<1>2. /\ \A u \in Terminals : at[u] \in McpPlaces => server[u] \in Servers
      /\ started \subseteq Servers
  BY DEF HostInv, NetworksInv, CommandConsistent, TypeOK
<1>3. \A n \in started' : container'[n] = "running"
  BY <1>1, <1>2 DEF HostInv, StartedInv
<1>4. ASSUME NEW u \in Terminals \ disturbed', at'[u] \in McpPlaces
      PROVE  /\ \A v \in Terminals \ {u} : ~OnServer(v, server[u])'
             /\ at'[u] = "clean" /\ container'[server'[u]] = "running" =>
                  phase'[server'[u]] = "listening"
  <2>1. at' = at /\ server' = server /\ disturbed' = disturbed
    BY <1>1 DEF shell
  <2>2. server[u] \in Servers
    BY <1>2, <1>4, <2>1
  <2>3. \A v \in Terminals \ {u} : ~OnServer(v, server[u])'
    BY <1>4, <2>1 DEF HostInv, StartedInv, OnServer
  <2>4. CASE at[u] = "clean" /\ container'[server[u]] = "running"
    <3>1. container[server[u]] = "running"
      BY <1>1, <2>2, <2>4
    <3>2. phase[server[u]] = "listening"
      BY <1>4, <2>1, <2>4, <3>1 DEF HostInv, StartedInv, At
    <3> QED BY <1>1, <2>1, <2>2, <2>3, <2>4, <3>2
  <2> QED BY <2>1, <2>3, <2>4
<1> QED BY <1>3, <1>4 DEF StartedInv, At

LEMMA StartedStep ==
  ASSUME HostInv, [Next]_vars
  PROVE  StartedInv'
<1>1. ASSUME NEW t \in Terminals,
             BeginGateway(t) \/ GatewayCommand(t) \/ McpCommand(t) \/ Interrupt(t)
      PROVE  StartedInv'
  <2>1. Follows(t) /\ Sees(t)
    BY <1>1, GatewayFollows, McpFollows, EndFollows DEF Interrupt, HostInv
  <2>2. Touches(t)
    BY <1>1, GatewayTouches, McpTouches
  <2> QED BY <2>1, <2>2, CommandStarted
<1>2. CASE UNCHANGED vars
  BY <1>2 DEF vars, docker, shell, history, HostInv, StartedInv, OnServer, At
<1> QED BY <1>1, <1>2, BeginStarted, ServerStarted DEF Next

-----------------------------------------------------------------------------
\* The networks, the files and the announcements always agree with the places of the
\* commands, however the commands of the terminals interleave, fail or are interrupted.
\* (launch.sh claude_gateway, claude_mcp)
THEOREM Consistency == Spec => []HostInv
<1>1. Init => HostInv
  BY InitInv DEF Init, HostInv, StartedInv, At, McpPlaces
<1>2. HostInv /\ [Next]_vars => HostInv'
  BY StepInv, StartedStep DEF HostInv
<1> QED BY <1>1, <1>2, PTL DEF Spec

\* A running gateway that was joined to the networks reaches every server announced as
\* started, for any number of terminals and servers.
\* (launch.sh claude_gateway, claude_mcp, _claude_gateway_join)
THEOREM Reach == Spec => []Reachable
<1>1. HostInv => Reachable
  BY HostAssumption DEF HostAssumption, HostInv, NetworksInv, Reachable, Covered
<1> QED BY <1>1, Consistency, PTL

\* The file of settings of a server is only there while a command watches it, or after
\* one that failed on it.  (launch.sh claude_mcp, _claude_mcp_wait)
THEOREM Files == Spec => []FileAccounted
<1>1. HostInv => FileAccounted
  BY DEF HostInv, NetworksInv
<1> QED BY <1>1, Consistency, PTL

\* A server announced as started listens, unless another command acted on it meanwhile:
\* what the command saw still holds when it has removed the file of settings.
\* (launch.sh claude_mcp, _claude_mcp_wait)
THEOREM Listening == Spec => StartedListens
<1>1. ASSUME HostInv, [Next]_vars, NEW t \in Terminals, At(t, "clean"), t \notin disturbed,
             server[t] \in started'
      PROVE  Listens(server[t])
  <2>1. container[server[t]] = "running"
    <3>1. \A s \in started' \ started : container[s] = "running"
      <4>1. ASSUME NEW u \in Terminals, GatewayCommand(u) \/ BeginGateway(u)
                     \/ Interrupt(u) \/ McpCommand(u)
            PROVE  \A s \in started' \ started : container[s] = "running"
        BY <1>1, <4>1, GatewayTouches, McpTouches DEF Touches
      <4>2. ASSUME NEW u \in Terminals, NEW s \in Servers, NEW a \in Actions,
                   BeginMcp(u, s, a)
            PROVE  started' = started
        BY <4>2 DEF BeginMcp
      <4>3. ASSUME NEW s \in Servers, Feed(s) \/ Listen(s) \/ Exit(s)
            PROVE  started' \subseteq started
        BY <4>3 DEF Feed, Listen, Exit, Stopped, history
      <4>4. CASE UNCHANGED vars
        BY <4>4 DEF vars, history
      <4> QED BY <1>1, <4>1, <4>2, <4>3, <4>4 DEF Next
    <3> QED BY <1>1, <3>1 DEF HostInv, StartedInv
  <2> QED BY <1>1, <2>1 DEF HostInv, StartedInv, Listens, At, McpPlaces
<1>2. HostInv /\ [Next]_vars =>
        \A t \in Terminals : At(t, "clean") /\ t \notin disturbed /\ server[t] \in started' =>
          Listens(server[t])
  BY <1>1
<1> QED BY <1>2, Consistency, PTL DEF Spec, StartedListens

-----------------------------------------------------------------------------
(***************************************************************************)
(* Slots.                                                                  *)
(***************************************************************************)

\* Two launches at work are in different slots.
LEMMA OneHolder ==
  ASSUME SlotsHeldByLaunches, NEW k \in Launches, NEW l \in Launches,
         stage[k] \in Holding, stage[l] \in Holding, slot[k] = slot[l]
  PROVE  k = l
BY DEF SlotsHeldByLaunches

\* A step that takes no lock and gives none keeps the locks with the launches.
LEMMA LocksKept ==
  ASSUME SlotsHeldByLaunches, UNCHANGED <<slot, holders>>,
         \A k \in Launches : stage[k] \in Holding <=> stage'[k] \in Holding
  PROVE  SlotsHeldByLaunches'
BY DEF SlotsHeldByLaunches

\* A launch that is over gives its lock back.
LEMMA LockReleased ==
  ASSUME SlotsTypeOK, SlotsHeldByLaunches, NEW l \in Launches, NEW place \in Over,
         stage[l] \in Holding, stage' = [stage EXCEPT ![l] = place],
         holders' = Release(l, slot[l]), UNCHANGED slot
  PROVE  SlotsHeldByLaunches'
BY SlotsAssumption DEF SlotsAssumption, SlotsHeldByLaunches, SlotsTypeOK, Release,
                       Holding, Over

LEMMA SlotsInitInv == SlotsInit => SlotsInv /\ OneAgentPerHome /\ ConflictOnlyAfterKill
BY SlotsAssumption
   DEF SlotsAssumption, SlotsInit, SlotsInv, SlotsTypeOK, SlotsHeldByLaunches,
       ContainersAccounted,
       OneAgentPerHome, ConflictOnlyAfterKill, AtStage, Occupies, Slots, Holding, Over

\* The locks stay sets of processes when one is given back.
LEMMA ReleaseType ==
  ASSUME SlotsTypeOK, NEW process \in Launches, NEW n \in Slots
  PROVE  Release(process, n) \in [Slots -> SUBSET (Launches \cup {Relay})]
BY DEF SlotsTypeOK, Release

LEMMA NextType == ASSUME SlotsTypeOK, [SlotsNext]_slotVars PROVE SlotsTypeOK'
<1> USE DEF SlotsTypeOK, AtStage, ToStage, Holding, Over
<1>1. ASSUME NEW l \in Launches, Begin(l) PROVE SlotsTypeOK'
  BY <1>1 DEF Begin
<1>2. ASSUME NEW l \in Launches, Try(l) PROVE SlotsTypeOK'
  <2>1. slot[l] \in Slots
    OBVIOUS
  <2>2. CASE holders[slot[l]] = {}
    <3>1. holders' = [holders EXCEPT ![slot[l]] = {l}] /\ UNCHANGED slot
      BY <1>2, <2>2 DEF Try
    <3>2. holders' \in [Slots -> SUBSET (Launches \cup {Relay})]
      BY <2>1, <3>1
    <3> QED BY <1>2, <2>2, <3>1, <3>2 DEF Try
  <2>3. CASE holders[slot[l]] # {}
    <3>1. UNCHANGED holders
      BY <1>2, <2>3 DEF Try
    <3>2. slot' \in [Launches -> Slots]
      <4>1. CASE UNCHANGED slot
        BY <4>1
      <4>2. CASE slot[l] < Max /\ slot' = [slot EXCEPT ![l] = slot[l] + 1]
        <5>1. slot[l] + 1 \in Slots
          BY <2>1, <4>2, SlotsAssumption DEF SlotsAssumption, Slots
        <5> QED BY <4>2, <5>1
      <4> QED BY <1>2, <2>3, <4>1, <4>2 DEF Try
    <3> QED BY <1>2, <2>3, <3>1, <3>2 DEF Try
  <2> QED BY <2>2, <2>3
<1>3. ASSUME NEW l \in Launches, MakeHome(l) PROVE SlotsTypeOK'
  BY <1>3 DEF MakeHome
<1>4. ASSUME NEW l \in Launches, Copy(l) PROVE SlotsTypeOK'
  BY <1>4 DEF Copy
<1>5. ASSUME NEW l \in Launches, StartRelay(l) PROVE SlotsTypeOK'
  BY <1>5 DEF StartRelay
<1>6. ASSUME NEW l \in Launches, Remove(l) PROVE SlotsTypeOK'
  BY <1>6 DEF Remove
<1>7. ASSUME NEW l \in Launches, Run(l) PROVE SlotsTypeOK'
  <2>1. holders' \in [Slots -> SUBSET (Launches \cup {Relay})]
    BY <1>7, ReleaseType DEF Run
  <2> QED BY <1>7, <2>1 DEF Run
<1>8. ASSUME NEW l \in Launches, EndLaunch(l) \/ Fail(l) \/ Kill(l) PROVE SlotsTypeOK'
  <2>1. holders' \in [Slots -> SUBSET (Launches \cup {Relay})]
    BY <1>8, ReleaseType DEF EndLaunch, Fail, Kill
  <2> QED BY <1>8, <2>1 DEF EndLaunch, Fail, Kill
<1>9. ASSUME NEW l \in Launches, Onboard(l) \/ ExitAgent(l) PROVE SlotsTypeOK'
  BY <1>9 DEF Onboard, ExitAgent
<1>10. ASSUME Crash PROVE SlotsTypeOK'
  BY <1>10 DEF Crash
<1>11. ASSUME StopRelay PROVE SlotsTypeOK'
  <2>1. holders' \in [Slots -> SUBSET (Launches \cup {Relay})]
    BY <1>11 DEF StopRelay
  <2> QED BY <1>11, <2>1 DEF StopRelay
<1>12. ASSUME UNCHANGED slotVars PROVE SlotsTypeOK'
  BY <1>12 DEF slotVars
<1> QED
  BY <1>1, <1>2, <1>3, <1>4, <1>5, <1>6, <1>7, <1>8, <1>9, <1>10, <1>11, <1>12
     DEF SlotsNext, Step

LEMMA NextLocks ==
  ASSUME SlotsTypeOK, SlotsHeldByLaunches, [SlotsNext]_slotVars
  PROVE  SlotsHeldByLaunches'
<1>1. ASSUME NEW l \in Launches,
             Begin(l) \/ MakeHome(l) \/ Copy(l) \/ StartRelay(l) \/ Remove(l)
      PROVE  SlotsHeldByLaunches'
  <2>1. UNCHANGED <<slot, holders>>
    BY <1>1 DEF Begin, MakeHome, Copy, StartRelay, Remove
  <2>2. \A k \in Launches : stage[k] \in Holding <=> stage'[k] \in Holding
    BY <1>1 DEF SlotsTypeOK, Begin, MakeHome, Copy, StartRelay, Remove, AtStage,
                ToStage, Holding
  <2> QED BY <2>1, <2>2, LocksKept
<1>2. ASSUME NEW l \in Launches, Try(l) PROVE SlotsHeldByLaunches'
  <2>1. CASE holders[slot[l]] = {}
    BY <1>2, <2>1 DEF Try, SlotsHeldByLaunches, SlotsTypeOK, AtStage, ToStage, Holding
  <2>2. CASE holders[slot[l]] # {} /\ slot'[l] # slot[l]
    BY <1>2, <2>2 DEF Try, SlotsHeldByLaunches, SlotsTypeOK, AtStage, ToStage, Holding
  <2>3. CASE holders[slot[l]] # {} /\ slot'[l] = slot[l]
    BY <1>2, <2>3, SlotsAssumption
       DEF SlotsAssumption, Slots, Try, SlotsHeldByLaunches, SlotsTypeOK, AtStage,
           ToStage, Holding
  <2> QED BY <2>1, <2>2, <2>3
<1>3. ASSUME NEW l \in Launches, Run(l) PROVE SlotsHeldByLaunches'
  <2>1. CASE \E k \in Launches : Occupies(k, slot[l])
    BY <1>3, <2>1, LockReleased DEF Run, AtStage, ToStage, Holding, Over
  <2>2. CASE ~\E k \in Launches : Occupies(k, slot[l])
    <3>1. UNCHANGED <<slot, holders>>
      BY <1>3, <2>2 DEF Run
    <3>2. \A k \in Launches : stage[k] \in Holding <=> stage'[k] \in Holding
      BY <1>3, <2>2 DEF SlotsTypeOK, Run, AtStage, ToStage, Holding
    <3> QED BY <3>1, <3>2, LocksKept
  <2> QED BY <2>1, <2>2
<1>4. ASSUME NEW l \in Launches, EndLaunch(l) \/ Fail(l) \/ Kill(l)
      PROVE  SlotsHeldByLaunches'
  <2>1. PICK place \in Over : stage' = [stage EXCEPT ![l] = place]
    BY <1>4 DEF EndLaunch, Fail, Kill, ToStage, Over
  <2>2. stage[l] \in Holding /\ holders' = Release(l, slot[l]) /\ UNCHANGED slot
    BY <1>4 DEF EndLaunch, Fail, Kill, AtStage, Holding
  <2> QED BY <2>1, <2>2, LockReleased
<1>5. ASSUME (\E l \in Launches : Onboard(l) \/ ExitAgent(l)) \/ Crash \/ UNCHANGED slotVars
      PROVE  SlotsHeldByLaunches'
  BY <1>5, LocksKept DEF Onboard, ExitAgent, Crash, slotVars
<1>6. ASSUME StopRelay PROVE SlotsHeldByLaunches'
  BY <1>6, SlotsAssumption
     DEF SlotsAssumption, StopRelay, SlotsHeldByLaunches, SlotsTypeOK
<1> QED
  BY <1>1, <1>2, <1>3, <1>4, <1>5, <1>6 DEF SlotsNext, Step

LEMMA NextContainers == ASSUME SlotsInv, [SlotsNext]_slotVars PROVE ContainersAccounted'
<1> USE DEF SlotsInv, SlotsTypeOK, ContainersAccounted, AtStage, Occupies
<1>1. ASSUME NEW l \in Launches, Begin(l) \/ Try(l) \/ MakeHome(l) \/ Copy(l) \/ StartRelay(l)
      PROVE  ContainersAccounted'
  <2>1. stage[l] \in {"new", "trying", "taken", "copying", "ready"} /\ UNCHANGED agent
    BY <1>1 DEF Begin, Try, MakeHome, Copy, StartRelay
  <2>2. agent[l] = "none"
    BY <2>1
  <2>3. /\ \A k \in Launches \ {l} : stage'[k] = stage[k] /\ slot'[k] = slot[k]
        /\ stage'[l] # "starting"
    BY <1>1 DEF Begin, Try, MakeHome, Copy, StartRelay, ToStage
  <2> QED BY <2>1, <2>2, <2>3
<1>2. ASSUME NEW l \in Launches, Remove(l) PROVE ContainersAccounted'
  <2>1. /\ stage[l] = "removing" /\ stage' = [stage EXCEPT ![l] = "starting"] /\ UNCHANGED slot
        /\ \A k \in Launches :
             agent'[k] = IF Occupies(k, slot[l]) /\ agent[k] = "stopped" THEN "none" ELSE agent[k]
    BY <1>2 DEF Remove, ToStage
  <2>2. ASSUME NEW k \in Launches, agent[k] = "running", slot[k] = slot[l]
        PROVE  stage[k] = "killed"
    <3>1. stage[k] \in {"running", "killed"} /\ k # l
      BY <2>1, <2>2
    <3>2. stage[k] # "running"
      BY <2>1, <2>2, <3>1, OneHolder DEF Holding
    <3> QED BY <3>1, <3>2
  <2> QED BY <2>1, <2>2
<1>3. ASSUME NEW l \in Launches, Run(l) PROVE ContainersAccounted'
  <2>1. CASE \E k \in Launches : Occupies(k, slot[l])
    <3>1. agent[l] = "none" /\ stage' = [stage EXCEPT ![l] = "conflict"] /\ UNCHANGED <<slot, agent>>
      BY <1>3, <2>1 DEF Run, ToStage
    <3> QED BY <3>1
  <2>2. CASE ~\E k \in Launches : Occupies(k, slot[l])
    <3>1. /\ stage[l] = "starting" /\ stage' = [stage EXCEPT ![l] = "running"]
          /\ agent' = [agent EXCEPT ![l] = "running"] /\ UNCHANGED slot
      BY <1>3, <2>2 DEF Run, ToStage
    <3>2. ASSUME NEW k \in Launches, stage[k] = "starting", slot[k] = slot[l] PROVE k = l
      BY <3>1, <3>2, OneHolder DEF Holding
    <3> QED BY <3>1, <3>2
  <2> QED BY <2>1, <2>2
<1>4. ASSUME NEW l \in Launches, EndLaunch(l) PROVE ContainersAccounted'
  <2>1. /\ stage[l] = "running" /\ agent[l] # "running" /\ UNCHANGED <<slot, agent>>
        /\ stage' = [stage EXCEPT ![l] = "ended"]
    BY <1>4 DEF EndLaunch, ToStage
  <2>2. ASSUME NEW k \in Launches, stage[k] = "starting" PROVE slot[k] # slot[l]
    BY <2>1, <2>2, OneHolder DEF Holding
  <2> QED BY <2>1, <2>2
<1>5. ASSUME NEW l \in Launches, Fail(l) \/ Kill(l) PROVE ContainersAccounted'
  BY <1>5 DEF Fail, Kill, ToStage, Holding
<1>6. ASSUME NEW l \in Launches, Onboard(l) \/ ExitAgent(l) PROVE ContainersAccounted'
  BY <1>6 DEF Onboard, ExitAgent
<1>7. ASSUME Crash \/ StopRelay \/ UNCHANGED slotVars PROVE ContainersAccounted'
  BY <1>7 DEF Crash, StopRelay, slotVars
<1> QED
  BY <1>1, <1>2, <1>3, <1>4, <1>5, <1>6, <1>7 DEF SlotsNext, Step

\* The places of the launches, the locks and the containers agree.
\* (launch.sh _claude_agent)
THEOREM SlotsConsistency == SlotsSpec => []SlotsInv
<1>1. SlotsInit => SlotsInv
  BY SlotsInitInv
<1>2. SlotsInv /\ [SlotsNext]_slotVars => SlotsInv'
  BY NextType, NextLocks, NextContainers DEF SlotsInv
<1> QED BY <1>1, <1>2, PTL DEF SlotsSpec

\* No two containers run with one home. (launch.sh _claude_agent; README.md:456)
THEOREM OneAgent == SlotsSpec => []OneAgentPerHome
<1>1. SlotsInit => OneAgentPerHome
  BY SlotsInitInv
<1>2. SlotsInv /\ OneAgentPerHome /\ [SlotsNext]_slotVars => OneAgentPerHome'
  <2> SUFFICES ASSUME SlotsInv, OneAgentPerHome, [SlotsNext]_slotVars
               PROVE  OneAgentPerHome'
    OBVIOUS
  <2> USE DEF OneAgentPerHome
  <2>1. ASSUME NEW l \in Launches, Run(l) PROVE OneAgentPerHome'
    BY <2>1 DEF Run, Occupies, SlotsInv, SlotsTypeOK
  <2>2. ASSUME NEW l \in Launches, Try(l) PROVE OneAgentPerHome'
    <3>1. agent[l] # "running" /\ UNCHANGED agent
      BY <2>2 DEF Try, AtStage, SlotsInv, ContainersAccounted
    <3>2. \A k \in Launches \ {l} : slot'[k] = slot[k]
      BY <2>2 DEF Try, SlotsInv, SlotsTypeOK
    <3> QED BY <3>1, <3>2
  <2>3. ASSUME UNCHANGED slot, \A k \in Launches : agent'[k] = "running" => agent[k] = "running"
        PROVE  OneAgentPerHome'
    BY <2>3
  <2>4. ASSUME NEW l \in Launches,
               \/ Begin(l) \/ MakeHome(l) \/ Copy(l) \/ StartRelay(l) \/ Remove(l) \/ EndLaunch(l)
               \/ Fail(l) \/ Kill(l) \/ Onboard(l) \/ ExitAgent(l)
        PROVE  OneAgentPerHome'
    <3>1. UNCHANGED slot
      BY <2>4 DEF Begin, MakeHome, Copy, StartRelay, Remove, EndLaunch, Fail, Kill,
                  Onboard, ExitAgent
    <3>2. \A k \in Launches : agent'[k] = "running" => agent[k] = "running"
      BY <2>4 DEF SlotsInv, SlotsTypeOK, Begin, MakeHome, Copy, StartRelay, Remove,
                  EndLaunch, Fail, Kill,
                  Onboard, ExitAgent
    <3> QED BY <3>1, <3>2, <2>3
  <2>5. ASSUME Crash \/ StopRelay \/ UNCHANGED slotVars PROVE OneAgentPerHome'
    BY <2>5, <2>3 DEF Crash, StopRelay, slotVars, SlotsInv, SlotsTypeOK
  <2> QED
    BY <2>1, <2>2, <2>4, <2>5 DEF SlotsNext, Step
<1> QED BY <1>1, <1>2, SlotsConsistency, PTL DEF SlotsSpec

\* A launch fails on the name of its container only because of a killed launch of
\* the same slot. (launch.sh _claude_agent, docker rm)
THEOREM Conflicts == SlotsSpec => []ConflictOnlyAfterKill
<1>1. SlotsInit => ConflictOnlyAfterKill
  BY SlotsInitInv
<1>2. SlotsInv /\ ConflictOnlyAfterKill /\ [SlotsNext]_slotVars => ConflictOnlyAfterKill'
  <2> SUFFICES ASSUME SlotsInv, ConflictOnlyAfterKill, [SlotsNext]_slotVars
               PROVE  ConflictOnlyAfterKill'
    OBVIOUS
  <2> USE DEF SlotsInv, SlotsTypeOK, ConflictOnlyAfterKill, AtStage
  <2>1. ASSUME NEW l \in Launches, Run(l) PROVE ConflictOnlyAfterKill'
    <3>1. CASE \E k \in Launches : Occupies(k, slot[l])
      <4>1. PICK k \in Launches : Occupies(k, slot[l])
        BY <3>1
      <4>2. stage[k] = "killed" /\ slot[k] = slot[l] /\ k # l
        BY <2>1, <4>1 DEF Run, ContainersAccounted, Occupies
      <4>3. stage' = [stage EXCEPT ![l] = "conflict"] /\ UNCHANGED slot /\ stage[l] = "starting"
        BY <2>1, <3>1 DEF Run, ToStage
      <4> QED BY <4>2, <4>3
    <3>2. CASE ~\E k \in Launches : Occupies(k, slot[l])
      BY <2>1, <3>2 DEF Run, ToStage
    <3> QED BY <3>1, <3>2
  <2>2. ASSUME NEW l \in Launches,
               \/ Begin(l) \/ Try(l) \/ MakeHome(l) \/ Copy(l) \/ StartRelay(l) \/ Remove(l)
               \/ EndLaunch(l) \/ Fail(l) \/ Kill(l)
        PROVE  ConflictOnlyAfterKill'
    <3>1. stage[l] \notin Over /\ stage'[l] # "conflict"
      BY <2>2 DEF Begin, Try, MakeHome, Copy, StartRelay, Remove, EndLaunch, Fail, Kill,
                  ToStage,
                  Holding, Over
    <3>2. \A k \in Launches \ {l} : stage'[k] = stage[k] /\ slot'[k] = slot[k]
      BY <2>2 DEF Begin, Try, MakeHome, Copy, StartRelay, Remove, EndLaunch, Fail, Kill,
                  ToStage
    <3> QED BY <3>1, <3>2 DEF Over
  <2>3. ASSUME UNCHANGED <<stage, slot>> PROVE ConflictOnlyAfterKill'
    BY <2>3
  <2> QED
    BY <2>1, <2>2, <2>3 DEF SlotsNext, Step, Onboard, ExitAgent, Crash, StopRelay,
                            slotVars
<1> QED BY <1>1, <1>2, SlotsConsistency, PTL DEF SlotsSpec
=============================================================================
