-------------------------------- MODULE Host --------------------------------
(***************************************************************************)
(* The commands of the host that start and stop the MCP gateway and the    *)
(* MCP servers, launch.sh: claude_gateway, claude_gateway_stop and         *)
(* claude_mcp.  Each terminal runs one command at a time; each docker      *)
(* command is atomic, and the commands of several terminals interleave.    *)
(* Any docker command may fail, the person may interrupt any command, and  *)
(* a server may exit at any time.                                          *)
(***************************************************************************)

CONSTANTS Terminals, Servers, None

ASSUME HostAssumption ==
  /\ None \notin Servers
  /\ {"joined", "failed"} \cap Terminals = {}

VARIABLES
  gateway,   \* the container claude-gateway
  joined,    \* networks it is connected to, each named as its server
  networks,  \* networks of the servers that exist
  container, \* the container of each server
  phase,     \* how far its process is
  file,      \* servers whose container holds the file of settings
  at,        \* where the command of each terminal is
  action,    \* what it does, for claude_mcp
  server,    \* the server or the network it is about
  todo,      \* networks that claude_gateway has still to join
  joiner,    \* history: the terminal that joins the networks to the present gateway
  started,   \* history: servers that run and were announced as started
  disturbed, \* history: commands that had another one on their server meanwhile
  failed     \* history: servers a command failed on since their container was created

docker == <<gateway, joined, networks, container, phase, file>>
shell == <<at, action, server, todo>>
history == <<joiner, started, disturbed, failed>>
vars == <<docker, shell, history>>

Containers == {"none", "stopped", "running"}
Actions == {"start", "stop", "restart"}
\* The places of claude_gateway and claude_gateway_stop, then of claude_mcp.
Joining == {"listing", "joining", "connecting"}
GatewayPlaces == {"replacing", "running?", "removing", "creating",
                  "gateway stop", "gateway rm"} \cup Joining
McpPlaces == {"stop", "rm", "started?", "network?", "network", "clear", "run",
              "gateway?", "joined?", "join", "hand", "wait", "clean", "drop", "drop rm"}

TypeOK ==
  /\ gateway \in Containers
  /\ joined \subseteq Servers /\ networks \subseteq Servers
  /\ container \in [Servers -> Containers]
  /\ phase \in [Servers -> {"waiting", "fed", "listening"}]
  /\ file \subseteq Servers
  /\ at \in [Terminals -> {"shell"} \cup GatewayPlaces \cup McpPlaces]
  /\ action \in [Terminals -> Actions]
  /\ server \in [Terminals -> Servers \cup {None}]
  /\ todo \in [Terminals -> SUBSET Servers]
  /\ joiner \in Terminals \cup {"joined", "failed"}
  /\ started \subseteq Servers /\ failed \subseteq Servers
  /\ disturbed \subseteq Terminals

Init ==
  /\ gateway = "none" /\ joined = {} /\ networks = {}
  /\ container = [s \in Servers |-> "none"]
  /\ phase = [s \in Servers |-> "waiting"]
  /\ file = {}
  /\ at = [t \in Terminals |-> "shell"]
  /\ action = [t \in Terminals |-> "start"]
  /\ server = [t \in Terminals |-> None]
  /\ todo = [t \in Terminals |-> {}]
  /\ joiner = "joined"
  /\ started = {} /\ disturbed = {} /\ failed = {}

At(t, place) == at[t] = place
Goto(t, place) == at' = [at EXCEPT ![t] = place]
OnServer(t, s) == at[t] \in McpPlaces /\ server[t] = s

\* The command ends; whoever still had networks to join leaves them.
End(t, ok) ==
  /\ Goto(t, "shell")
  /\ server' = [server EXCEPT ![t] = None]
  /\ todo' = [todo EXCEPT ![t] = {}]
  /\ joiner' = IF joiner # t THEN joiner ELSE IF ok THEN "joined" ELSE "failed"
  /\ failed' = IF ~ok /\ at[t] \in McpPlaces THEN failed \cup {server[t]} ELSE failed
  /\ action' = [action EXCEPT ![t] = "start"]
  /\ disturbed' = disturbed \ {t}

\* A step that goes on, without an effect on the histories.
Continue(t, place) == Goto(t, place) /\ UNCHANGED <<action, server, todo>>

-----------------------------------------------------------------------------
\* claude_gateway.

\* A running gateway of an older image, or with other routes, is to be replaced.
BeginGateway(t) ==
  /\ At(t, "shell")
  /\ \/ Continue(t, "running?") \/ Continue(t, "gateway stop")
     \/ gateway = "running" /\ Continue(t, "replacing")
  /\ UNCHANGED <<docker, history>>

StopGateway(t) ==
  /\ At(t, "replacing")
  /\ gateway' = IF gateway = "running" THEN "stopped" ELSE gateway
  /\ Continue(t, "running?")
  /\ UNCHANGED <<joined, networks, container, phase, file, history>>

IsRunning(t) ==
  /\ At(t, "running?")
  /\ IF gateway = "running" THEN End(t, TRUE) /\ UNCHANGED started
     ELSE Continue(t, "removing") /\ UNCHANGED history
  /\ UNCHANGED docker

\* docker rm, without -f: a running container stays.
GatewayRemoved ==
  /\ gateway' = IF gateway = "stopped" THEN "none" ELSE gateway
  /\ joined' = IF gateway = "stopped" THEN {} ELSE joined

RemoveGateway(t) ==
  /\ At(t, "removing")
  /\ GatewayRemoved
  /\ Continue(t, "creating")
  /\ UNCHANGED <<networks, container, phase, file, history>>

\* docker run fails on a name in use; it may also create the container and not start it.
CreateGateway(t) ==
  /\ At(t, "creating")
  /\ \/ /\ gateway = "none"
        /\ gateway' = "running"
        /\ joiner' = t
        /\ Continue(t, "listing")
        /\ UNCHANGED <<started, disturbed, failed>>
     \/ /\ gateway' \in IF gateway = "none" THEN {"none", "stopped"} ELSE {gateway}
        /\ End(t, FALSE) /\ UNCHANGED started
  /\ UNCHANGED <<joined, networks, container, phase, file>>

ListNetworks(t) ==
  /\ At(t, "listing")
  /\ todo' = [todo EXCEPT ![t] = networks]
  /\ Goto(t, "joining")
  /\ UNCHANGED <<docker, action, server, history>>

\* _claude_gateway_join: the next network, unless the gateway is in it already.
JoinNext(t) ==
  /\ At(t, "joining")
  /\ \/ \E n \in todo[t] :
          IF n \in joined
          THEN /\ todo' = [todo EXCEPT ![t] = @ \ {n}]
               /\ UNCHANGED <<at, action, server, history>>
          ELSE /\ server' = [server EXCEPT ![t] = n]
               /\ Goto(t, "connecting")
               /\ UNCHANGED <<action, todo, history>>
     \/ todo[t] = {} /\ End(t, TRUE) /\ UNCHANGED started
  /\ UNCHANGED docker

\* docker network connect, which fails when another terminal was faster.
Connects(n) ==
  /\ gateway # "none" /\ n \notin joined
  /\ joined' = joined \cup {n}
  /\ UNCHANGED <<gateway, networks, container, phase, file>>

Connect(t) ==
  /\ At(t, "connecting")
  /\ \/ /\ Connects(server[t])
        /\ todo' = [todo EXCEPT ![t] = @ \ {server[t]}]
        /\ Goto(t, "joining")
        /\ UNCHANGED <<action, server, history>>
     \/ End(t, FALSE) /\ UNCHANGED <<docker, started>>

\* claude_gateway_stop: docker stop, then docker rm.
GatewayStop(t) ==
  /\ At(t, "gateway stop")
  /\ IF gateway = "none" THEN End(t, TRUE) /\ UNCHANGED <<docker, started>>
     ELSE /\ gateway' = "stopped"
          /\ Continue(t, "gateway rm")
          /\ UNCHANGED <<joined, networks, container, phase, file, history>>

GatewayRm(t) ==
  /\ At(t, "gateway rm")
  /\ GatewayRemoved
  /\ End(t, TRUE)
  /\ UNCHANGED <<networks, container, phase, file, started>>

GatewayCommand(t) ==
  \/ StopGateway(t) \/ IsRunning(t) \/ RemoveGateway(t) \/ CreateGateway(t)
  \/ ListNetworks(t) \/ JoinNext(t) \/ Connect(t) \/ GatewayStop(t) \/ GatewayRm(t)

-----------------------------------------------------------------------------
\* claude_mcp.

\* A running server of an older image is stopped too.
BeginMcp(t, s, a) ==
  /\ At(t, "shell")
  /\ \/ a = "start" /\ Goto(t, "started?")
     \/ (a # "start" \/ container[s] = "running")
        /\ Goto(t, "stop")
  /\ action' = [action EXCEPT ![t] = a]
  /\ server' = [server EXCEPT ![t] = s]
  /\ LET others == {u \in Terminals : OnServer(u, s)}
     IN disturbed' = IF others = {} THEN disturbed \ {t} ELSE disturbed \cup others \cup {t}
  /\ UNCHANGED <<docker, todo, joiner, started, failed>>

\* A container that stops loses its /tmp.
Stopped(s) ==
  /\ container' = [container EXCEPT ![s] = IF @ = "running" THEN "stopped" ELSE @]
  /\ file' = file \ {s}
  /\ phase' = [phase EXCEPT ![s] = "waiting"]
  /\ started' = started \ {s}
  /\ failed' = failed \ {s}
  /\ UNCHANGED <<gateway, joined, networks, joiner>>

Removed(s) ==
  /\ container' = [container EXCEPT ![s] = IF @ = "stopped" THEN "none" ELSE @]
  /\ UNCHANGED <<gateway, joined, networks, phase, file, started>>

StopServer(t) ==
  /\ At(t, "stop")
  /\ IF container[server[t]] # "none"
     THEN Stopped(server[t]) /\ Continue(t, "rm") /\ UNCHANGED disturbed
     ELSE /\ UNCHANGED <<docker, started>>
          /\ IF action[t] = "stop" THEN End(t, TRUE)
             ELSE Continue(t, "started?") /\ UNCHANGED <<joiner, disturbed, failed>>

RemoveServer(t) ==
  /\ At(t, "rm")
  /\ Removed(server[t])
  /\ IF action[t] = "stop" THEN End(t, TRUE)
     ELSE Continue(t, "started?") /\ UNCHANGED <<joiner, disturbed, failed>>

\* The server runs already; or it is to be started, if the broker is unlocked.
IsStarted(t) ==
  /\ At(t, "started?")
  /\ IF container[server[t]] = "running" THEN End(t, TRUE)
     ELSE \/ Continue(t, "network?") /\ UNCHANGED <<joiner, disturbed, failed>>
          \/ End(t, FALSE)
  /\ UNCHANGED <<docker, started>>

HasNetwork(t) ==
  /\ At(t, "network?")
  /\ Continue(t, IF server[t] \in networks THEN "clear" ELSE "network")
  /\ UNCHANGED <<docker, history>>

\* docker network create fails on a name in use.
CreateNetwork(t) ==
  /\ At(t, "network")
  /\ \/ /\ server[t] \notin networks
        /\ networks' = networks \cup {server[t]}
        /\ Continue(t, "clear")
        /\ UNCHANGED <<joiner, disturbed, failed>>
     \/ End(t, FALSE) /\ UNCHANGED networks
  /\ UNCHANGED <<gateway, joined, container, phase, file, started>>

\* docker rm of what is left of a former container; a file to mount may then be missing.
ClearServer(t) ==
  /\ At(t, "clear")
  /\ Removed(server[t])
  /\ \/ Continue(t, "run") /\ UNCHANGED <<joiner, disturbed, failed>>
     \/ End(t, FALSE)

RunServer(t) ==
  LET s == server[t]
  IN /\ At(t, "run")
     /\ \/ /\ container[s] = "none"
           /\ container' = [container EXCEPT ![s] = "running"]
           /\ failed' = failed \ {s}
           /\ Continue(t, "gateway?")
           /\ UNCHANGED <<joiner, disturbed>>
        \/ /\ \/ UNCHANGED container
              \/ container[s] = "none" /\ container' = [container EXCEPT ![s] = "stopped"]
           /\ End(t, FALSE)
     /\ UNCHANGED <<gateway, joined, networks, phase, file, started>>

\* Mutant of HasGateway: the gateway isn't joined.
SkipGateway(t) ==
  /\ At(t, "gateway?")
  /\ Continue(t, "hand")
  /\ UNCHANGED <<docker, history>>

HasGateway(t) ==
  /\ At(t, "gateway?")
  /\ Continue(t, IF gateway = "running" THEN "joined?" ELSE "hand")
  /\ UNCHANGED <<docker, history>>

IsJoined(t) ==
  /\ At(t, "joined?")
  /\ Continue(t, IF server[t] \in joined THEN "hand" ELSE "join")
  /\ UNCHANGED <<docker, history>>

Join(t) ==
  /\ At(t, "join")
  /\ \/ /\ Connects(server[t])
        /\ Continue(t, "hand")
        /\ UNCHANGED <<joiner, disturbed, failed>>
     \/ End(t, FALSE) /\ UNCHANGED docker
  /\ UNCHANGED started

\* The secrets go from the broker to the container, or the container is given up.
Hand(t) ==
  /\ At(t, "hand")
  /\ \/ /\ container[server[t]] = "running"
        /\ file' = file \cup {server[t]}
        /\ Continue(t, "wait")
     \/ Continue(t, "drop") /\ UNCHANGED file
  /\ UNCHANGED <<gateway, joined, networks, container, phase, history>>

\* Mutant of Wait: a container that runs is ready.
WaitRunning(t) ==
  /\ At(t, "wait")
  /\ IF container[server[t]] = "running"
     THEN Continue(t, "clean") /\ UNCHANGED <<joiner, disturbed, failed>>
     ELSE End(t, FALSE)
  /\ UNCHANGED <<docker, started>>

Listens(s) == container[s] = "running" /\ phase[s] = "listening"

\* _claude_mcp_wait: until the server listens, for a minute.
Wait(t) ==
  /\ At(t, "wait")
  /\ IF Listens(server[t])
     THEN Continue(t, "clean") /\ UNCHANGED <<joiner, disturbed, failed>>
     ELSE End(t, FALSE)
  /\ UNCHANGED <<docker, started>>

\* Mutant of Clean: the file is left.
CleanNothing(t) ==
  /\ At(t, "clean")
  /\ container[server[t]] = "running"
  /\ started' = started \cup {server[t]}
  /\ End(t, TRUE)
  /\ UNCHANGED docker

\* The file of settings is removed: the server is started.
Clean(t) ==
  /\ At(t, "clean")
  /\ \/ /\ container[server[t]] = "running"
        /\ file' = file \ {server[t]}
        /\ started' = started \cup {server[t]}
        /\ End(t, TRUE)
     \/ Continue(t, "drop") /\ UNCHANGED <<file, history>>
  /\ UNCHANGED <<gateway, joined, networks, container, phase>>

\* The container of that name is stopped, then removed.
DropServer(t) ==
  /\ At(t, "drop")
  /\ Stopped(server[t])
  /\ Continue(t, "drop rm")
  /\ UNCHANGED disturbed

DropRm(t) ==
  /\ At(t, "drop rm")
  /\ Removed(server[t])
  /\ End(t, FALSE)

McpCommand(t) ==
  \/ StopServer(t) \/ RemoveServer(t) \/ IsStarted(t)
  \/ HasNetwork(t) \/ CreateNetwork(t) \/ ClearServer(t) \/ RunServer(t)
  \/ HasGateway(t) \/ IsJoined(t) \/ Join(t) \/ Hand(t) \/ Wait(t) \/ Clean(t)
  \/ DropServer(t) \/ DropRm(t)

-----------------------------------------------------------------------------
\* The person interrupts a command.
Interrupt(t) ==
  /\ ~At(t, "shell")
  /\ End(t, FALSE)
  /\ UNCHANGED <<docker, started>>

\* The process of a server: it waits for its file, loads it, then listens.
Feed(s) ==
  /\ container[s] = "running" /\ phase[s] = "waiting" /\ s \in file
  /\ phase' = [phase EXCEPT ![s] = "fed"]
  /\ UNCHANGED <<gateway, joined, networks, container, file, shell, history>>

Listen(s) ==
  /\ container[s] = "running" /\ phase[s] = "fed" /\ s \in file
  /\ phase' = [phase EXCEPT ![s] = "listening"]
  /\ file' \in {file, file \ {s}} \* without MCP_SECRET_FILE, it removes the file
  /\ UNCHANGED <<gateway, joined, networks, container, shell, history>>

\* It gets no file in time, or fails at any time.
Exit(s) ==
  /\ container[s] = "running"
  /\ Stopped(s)
  /\ UNCHANGED <<shell, disturbed>>

Next ==
  \/ \E t \in Terminals :
       \/ BeginGateway(t) \/ GatewayCommand(t) \/ McpCommand(t) \/ Interrupt(t)
       \/ \E s \in Servers, a \in Actions : BeginMcp(t, s, a)
  \/ \E s \in Servers : Feed(s) \/ Listen(s) \/ Exit(s)

Spec == Init /\ [][Next]_vars

-----------------------------------------------------------------------------
\* A running gateway reaches every server announced as started, in whatever order the
\* two were started, unless the claude_gateway that created it is still joining, or
\* failed: whichever of claude_gateway and claude_mcp comes second sees the other.
\* (launch.sh claude_gateway, claude_mcp, _claude_gateway_join)
Reachable ==
  \A s \in started :
    gateway = "running" /\ joiner = "joined" => s \in joined

\* The settings are in the memory of a server only: its file is there while a command
\* waits for the server, or after a command that failed on it.
\* (launch.sh claude_mcp, _claude_mcp_wait)
FileAccounted ==
  \A s \in file :
    \/ s \in failed
    \/ \E t \in Terminals : OnServer(t, s) /\ at[t] \in {"wait", "clean", "drop"}

\* A server announced as started listens, whatever happened meanwhile, unless another
\* command acted on it at the same time.  (launch.sh claude_mcp, _claude_mcp_wait)
StartedListens ==
  [][\A t \in Terminals :
       At(t, "clean") /\ t \notin disturbed /\ server[t] \in started' =>
         Listens(server[t])]_vars

-----------------------------------------------------------------------------
\* The gateway is in the network of s, or someone will see to it, or failed to.
Covered(s) ==
  \/ gateway # "running"
  \/ s \in joined
  \/ joiner = "failed"
  \/ joiner \in Terminals /\ (At(joiner, "listing") \/ s \in todo[joiner])

\* What the place of a command says of the networks and of the gateway.
CommandConsistent(t) ==
  /\ at[t] \in McpPlaces => server[t] \in Servers
  /\ at[t] \in McpPlaces \ {"stop", "rm", "started?", "network?", "network"} =>
       server[t] \in networks
  /\ at[t] \in {"hand", "wait", "clean"} => Covered(server[t])
  /\ At(t, "connecting") => server[t] \in todo[t]
  /\ joiner = t => at[t] \in Joining

NetworksInv ==
  /\ TypeOK
  /\ \A t \in Terminals : CommandConsistent(t)
  /\ \A s \in started : s \in networks /\ Covered(s)
  /\ \A s \in file : container[s] = "running"
  /\ FileAccounted

\* A command that no other one disturbed is alone on its server, which listens once the
\* command saw it listening, if it still runs.
StartedInv ==
  /\ \A s \in started : container[s] = "running"
  /\ \A t \in Terminals \ disturbed : at[t] \in McpPlaces =>
       /\ \A u \in Terminals \ {t} : ~OnServer(u, server[t])
       /\ At(t, "clean") /\ container[server[t]] = "running" =>
            phase[server[t]] = "listening"

\* The networks, the files and the announcements agree with the places of the commands:
\* what the properties above rest on.  (launch.sh claude_gateway, claude_mcp)
HostInv == NetworksInv /\ StartedInv
=============================================================================
