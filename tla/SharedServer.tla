----------------------------- MODULE SharedServer -----------------------------
(***************************************************************************)
(* The Tailscale node that the proxies of a provider share                 *)
(* (proxyproviders/tailscale: shared_server.go on top of eventloop.go) and *)
(* its users: shared_proxy.go with SharedSNIExposure, one pair per proxy.  *)
(*                                                                         *)
(* The loop goroutine owns the runtime and takes commands from a bounded   *)
(* channel; a command is one step, except that stopRuntime waits for the   *)
(* bridge goroutine.  A proxy's Start and Close, its event forwarder, the  *)
(* bridge and the certificate goroutine of each node, the idle timers and  *)
(* the server's Close all send commands.  Queries (GetURL, GetAuthURL,     *)
(* GetLocalClient) change nothing and are left out.                        *)
(***************************************************************************)
EXTENDS Integers, Sequences, FiniteSets

CONSTANTS Users,     \* SharedProxy objects, each started and closed once
          Domains,   \* custom domains
          Ports,     \* port numbers of the shared node
          Configs,   \* the configurations to be looked at, see ConfigsType
          MaxGen,    \* how many nodes there may be, one after the other
          Starts,    \* bound: how often the node is started in a configuration
          QueueCap,  \* capacity of the command channel (loopCmdBufferSize)
          None

Protocols == {"https", "http", "tcp", "udp"}

\* A configuration: a domain for each user, and the protocol it wants on each
\* port (None: it does not use the port).
ASSUME ConfigsType ==
  Configs \subseteq [Users -> [domain : Domains,
                               proto : [Ports -> Protocols \cup {None}]]]
ASSUME BoundsType == MaxGen \in Nat \ {0} /\ QueueCap \in Nat \ {0}
ASSUME StartsType == Starts \in [Configs -> 1 .. MaxGen]
ASSUME FiniteSetsUsed == IsFiniteSet(Users) /\ IsFiniteSet(Ports) /\ IsFiniteSet(Domains)
ASSUME NoneFresh ==
  None \notin Users \cup Domains \cup Ports \cup Protocols \cup {"ok", "error"}

Gens == 0 .. MaxGen - 1

VARIABLES
  config,      \* Config of each user
  queue,       \* el.cmds
  done,        \* el.done is closed: the loop has exited
  phase,       \* of the loop: "run", or what it is stopping the runtime for
  state,       \* sharedIdle or sharedRunning
  rt,          \* the runtime: nil, only subscribers, or a node
  gen,         \* rt.gen
  nextGen,
  use,         \* rt.listeners and rt.packetRoutes: what each port is used for
  who,         \* the domains registered on each port
  routeCount,  \* rt.routeCount
  subs,        \* rt.subs
  certInFlight,\* rt.certInFlight
  timer,       \* the generation idleTimer was started for, -1: nil
  fired,       \* timers that have fired and wait to send their command
  node,        \* the tsnet server of each generation
  bridge,      \* bridgeLifecycleEvents of each generation
  certs,       \* getCertificates goroutines of each generation
  pc,          \* of each user: Start and Close
  todo,        \* the ports it has still to acquire
  cur,         \* the port of its command
  held,        \* the ports it holds a listener or packet connection for
  reply,       \* the reply channel of its command
  stopCh,      \* p.stopCh
  fw,          \* forwardEvents
  fwReply,     \* the reply channel of the forwarder's command
  ch,          \* its subscription channel
  inbox,       \* an event in that channel
  closer       \* the provider's call of SharedServer.Close

loopVars == <<done, phase, state, rt, gen, nextGen, timer>>
routes == <<use, who, routeCount>>
nodes == <<node, bridge, certs>>
user == <<pc, todo, cur, held, stopCh>>
forward == <<fw, ch, inbox>>
vars == <<config, queue, loopVars, routes, subs, certInFlight, fired, nodes,
          user, reply, forward, fwReply, closer>>

Cmd(op, by, port, g) == [op |-> op, by |-> by, port |-> port, gen |-> g]
Commands == [op : {"acquire", "release", "subscribe", "unsubscribe", "close",
                   "watch", "cert", "idle"},
             by : Users \cup {None}, port : Ports \cup {None},
             gen : Gens \cup {-1}]

TypeOK ==
  /\ config \in Configs
  /\ queue \in Seq(Commands) /\ Len(queue) <= QueueCap
  /\ done \in BOOLEAN
  /\ phase \in {"run", "idling", "closing", "exit"}
  /\ state \in {"idle", "running"}
  /\ rt \in {"nil", "subs", "node"}
  /\ gen \in Gens /\ nextGen \in 0 .. MaxGen
  /\ use \in [Ports -> {"free", "sni", "host", "tcp", "udp"}]
  /\ who \in [Ports -> SUBSET Domains]
  /\ routeCount \in Int
  /\ subs \subseteq Users
  /\ certInFlight \in BOOLEAN
  /\ timer \in Gens \cup {-1}
  /\ fired \in [Gens -> Nat]
  /\ node \in [Gens -> {"none", "up", "stopped"}]
  /\ bridge \in [Gens -> {"none", "waiting", "sending", "done"}]
  /\ certs \in [Gens -> Nat]
  /\ pc \in [Users -> {"new", "acquire", "acquiring", "up", "release",
                       "releasing", "stop", "join", "closed"}]
  /\ todo \in [Users -> SUBSET Ports] /\ held \in [Users -> SUBSET Ports]
  /\ cur \in [Users -> Ports \cup {None}]
  /\ reply \in [Users -> {"ok", "error", None}]
  /\ stopCh \in [Users -> {"nil", "open", "closed"}]
  /\ fw \in [Users -> {"none", "subscribe", "subscribing", "loop", "select",
                       "deaf", "unsubscribe", "unsubscribing", "done"}]
  /\ fwReply \in [Users -> {"ok", None}]
  /\ ch \in [Users -> {"none", "open", "closed"}]
  /\ inbox \in [Users -> BOOLEAN]
  /\ closer \in {"idle", "sent", "returned"}

Init ==
  /\ config \in Configs
  /\ queue = <<>> /\ done = FALSE /\ phase = "run"
  /\ state = "idle" /\ rt = "nil" /\ gen = 0 /\ nextGen = 0
  /\ use = [q \in Ports |-> "free"] /\ who = [q \in Ports |-> {}]
  /\ routeCount = 0
  /\ subs = {} /\ certInFlight = FALSE /\ timer = -1
  /\ fired = [g \in Gens |-> 0]
  /\ node = [g \in Gens |-> "none"]
  /\ bridge = [g \in Gens |-> "none"]
  /\ certs = [g \in Gens |-> 0]
  /\ pc = [u \in Users |-> "new"]
  /\ todo = [u \in Users |-> {q \in Ports : config[u].proto[q] # None}]
  /\ cur = [u \in Users |-> None]
  /\ held = [u \in Users |-> {}]
  /\ reply = [u \in Users |-> None]
  /\ stopCh = [u \in Users |-> "nil"]
  /\ fw = [u \in Users |-> "none"]
  /\ fwReply = [u \in Users |-> None]
  /\ ch = [u \in Users |-> "none"]
  /\ inbox = [u \in Users |-> FALSE]
  /\ closer = "idle"

Set(f, k, v) == [f EXCEPT ![k] = v]
Domain(u) == config[u].domain
Proto(u, q) == config[u].proto[q]

\* A command goes into the channel while there is room and a loop to read it.
Send(c) ==
  /\ ~done /\ Len(queue) < QueueCap
  /\ queue' = Append(queue, c)

-----------------------------------------------------------------------------
(* Start and Close of a user: SharedProxy and SharedSNIExposure. *)

\* Exposure.Start: the next port (the map order is arbitrary) is acquired.
Acquire(u, q) ==
  /\ pc[u] \in {"new", "acquire"} /\ q \in todo[u]
  /\ Send(Cmd("acquire", u, q, -1))
  /\ pc' = Set(pc, u, "acquiring")
  /\ cur' = Set(cur, u, q)
  /\ todo' = [todo EXCEPT ![u] = @ \ {q}]
  /\ UNCHANGED <<config, loopVars, routes, subs, certInFlight, fired, nodes,
                 held, reply, stopCh, forward, fwReply, closer>>

\* The context is canceled between two ports, or the server is closed: the
\* ports acquired so far are given back.
StartFails(u) ==
  /\ pc[u] \in {"new", "acquire"} /\ todo[u] # {}
  /\ pc' = Set(pc, u, "release")
  /\ todo' = Set(todo, u, {})
  /\ UNCHANGED <<config, queue, loopVars, routes, subs, certInFlight, fired,
                 nodes, cur, held, reply, stopCh, forward, fwReply,
                 closer>>

\* Mutant of Acquired: what was acquired is forgotten before it is given back.
AcquiredForgets(u) ==
  /\ pc[u] = "acquiring"
  /\ \/ /\ reply[u] = "ok"
        /\ held' = [held EXCEPT ![u] = @ \cup {cur[u]}]
        /\ pc' = Set(pc, u, "acquire")
        /\ UNCHANGED todo
     \/ /\ reply[u] = "error" \/ done
        /\ held' = Set(held, u, {})
        /\ pc' = Set(pc, u, "release")
        /\ todo' = Set(todo, u, {})
  /\ cur' = Set(cur, u, None)
  /\ reply' = Set(reply, u, None)
  /\ UNCHANGED <<config, queue, loopVars, routes, subs, certInFlight, fired,
                 nodes, stopCh, forward, fwReply, closer>>

\* SendAndWait of Acquire returns: the reply, or the loop has exited (and when
\* both are there, either).
Acquired(u) ==
  /\ pc[u] = "acquiring"
  /\ \/ /\ reply[u] = "ok"
        /\ held' = [held EXCEPT ![u] = @ \cup {cur[u]}]
        /\ pc' = Set(pc, u, "acquire")
        /\ UNCHANGED todo
     \/ /\ reply[u] = "error" \/ done
        /\ UNCHANGED held
        /\ pc' = Set(pc, u, "release")
        /\ todo' = Set(todo, u, {})
  /\ cur' = Set(cur, u, None)
  /\ reply' = Set(reply, u, None)
  /\ UNCHANGED <<config, queue, loopVars, routes, subs, certInFlight, fired,
                 nodes, stopCh, forward, fwReply, closer>>

\* Every port is acquired: SharedProxy.Start starts the forwarder.
Started(u) ==
  /\ pc[u] = "acquire" /\ todo[u] = {}
  /\ pc' = Set(pc, u, "up")
  /\ stopCh' = Set(stopCh, u, "open")
  /\ fw' = Set(fw, u, "subscribe")
  /\ UNCHANGED <<config, queue, loopVars, routes, subs, certInFlight, fired,
                 nodes, todo, cur, held, reply, ch, inbox, fwReply, closer>>

\* SharedProxy.Close calls Exposure.Close.
CloseUser(u) ==
  /\ pc[u] = "up"
  /\ pc' = Set(pc, u, "release")
  /\ UNCHANGED <<config, queue, loopVars, routes, subs, certInFlight, fired,
                 nodes, todo, cur, held, reply, stopCh, forward, fwReply,
                 closer>>

\* rollbackAcquired, one port.
Release(u, q) ==
  /\ pc[u] = "release" /\ q \in held[u]
  /\ Send(Cmd("release", u, q, -1))
  /\ pc' = Set(pc, u, "releasing")
  /\ cur' = Set(cur, u, q)
  /\ held' = [held EXCEPT ![u] = @ \ {q}]
  /\ UNCHANGED <<config, loopVars, routes, subs, certInFlight, fired, nodes,
                 todo, reply, stopCh, forward, fwReply, closer>>

\* The loop has exited: Release has nothing to do.
ReleaseNothing(u, q) ==
  /\ pc[u] = "release" /\ q \in held[u] /\ done
  /\ held' = [held EXCEPT ![u] = @ \ {q}]
  /\ UNCHANGED <<config, queue, loopVars, routes, subs, certInFlight, fired,
                 nodes, pc, todo, cur, reply, stopCh, forward, fwReply, closer>>

Released(u) ==
  /\ pc[u] = "releasing"
  /\ reply[u] # None \/ done
  /\ pc' = Set(pc, u, "release")
  /\ cur' = Set(cur, u, None)
  /\ reply' = Set(reply, u, None)
  /\ UNCHANGED <<config, queue, loopVars, routes, subs, certInFlight, fired,
                 nodes, todo, held, stopCh, forward, fwReply, closer>>

\* Everything is given back; a started proxy stops its forwarder: stopCh is
\* closed and the field set to nil.
StopForwarder(u) ==
  /\ pc[u] = "release" /\ held[u] = {}
  /\ pc' = Set(pc, u, IF stopCh[u] = "open" THEN "join" ELSE "closed")
  /\ stopCh' = Set(stopCh, u, IF stopCh[u] = "open" THEN "closed" ELSE "nil")
  /\ UNCHANGED <<config, queue, loopVars, routes, subs, certInFlight, fired,
                 nodes, todo, cur, held, reply, forward, fwReply, closer>>

\* Close waits for forwarderDone.
Closed(u) ==
  /\ pc[u] = "join" /\ fw[u] = "done"
  /\ pc' = Set(pc, u, "closed")
  /\ UNCHANGED <<config, queue, loopVars, routes, subs, certInFlight, fired,
                 nodes, todo, cur, held, reply, stopCh, forward, fwReply,
                 closer>>

-----------------------------------------------------------------------------
(* forwardEvents. *)

Subscribe(u) ==
  /\ fw[u] = "subscribe"
  /\ \/ Send(Cmd("subscribe", u, None, -1)) /\ fw' = Set(fw, u, "subscribing")
     \/ done /\ fw' = Set(fw, u, "done") /\ UNCHANGED queue
  /\ UNCHANGED <<config, loopVars, routes, subs, certInFlight, fired, nodes,
                 user, reply, ch, inbox, fwReply, closer>>

\* A channel, or none (the loop has exited): the goroutine returns.
Subscribed(u) ==
  /\ fw[u] = "subscribing"
  /\ \/ fwReply[u] # None /\ fw' = Set(fw, u, "loop")
     \/ done /\ fw' = Set(fw, u, "done")
  /\ fwReply' = Set(fwReply, u, None)
  /\ UNCHANGED <<config, queue, loopVars, routes, subs, certInFlight, fired,
                 nodes, user, reply, ch, inbox, closer>>

\* The select evaluates the field p.stopCh without p.mtx, anew for every event:
\* once Close has set it to nil the goroutine may see the closed channel or
\* nil, and a nil channel is never ready.
EnterSelect(u) ==
  /\ fw[u] = "loop"
  /\ \/ stopCh[u] = "open" /\ fw' = Set(fw, u, "select")
     \/ stopCh[u] = "closed" /\ fw' \in {Set(fw, u, "select"), Set(fw, u, "deaf")}
  /\ UNCHANGED <<config, queue, loopVars, routes, subs, certInFlight, fired,
                 nodes, user, reply, ch, inbox, fwReply, closer>>

\* An event, which p.events takes or drops; or the subscription is closed.
Forward(u) ==
  /\ fw[u] \in {"select", "deaf"}
  /\ \/ inbox[u] /\ fw' = Set(fw, u, "loop") /\ inbox' = Set(inbox, u, FALSE)
     \/ /\ ~inbox[u] /\ ch[u] = "closed"
        /\ fw' = Set(fw, u, "unsubscribe") /\ UNCHANGED inbox
  /\ UNCHANGED <<config, queue, loopVars, routes, subs, certInFlight, fired,
                 nodes, user, reply, ch, fwReply, closer>>

\* stopCh is closed.
StopSeen(u) ==
  /\ fw[u] = "select" /\ stopCh[u] = "closed"
  /\ fw' = Set(fw, u, "unsubscribe")
  /\ UNCHANGED <<config, queue, loopVars, routes, subs, certInFlight, fired,
                 nodes, user, reply, ch, inbox, fwReply, closer>>

Unsubscribe(u) ==
  /\ fw[u] = "unsubscribe"
  /\ \/ Send(Cmd("unsubscribe", u, None, -1)) /\ fw' = Set(fw, u, "unsubscribing")
     \/ done /\ fw' = Set(fw, u, "done") /\ UNCHANGED queue
  /\ UNCHANGED <<config, loopVars, routes, subs, certInFlight, fired, nodes,
                 user, reply, ch, inbox, fwReply, closer>>

Unsubscribed(u) ==
  /\ fw[u] = "unsubscribing"
  /\ fwReply[u] # None \/ done
  /\ fw' = Set(fw, u, "done")
  /\ fwReply' = Set(fwReply, u, None)
  /\ inbox' = Set(inbox, u, FALSE)      \* nobody will read it
  /\ UNCHANGED <<config, queue, loopVars, routes, subs, certInFlight, fired,
                 nodes, user, reply, ch, closer>>

-----------------------------------------------------------------------------
(* Producers: the bridge, the certificate goroutine, the timers, Close. *)

Canceled(g) == node[g] = "stopped"

\* The watcher of the node polls; its event waits in the bridge.  Bound: one
\* event of a node in the channel at a time (the poll interval is seconds).
BridgeEvent(g) ==
  /\ bridge[g] = "waiting" /\ node[g] = "up"
  /\ \A i \in 1 .. Len(queue) : queue[i].op # "watch" \/ queue[i].gen # g
  /\ bridge' = Set(bridge, g, "sending")
  /\ UNCHANGED <<config, queue, loopVars, routes, subs, certInFlight, fired,
                 node, certs, user, reply, forward, fwReply, closer>>

\* Mutant of BridgeSend: a canceled context does not end a blocked send.
BridgeSendBlocks(g) ==
  /\ bridge[g] = "sending"
  /\ Send(Cmd("watch", None, None, g))
  /\ bridge' = Set(bridge, g, "waiting")
  /\ UNCHANGED <<config, loopVars, routes, subs, certInFlight, fired, node,
                 certs, user, reply, forward, fwReply, closer>>

\* SendProducer: into the channel, or given up when the node's context is
\* canceled or the loop has exited.
BridgeSend(g) ==
  /\ bridge[g] = "sending"
  /\ \/ Send(Cmd("watch", None, None, g))
     \/ (Canceled(g) \/ done) /\ UNCHANGED queue
  /\ bridge' = Set(bridge, g, "waiting")
  /\ UNCHANGED <<config, loopVars, routes, subs, certInFlight, fired, node,
                 certs, user, reply, forward, fwReply, closer>>

\* lifecycle.Close has closed the event channel.
BridgeEnds(g) ==
  /\ bridge[g] = "waiting" /\ Canceled(g)
  /\ bridge' = Set(bridge, g, "done")
  /\ UNCHANGED <<config, queue, loopVars, routes, subs, certInFlight, fired,
                 node, certs, user, reply, forward, fwReply, closer>>

\* getCertificates ends.
CertDone(g) ==
  /\ certs[g] > 0
  /\ certs' = [certs EXCEPT ![g] = @ - 1]
  /\ \/ Send(Cmd("cert", None, None, g))
     \/ (Canceled(g) \/ done) /\ UNCHANGED queue
  /\ UNCHANGED <<config, loopVars, routes, subs, certInFlight, fired, node,
                 bridge, user, reply, forward, fwReply, closer>>

\* sharedIdleTimeout is over; Stop comes too late for this timer.
TimerFires ==
  /\ timer # -1
  /\ timer' = -1
  /\ fired' = [fired EXCEPT ![timer] = @ + 1]
  /\ UNCHANGED <<config, queue, done, phase, state, rt, gen, nextGen, routes,
                 subs, certInFlight, nodes, user, reply, forward, fwReply,
                 closer>>

TimerSends(g) ==
  /\ fired[g] > 0
  /\ fired' = [fired EXCEPT ![g] = @ - 1]
  /\ \/ Send(Cmd("idle", None, None, g))
     \/ done /\ UNCHANGED queue
  /\ UNCHANGED <<config, loopVars, routes, subs, certInFlight, nodes, user,
                 reply, forward, fwReply, closer>>

CloseServer ==
  /\ closer = "idle"
  /\ Send(Cmd("close", None, None, -1))
  /\ closer' = "sent"
  /\ UNCHANGED <<config, loopVars, routes, subs, certInFlight, fired, nodes,
                 user, reply, forward, fwReply>>

-----------------------------------------------------------------------------
(* The loop. *)

Reads(op) == phase = "run" /\ queue # <<>> /\ Head(queue).op = op
Take(op) == Reads(op) /\ queue' = Tail(queue)

\* The idle timer, which the command has stopped, is started again when the
\* server is idle and has something to stop.
Reschedule == timer' = IF state' = "idle" /\ rt' # "nil" THEN gen' ELSE -1

\* startRuntimeWithLifecycle: the next generation of the node; the subscribers
\* of the runtime it replaces are taken over.
StartRuntime ==
  /\ nextGen < Starts[config]
  /\ rt' = "node" /\ gen' = nextGen /\ nextGen' = nextGen + 1
  /\ node' = Set(node, nextGen, "up")
  /\ bridge' = Set(bridge, nextGen, "waiting")
  /\ certInFlight' = FALSE
  /\ UNCHANGED certs

\* ensureRunning: an idle server starts a node unless one is left.
EnsureRunning ==
  IF state = "running" \/ rt = "node"
  THEN UNCHANGED <<rt, gen, nextGen, certInFlight, nodes>>
  ELSE StartRuntime

\* What registerRoute and registerPacketRoute make of a port.
Mode(pr) == CASE pr = "https" -> "sni" [] pr = "http" -> "host"
              [] pr = "tcp" -> "tcp" [] pr = "udp" -> "udp"

\* A router takes further domains; every other use of a port is exclusive.
Accepts(u, q) ==
  \/ use[q] = "free"
  \/ /\ Proto(u, q) \in {"https", "http"}
     /\ use[q] = Mode(Proto(u, q)) /\ Domain(u) \notin who[q]

Register(u, q) ==
  /\ Accepts(u, q)
  /\ use' = Set(use, q, Mode(Proto(u, q)))
  /\ who' = [who EXCEPT ![q] = @ \cup {Domain(u)}]
  /\ routeCount' = routeCount + 1
  /\ state' = "running"
  /\ reply' = Set(reply, u, "ok")

\* The port is taken, or Listen fails; the node is left to the idle timer.
Refuse(u, q) ==
  /\ ~Accepts(u, q) \/ use[q] = "free"
  /\ state' = IF routeCount <= 0 THEN "idle" ELSE "running"
  /\ reply' = Set(reply, u, "error")
  /\ UNCHANGED routes

\* handleAcquire and handleAcquirePacket.
HandleAcquire ==
  /\ Take("acquire")
  /\ LET u == Head(queue).by  q == Head(queue).port
     IN \/ /\ state = "idle" /\ rt # "node"   \* "shared server start failed"
           /\ reply' = Set(reply, u, "error")
           /\ UNCHANGED <<state, rt, gen, nextGen, certInFlight, nodes, routes>>
        \/ EnsureRunning /\ Register(u, q)
        \/ EnsureRunning /\ Refuse(u, q)
  /\ Reschedule
  /\ UNCHANGED <<config, done, phase, subs, fired, user, forward, fwReply,
                 closer>>

\* unregisterRoute and unregisterPacketRoute: a domain leaves its router, whose
\* port is free when it was the last; a direct port is free at once.
Leaves(u, q) ==
  CASE Proto(u, q) \in {"https", "http"} ->
         IF use[q] \in {"sni", "host"} THEN who[q] \cap {Domain(u)} ELSE {}
    [] Proto(u, q) = "tcp" -> IF use[q] = "udp" THEN {} ELSE who[q]
    [] Proto(u, q) = "udp" -> IF use[q] = "udp" THEN who[q] ELSE {}

Unregister(u, q) ==
  IF Leaves(u, q) = {}
  THEN UNCHANGED routes
  ELSE /\ who' = [who EXCEPT ![q] = @ \ Leaves(u, q)]
       /\ use' = IF who[q] = Leaves(u, q) THEN Set(use, q, "free") ELSE use
       /\ routeCount' = routeCount - 1

\* handleRelease and handleReleasePacket.
HandleRelease ==
  /\ Take("release")
  /\ LET u == Head(queue).by  q == Head(queue).port
     IN /\ IF state = "running"
           THEN /\ Unregister(u, q)
                /\ state' = IF routeCount' <= 0 THEN "idle" ELSE state
           ELSE UNCHANGED <<routes, state>>
        /\ reply' = Set(reply, u, "ok")
  /\ UNCHANGED <<rt, gen>>
  /\ Reschedule
  /\ UNCHANGED <<config, done, phase, nextGen, subs, certInFlight, fired, nodes,
                 user, forward, fwReply, closer>>

\* stopRuntime, up to the wait for the bridge: listeners, packet connections
\* and the node are closed.
StopBegins(why) ==
  /\ phase' = why
  /\ use' = [q \in Ports |-> "free"] /\ who' = [q \in Ports |-> {}]
  /\ routeCount' = 0
  /\ node' = IF rt = "node" THEN Set(node, gen, "stopped") ELSE node
  /\ state' = "idle"

\* Mutant of HandleIdle: neither the state nor the generation is looked at.
HandleIdleAlways ==
  /\ Take("idle")
  /\ timer' = -1
  /\ IF rt # "nil"
     THEN StopBegins("idling")
     ELSE UNCHANGED <<phase, routes, node, state>>
  /\ UNCHANGED <<config, done, rt, gen, nextGen, subs, certInFlight, fired,
                 bridge, certs, user, reply, forward, fwReply, closer>>

\* handleIdleTimeout.
HandleIdle ==
  /\ Take("idle")
  /\ timer' = -1
  /\ IF state = "idle" /\ rt # "nil" /\ Head(queue).gen = gen
     THEN StopBegins("idling")
     ELSE UNCHANGED <<phase, routes, node, state>>
  /\ UNCHANGED <<config, done, rt, gen, nextGen, subs, certInFlight, fired,
                 bridge, certs, user, reply, forward, fwReply, closer>>

\* The loop returns: whatever is still in the channel is never read.
Exit ==
  /\ done' = TRUE
  /\ queue' = <<>>
  /\ closer' = "returned"

\* handleClose.
HandleClose ==
  /\ Reads("close")
  /\ timer' = -1
  /\ IF rt # "nil"
     THEN StopBegins("closing") /\ queue' = Tail(queue) /\ UNCHANGED <<done, closer>>
     ELSE phase' = "exit" /\ Exit /\ UNCHANGED <<routes, node, state>>
  /\ UNCHANGED <<config, rt, gen, nextGen, subs, certInFlight, fired, bridge,
                 certs, user, reply, forward, fwReply>>

\* Mutant of StopEnds: the subscribers are not told.
StopEndsSilently ==
  /\ phase \in {"idling", "closing"}
  /\ rt = "node" => bridge[gen] = "done"
  /\ rt' = "nil" /\ certInFlight' = FALSE /\ subs' = {}
  /\ IF phase = "closing"
     THEN phase' = "exit" /\ Exit
     ELSE phase' = "run" /\ UNCHANGED <<done, closer, queue>>
  /\ UNCHANGED <<config, ch, state, gen, nextGen, timer, routes, fired,
                 nodes, user, reply, fw, inbox, fwReply>>

\* stopRuntime, from there on: the subscriptions are closed.
StopEnds ==
  /\ phase \in {"idling", "closing"}
  /\ rt = "node" => bridge[gen] = "done"
  /\ rt' = "nil" /\ certInFlight' = FALSE /\ subs' = {}
  /\ ch' = [u \in Users |-> IF u \in subs THEN "closed" ELSE ch[u]]
  /\ IF phase = "closing"
     THEN phase' = "exit" /\ Exit
     ELSE phase' = "run" /\ UNCHANGED <<done, closer, queue>>
  /\ UNCHANGED <<config, state, gen, nextGen, timer, routes, fired,
                 nodes, user, reply, fw, inbox, fwReply>>

\* handleWatchUpdate: the subscribers get the event if they have room for it; a
\* running node fetches its certificate, once at a time.
HandleWatch ==
  /\ Take("watch")
  /\ IF rt # "nil" /\ Head(queue).gen = gen
     THEN /\ inbox' = [u \in Users |-> inbox[u] \/ u \in subs]
          /\ \/ UNCHANGED <<certInFlight, certs>>      \* not Running
             \/ /\ rt = "node" /\ ~certInFlight
                /\ certInFlight' = TRUE
                /\ certs' = [certs EXCEPT ![gen] = @ + 1]
     ELSE UNCHANGED <<inbox, certInFlight, certs>>
  /\ UNCHANGED <<config, loopVars, routes, subs, fired, node, bridge, user,
                 reply, fw, ch, fwReply, closer>>

HandleCert ==
  /\ Take("cert")
  /\ certInFlight' = (certInFlight /\ ~(rt # "nil" /\ Head(queue).gen = gen))
  /\ UNCHANGED <<config, loopVars, routes, subs, fired, nodes, user, reply,
                 forward, fwReply, closer>>

\* handleSubscribe: without a runtime one is made that has only subscribers.
HandleSubscribe ==
  /\ Take("subscribe")
  /\ rt' = IF rt = "nil" THEN "subs" ELSE rt
  /\ gen' = IF rt = "nil" THEN 0 ELSE gen
  /\ subs' = subs \cup {Head(queue).by}
  /\ ch' = Set(ch, Head(queue).by, "open")
  /\ fwReply' = Set(fwReply, Head(queue).by, "ok")
  /\ UNCHANGED <<config, done, phase, state, nextGen, timer, routes,
                 certInFlight, fired, nodes, user, reply, fw, inbox, closer>>

HandleUnsubscribe ==
  /\ Take("unsubscribe")
  /\ subs' = subs \ {Head(queue).by}
  /\ ch' = IF Head(queue).by \in subs THEN Set(ch, Head(queue).by, "closed")
                                       ELSE ch
  /\ fwReply' = Set(fwReply, Head(queue).by, "ok")
  /\ UNCHANGED <<config, loopVars, routes, certInFlight, fired, nodes, user,
                 reply, fw, inbox, closer>>

-----------------------------------------------------------------------------
UserStep(u) ==
  \/ \E q \in Ports : Acquire(u, q) \/ Release(u, q) \/ ReleaseNothing(u, q)
  \/ Acquired(u) \/ Started(u) \/ Released(u) \/ StopForwarder(u) \/ Closed(u)

Forwarder(u) ==
  \/ Subscribe(u) \/ Subscribed(u) \/ EnterSelect(u) \/ Forward(u)
  \/ StopSeen(u) \/ Unsubscribe(u) \/ Unsubscribed(u)

Producer(g) ==
  BridgeEvent(g) \/ BridgeSend(g) \/ BridgeEnds(g) \/ CertDone(g) \/ TimerSends(g)

Loop ==
  \/ HandleAcquire \/ HandleRelease \/ HandleIdle \/ HandleClose \/ StopEnds
  \/ HandleWatch \/ HandleCert \/ HandleSubscribe \/ HandleUnsubscribe

Next ==
  \/ \E u \in Users : UserStep(u) \/ StartFails(u) \/ CloseUser(u) \/ Forwarder(u)
  \/ \E g \in Gens : Producer(g)
  \/ TimerFires \/ CloseServer \/ Loop

Spec == Init /\ [][Next]_vars

(***************************************************************************)
(* Goroutines run, a timer that is not stopped fires, and the senders of a *)
(* full channel are served in turn.  Nothing is assumed of Start and Close *)
(* being called.                                                           *)
(***************************************************************************)
Fairness ==
  /\ WF_vars(Loop) /\ WF_vars(TimerFires)
  /\ \A u \in Users :
       /\ SF_vars(UserStep(u) /\ pc[u] # "new")
       /\ SF_vars(Forwarder(u))
  /\ SF_vars(\E g \in Gens : BridgeSend(g) \/ BridgeEnds(g))
  /\ SF_vars(\E g \in Gens : CertDone(g) \/ TimerSends(g))

FairSpec == Spec /\ Fairness

-----------------------------------------------------------------------------
(* Properties. *)

Serving == phase \in {"run", "idling"}

\* As long as the server is not closed, a listener or packet connection that a
\* proxy holds is the one registered for its domain on a node that is up: no
\* idle timer, however late its command is read, no failed acquire and no
\* release of another proxy takes it away.
HeldIsServed ==
  Serving => \A u \in Users : \A q \in held[u] :
     /\ rt = "node" /\ node[gen] = "up" /\ state = "running"
     /\ use[q] = Mode(Proto(u, q))
     /\ Domain(u) \in who[q]

\* Every registered domain belongs to a proxy that holds the port or has asked
\* for it or given it back and not yet been told: a failed start, a rollback
\* and a reply that is never read leave no route behind.
NoLeakedRoute ==
  \A q \in Ports : \A d \in who[q] :
     \E u \in Users :
        /\ Domain(u) = d
        /\ \/ q \in held[u]
           \/ cur[u] = q /\ pc[u] \in {"acquiring", "releasing"}

\* routeCount, which decides between idle and running, is the number of
\* registered routes, over shared and exclusive ports.
RoutesCounted ==
  /\ routeCount = Cardinality({r \in Ports \X Domains : r[2] \in who[r[1]]})
  /\ phase = "run" => (state = "running" <=> routeCount > 0)

\* The routes are counted exactly, and nodes, certificate fetches and
\* subscriptions are never doubled or left over:
\* the node of an earlier generation is stopped before the next is started, and
\* none is left when Close has returned; one node has one certificate fetch at a
\* time; the loop never sends on a subscription it has closed (which would
\* panic), and knows every one that is not closed.
ServerSound ==
  /\ TypeOK /\ RoutesCounted
  /\ \A g \in Gens : node[g] = "up" => g = gen /\ rt = "node" /\ ~done
  /\ \A g \in Gens : certs[g] <= 1
  /\ \A u \in Users : u \in subs <=> ch[u] = "open"

\* Every call of the server returns, also those that the closing loop no
\* longer reads: the loop, blocked in stopRuntime, and the producers, blocked
\* on a full channel, do not wait for each other.
CallsReturn ==
  /\ \A u \in Users :
       /\ pc[u] \in {"acquiring", "releasing"} ~> pc[u] \notin {"acquiring", "releasing"}
       /\ fw[u] \in {"subscribe", "subscribing"} ~> fw[u] \notin {"subscribe", "subscribing"}
       /\ fw[u] \in {"unsubscribe", "unsubscribing"} ~> fw[u] = "done"
  /\ closer = "sent" ~> closer = "returned"

-----------------------------------------------------------------------------
(* A statement of the code's comments that does not hold. *)

\* Close of a proxy returns, as teardownProxy expects of it: closing stopCh
\* ends the forwarder, on which Close waits.
ProxyCloseReturns == \A u \in Users : pc[u] = "join" ~> pc[u] = "closed"
=============================================================================
