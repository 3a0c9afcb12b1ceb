---------------------------- MODULE ServicesServer ----------------------------
(***************************************************************************)
(* The Tailscale node of services mode, which offers every proxy as a VIP  *)
(* service (proxyproviders/tailscale: services_server.go on top of         *)
(* eventloop.go), and its users: service_proxy.go with                     *)
(* ServicesVIPExposure, one pair per proxy.                                *)
(*                                                                         *)
(* The loop goroutine owns the runtime.  Unlike the shared server it hands *)
(* the API calls and the listening to a goroutine per acquire and release  *)
(* (a job), whose result is another command: between the two the loop      *)
(* serves others, and closing has to wait for the jobs, but not forever.   *)
(* A proxy waits for the reply to its command, so it has one job at most.  *)
(* A service is named after the hostname, of which the registry has one    *)
(* proxy (ProxyManager!OneNodePerHost): every user has a service of its    *)
(* own.                                                                    *)
(***************************************************************************)
EXTENDS Integers, Sequences, FiniteSets

CONSTANTS Users,        \* ServiceProxy objects, each started and closed once
          Ports,
          HTTPS,        \* the ports that are served with a certificate
          Configs,      \* the configurations to be looked at, see ConfigsType
          MaxGen,       \* bound: how often the node is started
          QueueCap,     \* capacity of the command channel (loopCmdBufferSize)
          None

Gens == 0 .. MaxGen - 1

\* A configuration: the ports of each user (none: it is never started), and
\* autoApproveDevices.
ASSUME ConfigsType == Configs \subseteq [wants : [Users -> SUBSET Ports],
                                         autoApprove : BOOLEAN]
ASSUME HTTPSType == HTTPS \subseteq Ports
ASSUME CapType == QueueCap \in Nat \ {0} /\ MaxGen \in Nat \ {0}

\* No reply is not one of the replies.
ASSUME NoneFresh == None \notin {"ok", "error"}

VARIABLES
  config,    \* the configuration
  queue,     \* ss.ev.cmds
  loop,      \* the loop: its phase and the variables of ss.loop
  listeners, \* rt.listeners, as the user and the port of each entry
  refCount,  \* rt.refCount
  pending,   \* rt.pendingCount
  subs,      \* rt.subs
  fetched,   \* the entries whose certificate has been asked for
  skipped,   \* those that have been looked at in vain: no local client, or a
             \* name that is empty or none of CertDomains; there is no retry
  timer,     \* idleTimer is not nil
  node,      \* the tsnet server of each generation
  bridge,    \* bridgeLifecycleEvents of each generation
  open,      \* tsnet.ServiceListeners not closed: user, port and generation
  vip,       \* the ports of each VIP service of the tailnet ({}: no service)
  job,       \* the goroutine working for each user
  usr,       \* Start and Close of each user
  fwd,       \* forwardEvents of each user
  closer,    \* ServicesServer.Close
  crashed    \* the process has panicked

runtime == <<listeners, refCount, pending, subs, fetched, skipped>>
tailnet == <<open, vip>>
nodes == <<node, bridge>>
people == <<usr, fwd, closer>>
vars == <<config, queue, loop, runtime, timer, nodes, tailnet, job, people, crashed>>

NoJob == [pc |-> "none", op |-> None, port |-> None, gen |-> -1, ports |-> {},
          factory |-> FALSE, relisten |-> FALSE, result |-> None]

TypeOK ==
  /\ config \in Configs /\ Len(queue) <= QueueCap
  /\ loop \in [phase : {"run", "drain", "idling", "closing", "exit"},
               state : {"idle", "running"}, rt : {"nil", "subs", "node"},
               running : BOOLEAN, gen : Gens, nextGen : 0 .. MaxGen]
  /\ listeners \subseteq Users \X Ports /\ fetched \subseteq Users \X Ports
  /\ skipped \subseteq Users \X Ports
  /\ refCount \in Int /\ pending \in Int
  /\ subs \subseteq Users
  /\ timer \in BOOLEAN
  /\ node \in [Gens -> {"none", "up", "stopped"}]
  /\ bridge \in [Gens -> {"none", "waiting", "done"}]
  /\ open \subseteq Users \X Ports \X Gens
  /\ vip \in [Users -> SUBSET Ports]
  /\ \A u \in Users :
       /\ job[u].pc \in {"none", "create", "listen", "approve", "wait",
                         "rollback", "api", "send"}
       /\ usr[u].pc \in {"new", "acquire", "acquiring", "up", "release",
                         "releasing", "join", "closed"}
       /\ usr[u].held \subseteq Ports /\ usr[u].todo \subseteq Ports
       /\ usr[u].stopCh \in {"nil", "open", "closed"}
       /\ fwd[u].pc \in {"none", "subscribe", "subscribing", "loop", "select",
                         "deaf", "unsubscribe", "unsubscribing", "done"}
       /\ fwd[u].ch \in {"none", "open", "closed"}
  /\ closer \in {"idle", "sent", "returned"} /\ crashed \in BOOLEAN

Init ==
  /\ config \in Configs /\ queue = <<>>
  /\ loop = [phase |-> "run", state |-> "idle", rt |-> "nil",
             running |-> FALSE, gen |-> 0, nextGen |-> 0]
  /\ listeners = {} /\ refCount = 0 /\ pending = 0 /\ subs = {}
  /\ fetched = {} /\ skipped = {}
  /\ timer = FALSE
  /\ node = [g \in Gens |-> "none"] /\ bridge = [g \in Gens |-> "none"]
  /\ open = {} /\ vip = [u \in Users |-> {}]
  /\ job = [u \in Users |-> NoJob]
  /\ usr = [u \in Users |-> [pc |-> "new", todo |-> config.wants[u], cur |-> None,
                             held |-> {}, reply |-> None, stopCh |-> "nil"]]
  /\ fwd = [u \in Users |-> [pc |-> "none", reply |-> None, ch |-> "none",
                             inbox |-> FALSE]]
  /\ closer = "idle" /\ crashed = FALSE

Done == loop.phase = "exit"           \* ss.ev.done is closed
Cmd(op, by, port, g) == [op |-> op, by |-> by, port |-> port, gen |-> g, result |-> None]

\* Into the channel, while there is room and a loop to read it.
Send(c) == ~Done /\ Len(queue) < QueueCap /\ queue' = Append(queue, c)

\* rt.ctx of a generation is canceled (a runtime made by a subscription has
\* none).
Canceled(g) == node[g] = "stopped"

-----------------------------------------------------------------------------
(* Start and Close of a proxy: ServiceProxy and ServicesVIPExposure. *)

\* A step of a proxy: nothing of the server changes but its channel.
Alive == ~crashed /\ UNCHANGED config
UserOnly == Alive /\ UNCHANGED <<loop, runtime, timer, nodes, tailnet, job, closer, crashed>>

Acquire(u, q) ==
  /\ usr[u].pc \in {"new", "acquire"} /\ q \in usr[u].todo
  /\ Send(Cmd("acquire", u, q, -1))
  /\ usr' = [usr EXCEPT ![u].pc = "acquiring", ![u].cur = q,
                        ![u].todo = @ \ {q}, ![u].reply = None]
  /\ UserOnly /\ UNCHANGED fwd

\* The context is canceled between two ports, the protocol is UDP, or the
\* server is closed: what was acquired is given back.
StartFails(u) ==
  /\ usr[u].pc \in {"new", "acquire"} /\ usr[u].todo # {}
  /\ usr' = [usr EXCEPT ![u].pc = "release", ![u].todo = {}]
  /\ UserOnly /\ UNCHANGED <<queue, fwd>>

\* SendAndWait returns: with the reply, or because the loop has exited.
Acquired(u) ==
  /\ usr[u].pc = "acquiring"
  /\ \/ /\ usr[u].reply = "ok"
        /\ usr' = [usr EXCEPT ![u].pc = "acquire", ![u].cur = None,
                              ![u].held = @ \cup {usr[u].cur}]
     \/ /\ usr[u].reply = "error" \/ Done
        /\ usr' = [usr EXCEPT ![u].pc = "release", ![u].cur = None,
                              ![u].todo = {}]
  /\ UserOnly /\ UNCHANGED <<queue, fwd>>

Started(u) ==
  /\ usr[u].pc = "acquire" /\ usr[u].todo = {}
  /\ usr' = [usr EXCEPT ![u].pc = "up", ![u].stopCh = "open"]
  /\ fwd' = [fwd EXCEPT ![u].pc = "subscribe"]
  /\ UserOnly /\ UNCHANGED queue

CloseUser(u) ==
  /\ usr[u].pc = "up"
  /\ usr' = [usr EXCEPT ![u].pc = "release"]
  /\ UserOnly /\ UNCHANGED <<queue, fwd>>

\* rollbackAcquired, one port; a closed server has nothing to release.
Release(u, q) ==
  /\ usr[u].pc = "release" /\ q \in usr[u].held
  /\ \/ /\ Send(Cmd("release", u, q, -1))
        /\ usr' = [usr EXCEPT ![u].pc = "releasing", ![u].cur = q,
                              ![u].held = @ \ {q}, ![u].reply = None]
     \/ /\ Done /\ UNCHANGED queue
        /\ usr' = [usr EXCEPT ![u].held = @ \ {q}]
  /\ UserOnly /\ UNCHANGED fwd

Released(u) ==
  /\ usr[u].pc = "releasing"
  /\ usr[u].reply # None \/ Done
  /\ usr' = [usr EXCEPT ![u].pc = "release", ![u].cur = None]
  /\ UserOnly /\ UNCHANGED <<queue, fwd>>

\* Everything is given back: a started proxy closes stopCh, sets the field to
\* nil and waits for its forwarder.
StopForwarder(u) ==
  /\ usr[u].pc = "release" /\ usr[u].held = {}
  /\ LET up == usr[u].stopCh = "open"
     IN usr' = [usr EXCEPT ![u].pc = IF up THEN "join" ELSE "closed",
                           ![u].stopCh = IF up THEN "closed" ELSE "nil"]
  /\ UserOnly /\ UNCHANGED <<queue, fwd>>

Closed(u) ==
  /\ usr[u].pc = "join" /\ fwd[u].pc = "done"
  /\ usr' = [usr EXCEPT ![u].pc = "closed"]
  /\ UserOnly /\ UNCHANGED <<queue, fwd>>

-----------------------------------------------------------------------------
(* forwardEvents. *)

\* SubscribeEvents and UnsubscribeEvents: send the command and wait for the
\* reply, or find the loop gone.
Call(u, from, op, waiting, to) ==
  \/ /\ fwd[u].pc = from
     /\ \/ Send(Cmd(op, u, None, -1)) /\ fwd' = [fwd EXCEPT ![u].pc = waiting]
        \/ Done /\ fwd' = [fwd EXCEPT ![u].pc = "done"] /\ UNCHANGED queue
  \/ /\ fwd[u].pc = waiting
     /\ \/ fwd[u].reply = "ok" /\ fwd' = [fwd EXCEPT ![u].pc = to, ![u].reply = None]
        \/ Done /\ fwd' = [fwd EXCEPT ![u].pc = "done", ![u].reply = None]
     /\ UNCHANGED queue

SubscribeEvents(u) ==
  Call(u, "subscribe", "subscribe", "subscribing", "loop") /\ UserOnly /\ UNCHANGED usr

UnsubscribeEvents(u) ==
  Call(u, "unsubscribe", "unsubscribe", "unsubscribing", "done") /\ UserOnly /\ UNCHANGED usr

\* The select reads the field p.stopCh without p.mtx: the closed channel, or
\* nil, which is never ready, when Close has reset it.
EnterSelect(u) ==
  /\ fwd[u].pc = "loop"
  /\ \E to \in {"select"} \cup IF usr[u].stopCh = "open" THEN {} ELSE {"deaf"} :
       fwd' = [fwd EXCEPT ![u].pc = to]
  /\ UserOnly /\ UNCHANGED <<queue, usr>>

\* An event, the end of the subscription, or the end of the proxy.
Select(u) ==
  /\ fwd[u].pc \in {"select", "deaf"}
  /\ \/ /\ fwd[u].inbox
        /\ fwd' = [fwd EXCEPT ![u].pc = "loop", ![u].inbox = FALSE]
     \/ /\ \/ ~fwd[u].inbox /\ fwd[u].ch = "closed"
           \/ fwd[u].pc = "select" /\ usr[u].stopCh = "closed"
        /\ fwd' = [fwd EXCEPT ![u].pc = "unsubscribe", ![u].inbox = FALSE]
  /\ UserOnly /\ UNCHANGED <<queue, usr>>

-----------------------------------------------------------------------------
(* The jobs: acquireServiceAsync and releaseServiceAsync. *)

JobOnly == Alive /\ UNCHANGED <<loop, runtime, timer, nodes, fwd, closer>>
Step(u, to) == job' = [job EXCEPT ![u].pc = to]
Fail(u) == job' = [job EXCEPT ![u].pc = "send", ![u].result = "error"]
Lis(u) == <<u, job[u].port, job[u].gen>>
Aborted(u) == job[u].factory /\ Canceled(job[u].gen)

\* createOrUpdateVIPService, or deleteVIPService when no port is left, has
\* succeeded.
Put(s, ports) == vip' = [vip EXCEPT ![s] = ports]

\* createOrUpdateVIPServiceProd (with its retries) after reconcileServiceHostname.
CreateService(u) ==
  /\ job[u].pc = "create"
  /\ \/ Put(u, job[u].ports) /\ Step(u, "listen")
     \/ Fail(u) /\ UNCHANGED vip
  /\ JobOnly /\ UNCHANGED <<queue, open, usr, crashed>>

\* factory.ListenService, the first time or again after the approval.  The
\* factory of a runtime that a subscription has made is nil.
ListenService(u) ==
  /\ job[u].pc = "listen"
  /\ IF ~job[u].factory
     THEN crashed' = TRUE /\ UNCHANGED <<open, job>>
     ELSE /\ UNCHANGED crashed
          /\ \/ /\ ~Aborted(u)
                /\ open' = open \cup {Lis(u)}
                /\ job' = [job EXCEPT ![u].result = "ok", ![u].pc =
                     IF config.autoApprove /\ ~job[u].relisten THEN "approve" ELSE "send"]
             \/ Step(u, "rollback") /\ UNCHANGED open
  /\ JobOnly /\ UNCHANGED <<queue, vip, usr>>

\* approveServiceDeviceForServer: a failure is only logged; after a success the
\* listener is closed, to be opened again.
Approve(u) ==
  /\ job[u].pc = "approve"
  /\ \/ Step(u, "send") /\ UNCHANGED open
     \/ /\ open' = open \ {Lis(u)}
        /\ job' = [job EXCEPT ![u].pc = "wait", ![u].result = None]
  /\ JobOnly /\ UNCHANGED <<queue, vip, usr, crashed>>

\* approvalReadvertiseDelay, or the runtime is stopped.
Readvertise(u) ==
  /\ job[u].pc = "wait"
  /\ \/ job' = [job EXCEPT ![u].pc = "listen", ![u].relisten = TRUE]
     \/ Aborted(u) /\ Fail(u)
  /\ JobOnly /\ UNCHANGED <<queue, tailnet, usr, crashed>>

\* The ports of a service among the listeners, with one that is being acquired,
\* and without one.
collectExistingServicePorts(ls, u) == {q \in Ports : <<u, q>> \in ls}
collectServicePorts(u, q) == {q} \cup collectExistingServicePorts(listeners, u)
withoutPort(ports, q) == ports \ {q}

\* Mutant of Rollback: the service is deleted whatever ports it has.
RollbackAll(u) ==
  /\ job[u].pc = "rollback"
  /\ Fail(u)
  /\ Put(u, {}) \/ UNCHANGED vip
  /\ JobOnly /\ UNCHANGED <<queue, open, usr, crashed>>

\* rollbackVIPServiceOnListenFailure: the other ports known when the acquire
\* was accepted are left; a failing call is only logged.
Rollback(u) ==
  /\ job[u].pc = "rollback"
  /\ Fail(u)
  /\ Put(u, withoutPort(job[u].ports, job[u].port)) \/ UNCHANGED vip
  /\ JobOnly /\ UNCHANGED <<queue, open, usr, crashed>>

\* releaseServiceAsync up to its result.
ReleaseService(u) ==
  /\ job[u].pc = "api"
  /\ Step(u, "send")
  /\ Put(u, job[u].ports) \/ UNCHANGED vip
  /\ JobOnly /\ UNCHANGED <<queue, open, usr, crashed>>

\* sendProducer and what the job does when it is refused.  Once the loop has
\* exited the channel may still take the result, which then nobody reads.
SendResult(u) ==
  /\ job[u].pc = "send"
  /\ job' = [job EXCEPT ![u] = NoJob]
  /\ LET refused == /\ open' = open \ {Lis(u)}
                    /\ usr' = [usr EXCEPT ![u].reply =
                                 IF job[u].op = "acquire" THEN "error" ELSE "ok"]
         done == IF job[u].op = "acquire" THEN "acquired" ELSE "released"
     IN \/ /\ Send([Cmd(done, u, job[u].port, job[u].gen)
                      EXCEPT !.result = job[u].result])
           /\ UNCHANGED <<open, usr>>
        \/ (Aborted(u) \/ Done) /\ refused /\ UNCHANGED queue
        \/ Done /\ UNCHANGED <<queue, open, usr>>
  /\ JobOnly /\ UNCHANGED <<vip, crashed>>

Job(u) == \/ CreateService(u) \/ ListenService(u) \/ Approve(u) \/ Readvertise(u)
          \/ Rollback(u) \/ ReleaseService(u) \/ SendResult(u)

-----------------------------------------------------------------------------
(* Producers: the bridge, Close. *)

Outside == Alive /\ UNCHANGED <<runtime, tailnet, job, usr, fwd, crashed>>

\* An event of the node goes into the channel; one that the bridge has read
\* before the context is canceled may do so after.  Bound: one event in the
\* channel at a time (the node is polled every few seconds).
BridgeSend(g) ==
  /\ bridge[g] = "waiting"
  /\ \A i \in 1 .. Len(queue) : queue[i].op # "watch"
  /\ Send(Cmd("watch", None, None, g))
  /\ Outside /\ UNCHANGED <<loop, timer, nodes, closer>>

\* lifecycle.Close has closed the event channel, and a blocked send is given up.
BridgeEnds(g) ==
  /\ bridge[g] = "waiting" /\ Canceled(g)
  /\ bridge' = [bridge EXCEPT ![g] = "done"]
  /\ Outside /\ UNCHANGED <<queue, loop, timer, node, closer>>

CloseServer ==
  /\ closer = "idle"
  /\ Send(Cmd("close", None, None, -1)) /\ closer' = "sent"
  /\ Outside /\ UNCHANGED <<loop, timer, nodes>>

-----------------------------------------------------------------------------
(* The loop. *)

C == Head(queue)
Take(op) == /\ Alive /\ loop.phase = "run" /\ queue # <<>> /\ C.op = op
            /\ queue' = Tail(queue)
Reply(u, r) == usr' = [usr EXCEPT ![u].reply = r]
Entry == <<C.by, C.port>>

\* stopRuntime up to the wait for the bridge: listeners are closed and their
\* services deleted (any of the calls may fail), then the node is closed.
StopBegins(phase, l) ==
  /\ loop' = [loop EXCEPT !.phase = phase, !.state = "idle"]
  /\ listeners' = {} /\ refCount' = 0 /\ pending' = 0
  /\ fetched' = {} /\ skipped' = {}
  /\ node' = IF l = "node" THEN [node EXCEPT ![loop.gen] = "stopped"] ELSE node
  /\ open' = {o \in open : o[3] # loop.gen}
  /\ \E deleted \in SUBSET {e[1] : e \in listeners} :
       vip' = [u \in Users |-> IF u \in deleted THEN {} ELSE vip[u]]

\* Mutant of MaybeIdle: the jobs are not looked at.
MaybeIdleHasty(refs, jobs) ==
  IF refs <= 0
  THEN StopBegins("idling", loop.rt)
  ELSE /\ refCount' = refs /\ pending' = jobs
       /\ UNCHANGED <<loop, listeners, fetched, skipped, node, tailnet>>

\* maybeTransitionToIdle, with the counts the handler has come to.
MaybeIdle(refs, jobs) ==
  IF refs <= 0 /\ jobs <= 0
  THEN StopBegins("idling", loop.rt)
  ELSE /\ refCount' = refs /\ pending' = jobs
       /\ UNCHANGED <<loop, listeners, fetched, skipped, node, tailnet>>

\* The idle timer is started after a release if the server is idle and has a
\* runtime; every command but a subscription or an event has stopped it.
Reschedule ==
  timer' = (loop'.phase = "run" /\ loop'.state = "idle" /\ loop'.rt # "nil")

\* startRuntimeWithLifecycle has succeeded: a node of the next generation and its
\* bridge.
StartRuntime ==
  /\ loop.nextGen < MaxGen
  /\ loop' = [loop EXCEPT !.state = "running", !.rt = "node", !.gen = loop.nextGen,
                          !.nextGen = @ + 1, !.running = FALSE]
  /\ node' = [node EXCEPT ![loop.nextGen] = "up"]
  /\ bridge' = [bridge EXCEPT ![loop.nextGen] = "waiting"]

\* handleAcquireService: an idle server starts its node, unless there is a
\* runtime already, whatever that consists of.
HandleAcquire ==
  /\ Take("acquire")
  /\ timer' = FALSE
  /\ \/ /\ loop.state = "idle" /\ loop.rt = "nil"       \* start failed
        /\ Reply(C.by, "error")
        /\ UNCHANGED <<loop, nodes, runtime, job>>
     \/ /\ IF loop.state = "idle" /\ loop.rt = "nil"
           THEN StartRuntime
           ELSE loop' = [loop EXCEPT !.state = "running"] /\ UNCHANGED nodes
        /\ IF Entry \in listeners
           THEN Reply(C.by, "error") /\ UNCHANGED <<job, pending>>
           ELSE /\ pending' = pending + 1
                /\ job' = [job EXCEPT ![C.by] =
                     [NoJob EXCEPT !.pc = "create", !.op = "acquire",
                        !.port = C.port, !.gen = loop'.gen,
                        !.factory = loop'.rt = "node",
                        !.ports = collectServicePorts(C.by, C.port)]]
                /\ UNCHANGED usr
        /\ UNCHANGED <<listeners, refCount, subs, fetched, skipped>>
  /\ UNCHANGED <<tailnet, fwd, closer, crashed>>

\* prefetchCerts and prefetchCertForService, of the entries in S: a runtime
\* without a node has no domains.
Prefetch(S) ==
  \E known \in SUBSET {e \in S : e[2] \in HTTPS /\ loop.rt = "node"} :
    /\ fetched' = fetched \cup known
    /\ skipped' = skipped \cup ({e \in S : e[2] \in HTTPS} \ known)

\* The entry is gone.
Forget == fetched' = fetched \ {Entry} /\ skipped' = skipped \ {Entry}

\* Mutant of HandleAcquired: a runtime that is already running asks for no
\* certificate.
HandleAcquiredPlain ==
  /\ Take("acquired")
  /\ timer' = FALSE
  /\ \/ /\ C.result = "ok"
        /\ listeners' = listeners \cup {Entry} /\ refCount' = refCount + 1
        /\ pending' = pending - 1 /\ UNCHANGED <<fetched, skipped, node, tailnet>>
        /\ loop' = [loop EXCEPT !.state = "running"]
        /\ Reply(C.by, "ok")
     \/ C.result # "ok" /\ Reply(C.by, "error") /\ MaybeIdle(refCount, pending - 1)
  /\ UNCHANGED <<subs, bridge, job, fwd, closer, crashed>>

\* handleAcquireWorkResult: nothing is done for a runtime that is gone.
HandleAcquired ==
  /\ Take("acquired")
  /\ timer' = FALSE
  /\ IF loop.rt = "nil" \/ C.gen # loop.gen
     THEN /\ pending' = IF loop.rt = "nil" THEN pending ELSE pending - 1
          /\ open' = IF loop.rt = "nil" THEN open ELSE open \ {<<C.by, C.port, C.gen>>}
          /\ Reply(C.by, "error")
          /\ UNCHANGED <<loop, listeners, refCount, fetched, skipped, node, vip>>
     ELSE \/ /\ C.result = "ok" /\ Entry \notin listeners
             /\ listeners' = listeners \cup {Entry} /\ refCount' = refCount + 1
             /\ Prefetch(IF loop.running THEN {Entry} ELSE {})
             /\ loop' = [loop EXCEPT !.state = "running"]
             /\ pending' = pending - 1 /\ UNCHANGED <<node, tailnet>>
             /\ Reply(C.by, "ok")
          \/ /\ C.result # "ok"
             /\ Reply(C.by, "error") /\ MaybeIdle(refCount, pending - 1)
  /\ UNCHANGED <<subs, bridge, job, fwd, closer, crashed>>

\* Mutant of HandleRelease: the listener stays open.
HandleReleaseOpen ==
  /\ Take("release")
  /\ listeners' = listeners \ {Entry} /\ refCount' = refCount - 1
  /\ pending' = pending + 1 /\ Forget
  /\ job' = [job EXCEPT ![C.by] =
       [NoJob EXCEPT !.pc = "api", !.op = "release", !.port = C.port,
          !.gen = loop.gen, !.factory = TRUE,
          !.ports = collectExistingServicePorts(listeners', C.by)]]
  /\ UNCHANGED <<loop, usr, open, timer, subs, nodes, vip, fwd, closer, crashed>>

\* handleReleaseService: the listener is closed at once, the service is left to
\* a job.
HandleRelease ==
  /\ Take("release")
  /\ IF loop.state = "running" /\ Entry \in listeners
     THEN /\ listeners' = listeners \ {Entry} /\ refCount' = refCount - 1
          /\ pending' = pending + 1 /\ Forget
          /\ open' = open \ {<<C.by, C.port, loop.gen>>}
          /\ job' = [job EXCEPT ![C.by] =
               [NoJob EXCEPT !.pc = "api", !.op = "release", !.port = C.port,
                  !.gen = loop.gen, !.factory = loop.rt = "node",
                  !.ports = collectExistingServicePorts(listeners', C.by)]]
          /\ UNCHANGED <<loop, usr>>
     ELSE /\ Reply(C.by, "ok")
          /\ loop' = IF refCount <= 0 THEN [loop EXCEPT !.state = "idle"] ELSE loop
          /\ UNCHANGED <<listeners, refCount, pending, fetched, skipped, open, job>>
  /\ Reschedule
  /\ UNCHANGED <<subs, nodes, vip, fwd, closer, crashed>>

\* handleReleaseWorkResult.
HandleReleased ==
  /\ Take("released")
  /\ Reply(C.by, "ok")
  /\ IF loop.rt = "nil" \/ C.gen # loop.gen
     THEN /\ pending' = IF loop.rt = "nil" THEN pending ELSE pending - 1
          /\ UNCHANGED <<loop, listeners, refCount, fetched, skipped, node, tailnet>>
     ELSE MaybeIdle(refCount, pending - 1)
  /\ Reschedule
  /\ UNCHANGED <<subs, bridge, job, fwd, closer, crashed>>

\* handleClose: with jobs under way, their results are waited for.
HandleClose ==
  /\ Take("close")
  /\ timer' = FALSE
  /\ CASE loop.rt = "nil" ->
            /\ loop' = [loop EXCEPT !.phase = "exit"] /\ closer' = "returned"
            /\ UNCHANGED <<runtime, node, tailnet>>
       [] loop.rt # "nil" /\ pending > 0 ->
            /\ loop' = [loop EXCEPT !.phase = "drain"]
            /\ UNCHANGED <<closer, runtime, node, tailnet>>
       [] OTHER -> StopBegins("closing", loop.rt) /\ UNCHANGED <<closer, subs>>
  /\ UNCHANGED <<bridge, job, usr, fwd, crashed>>

\* A command read while Close waits: a result counts down and its listener is
\* closed; the others are answered, a subscription with a channel that nobody
\* knows of.
Drain ==
  /\ Alive
  /\ loop.phase = "drain" /\ queue # <<>> /\ pending > 0
  /\ queue' = Tail(queue)
  /\ pending' = IF C.op \in {"acquired", "released"} THEN pending - 1 ELSE pending
  /\ open' = IF C.op = "acquired" THEN open \ {<<C.by, C.port, C.gen>>} ELSE open
  /\ CASE C.op \in {"acquire", "acquired"} -> Reply(C.by, "error") /\ UNCHANGED fwd
       [] C.op \in {"release", "released"} -> Reply(C.by, "ok") /\ UNCHANGED fwd
       [] C.op = "subscribe" -> /\ fwd' = [fwd EXCEPT ![C.by].reply = "ok",
                                                      ![C.by].ch = "open"]
                                /\ UNCHANGED usr
       [] C.op = "unsubscribe" -> /\ fwd' = [fwd EXCEPT ![C.by].reply = "ok"]
                                  /\ UNCHANGED usr
       [] OTHER -> UNCHANGED <<usr, fwd>>
  /\ UNCHANGED <<loop, listeners, refCount, subs, fetched, skipped, timer, nodes, vip,
                 job, closer, crashed>>

\* The last result has been read, or closeDrainTimeout is over.
DrainEnds ==
  /\ Alive
  /\ loop.phase = "drain"
  /\ StopBegins("closing", loop.rt)
  /\ UNCHANGED <<queue, subs, timer, bridge, job, people, crashed>>

\* stopRuntime, the rest: the bridge has ended, the subscriptions are closed.
StopEnds ==
  /\ Alive
  /\ loop.phase \in {"idling", "closing"}
  /\ loop.rt = "node" => bridge[loop.gen] = "done"
  /\ subs' = {}
  /\ fwd' = [u \in Users |-> IF u \in subs THEN [fwd[u] EXCEPT !.ch = "closed"]
                                           ELSE fwd[u]]
  /\ LET exits == loop.phase = "closing"
     IN /\ loop' = [loop EXCEPT !.phase = IF exits THEN "exit" ELSE "run",
                                !.rt = "nil", !.running = FALSE]
        /\ queue' = IF exits THEN <<>> ELSE queue
        /\ closer' = IF exits THEN "returned" ELSE closer
  /\ UNCHANGED <<listeners, refCount, pending, fetched, skipped, timer, nodes, tailnet,
                 job, usr, crashed>>

\* handleWatchUpdate: the first event that says Running asks for the
\* certificates (prefetchCerts); the subscribers get it.  The command does not
\* say which node it comes from.
HandleWatch ==
  /\ Take("watch")
  /\ IF loop.rt = "nil" THEN UNCHANGED <<loop, fetched, skipped, fwd>>
     ELSE /\ fwd' = [u \in Users |-> IF u \in subs
                       THEN [fwd[u] EXCEPT !.inbox = TRUE] ELSE fwd[u]]
          /\ \/ UNCHANGED <<loop, fetched, skipped>>
             \/ /\ ~loop.running
                /\ loop' = [loop EXCEPT !.running = TRUE]
                /\ Prefetch(listeners)
  /\ UNCHANGED <<listeners, refCount, pending, subs, timer, nodes, tailnet,
                 job, usr, closer, crashed>>

\* handleSubscribe: without a runtime one is made that has only subscribers.
HandleSubscribe ==
  /\ Take("subscribe")
  /\ loop' = IF loop.rt = "nil" THEN [loop EXCEPT !.rt = "subs", !.gen = 0] ELSE loop
  /\ subs' = subs \cup {C.by}
  /\ fwd' = [fwd EXCEPT ![C.by].reply = "ok", ![C.by].ch = "open"]
  /\ UNCHANGED <<listeners, refCount, pending, fetched, skipped, timer, nodes, tailnet,
                 job, usr, closer, crashed>>

HandleUnsubscribe ==
  /\ Take("unsubscribe")
  /\ subs' = subs \ {C.by}
  /\ fwd' = [fwd EXCEPT ![C.by].reply = "ok",
                        ![C.by].ch = IF C.by \in subs THEN "closed" ELSE @]
  /\ UNCHANGED <<loop, listeners, refCount, pending, fetched, skipped, timer, nodes,
                 tailnet, job, usr, closer, crashed>>

-----------------------------------------------------------------------------
UserStep(u) ==
  \/ \E q \in Ports : Acquire(u, q) \/ Release(u, q)
  \/ Acquired(u) \/ Started(u) \/ Released(u) \/ StopForwarder(u) \/ Closed(u)

Forwarder(u) ==
  SubscribeEvents(u) \/ UnsubscribeEvents(u) \/ EnterSelect(u) \/ Select(u)

Producer(g) == BridgeSend(g) \/ BridgeEnds(g)

Loop ==
  \/ HandleAcquire \/ HandleAcquired \/ HandleRelease \/ HandleReleased
  \/ HandleClose \/ Drain \/ DrainEnds \/ StopEnds
  \/ HandleWatch \/ HandleSubscribe \/ HandleUnsubscribe

Next ==
  \/ \E u \in Users : \/ UserStep(u) \/ StartFails(u) \/ CloseUser(u)
                       \/ Forwarder(u) \/ Job(u)
  \/ \E g \in Gens : Producer(g)
  \/ CloseServer \/ Loop

Spec == Init /\ [][Next]_vars

-----------------------------------------------------------------------------
(* Properties. *)

\* As long as the server is not closed, a port that a proxy holds has an open
\* listener on a running node, and its VIP service offers it: no late result,
\* rollback, release of another port or start of another node takes it away.
HeldIsOffered ==
  loop.phase \in {"run", "idling"} => \A u \in Users : \A q \in usr[u].held :
     /\ loop.rt = "node" /\ node[loop.gen] = "up" /\ loop.state = "running"
     /\ <<u, q>> \in listeners /\ <<u, q, loop.gen>> \in open
     /\ q \in vip[u]

\* No listener is open but those of the runtime and of a job or a result on
\* its way to it.
NoLeakedListener ==
  \A o \in open :
     \/ <<o[1], o[2]>> \in listeners /\ o[3] = loop.gen
     \/ job[o[1]].port = o[2] /\ job[o[1]].gen = o[3]
     \/ \E i \in 1 .. Len(queue) : /\ queue[i].op = "acquired"
                                  /\ queue[i].by = o[1] /\ queue[i].port = o[2]

\* pendingCount is the number of jobs of the runtime whose result has not been
\* read, so that neither the change to idle nor Close overlooks one; and a node
\* that serves nobody is on its way to be stopped: there is a job whose result
\* will look again, so the idle timer is never started.
JobsCounted ==
  /\ TypeOK /\ ~timer
  /\ loop.phase \in {"run", "drain"} =>
       pending = Cardinality({u \in Users : job[u].pc # "none"})
                 + Cardinality({i \in 1 .. Len(queue) : queue[i].op \in {"acquired", "released"}})
  /\ loop.phase = "run" /\ loop.rt = "node" => refCount > 0 \/ pending > 0

\* While the node runs, every service with HTTPS has been looked at since both
\* came up, whichever came first, and so has nothing else: its certificate has
\* been asked for, or its name was not one that the node has certificates for.
CertsAskedFor ==
  /\ loop.phase = "run" /\ loop.running =>
       {e \in listeners : e[2] \in HTTPS} = fetched \cup skipped
  /\ ~loop.running \/ loop.phase \in {"idling", "closing"} =>
       fetched \cup skipped = {}

-----------------------------------------------------------------------------
(* A statement of the documentation that does not hold. *)

\* Acquire returns a listener or an error: the program does not panic.
NoPanic == ~crashed
=============================================================================
