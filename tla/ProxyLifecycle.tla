---------------------------- MODULE ProxyLifecycle ----------------------------
(***************************************************************************)
(* One proxy from Start to Close (internal/proxymanager/proxy.go,          *)
(* proxyports.go, the goroutines of health.go and of the port handlers)    *)
(* on a Tailscale node of its own (proxyproviders/tailscale: proxy.go,     *)
(* node_lifecycle.go, status_watcher.go and PerProxyExposure).             *)
(*                                                                         *)
(* "start" is the goroutine that calls Start, "close" the one that calls   *)
(* teardownProxy, "admin" the dashboard or API requests that call Pause    *)
(* and Resume (withCurrentProxy lets one of them in at a time).  opMu is   *)
(* the only lock held across steps; a critical section of mtx is one step. *)
(* That Start can also be called after Close is ProxyManager's subject:    *)
(* here Start is called first.                                             *)
(***************************************************************************)
EXTENDS Naturals, Sequences, FiniteSets

CONSTANTS Ports,       \* the port names of Config.Ports
          Configs,     \* the Config.Ports to be looked at: a kind per port
          MaxGen,      \* bound: how often initPorts is called
          Backends,    \* the statuses of the node to be looked at
          EventBuf,    \* proxyEventBufferSize
          None

\* HTTPS with the node's certificate or with that of a custom domain.
Kinds == {"http", "https", "custom", "tcp", "udp"}

ASSUME PortsFinite == IsFiniteSet(Ports)
ASSUME ConfigsType == Configs \subseteq [Ports -> Kinds]
\* What classifyState makes of a backend state.
Reported == {"Starting", "Authenticating", "AuthFailed", "AwaitingApproval",
             "Running", "Stopped", "Error"}
ASSUME BackendsType == Backends \subseteq Reported /\ "Running" \in Backends

ASSUME BoundsNat == MaxGen \in Nat \ {0} /\ EventBuf \in Nat \ {0}
ASSUME NoneFresh == None \notin {"start", "close", "admin"}

Procs == {"start", "close", "admin"}
Gens == 1 .. MaxGen
Handlers == Ports \X Gens    \* a port handler made by the n-th initPorts

VARIABLES
  kind,      \* the kind of each port, fixed by NewProxy
  opMu,      \* who holds proxy.opMu
  ctxDone,   \* proxy.ctx is canceled
  paused,    \* proxy.paused
  status,    \* proxy.status
  urlReady,  \* proxy.urlReady is closed
  ports,     \* proxy.ports: which initPorts its handlers come from, 0: empty
  gen,       \* how often initPorts has been called
  handler,   \* of each port handler: how far close() has come
  jobs,      \* goroutines of startPort that have not entered startWithListener
  serving,   \* goroutines of a handler that are in Serve or in the accept loop
  checker,   \* of each health checker (named like the handlers of its time)
  health,    \* proxy.health
  up,        \* the "proxy up" metric: "unknown" (-1), "up" or "down"
  reader,    \* the goroutine of Start that reads provider events
  queue,     \* tailscale Proxy.events
  node,      \* the Tailscale node: its status while it is up
  bridge,    \* status, url and authURL of the tailscale Proxy; whether the
             \* event of that status was dropped and is not sent again
  started,   \* tailscale Proxy.started, PerProxyExposure.started
  listener,  \* the listener PerProxyExposure has made for each port
  pc, todo, failed

op == <<pc, todo, failed>>
flags == <<paused, status>>
handlers == <<ports, gen, handler, jobs, serving>>
checks == <<checker, health, up>>
events == <<reader, queue, urlReady>>
provider == <<node, bridge, started, listener>>
vars == <<kind, opMu, ctxDone, flags, handlers, checks, events, provider, op>>

Statuses == Reported \cup {"Initializing", "Stopping", "Paused"}
PCs == {"idle", "lifecycle", "expose", "listen", "returned", "failed",
        "health", "wait", "ports", "shut", "drain", "init", "lock"}

\* The ports whose listener ListenTLS makes.
TLSPorts == {p \in Ports : kind[p] \in {"https", "custom"}}
UDPPorts == {p \in Ports : kind[p] = "udp"}
\* A custom domain wants a raw listener, and PerProxyExposure has such a
\* listener for TCP ports only.
Unlistenable == {p \in Ports : kind[p] = "custom"}

TypeOK ==
  /\ kind \in [Ports -> Kinds]
  /\ opMu \in Procs \cup {None}
  /\ ctxDone \in BOOLEAN /\ paused \in BOOLEAN /\ urlReady \in BOOLEAN
  /\ started \in BOOLEAN
  /\ status \in Statuses
  /\ ports \in Gens \cup {0}
  /\ gen \in Gens
  /\ handler \in [Handlers -> {"none", "live", "shut", "canceled"}]
  /\ jobs \in [Handlers -> Nat]
  /\ serving \in [Handlers -> Nat]
  /\ checker \in [Gens -> {"none", "running", "canceled", "done"}]
  /\ health \in Gens \cup {0}
  /\ up \in {"unknown", "up", "down"}
  /\ reader \in {"none", "reading", "done"}
  /\ queue \in Seq(Statuses)
  /\ node \in Backends \cup {"off", "closed"}
  /\ bridge \in [status : Statuses, url : BOOLEAN, auth : BOOLEAN, lost : BOOLEAN]
  /\ listener \in [Ports -> {"none", "open", "closed"}]
  /\ pc \in [Procs -> PCs]
  /\ todo \in [Procs -> SUBSET Ports]
  /\ failed \in [Procs -> SUBSET Ports]

\* NewProxy: the context, the zero status, the handlers of initPorts.
Init ==
  /\ kind \in Configs
  /\ opMu = None
  /\ ctxDone = FALSE /\ paused = FALSE /\ urlReady = FALSE /\ started = FALSE
  /\ status = "Initializing"
  /\ ports = 1
  /\ gen = 1
  /\ handler = [h \in Handlers |-> IF h[2] = 1 THEN "live" ELSE "none"]
  /\ jobs = [h \in Handlers |-> 0]
  /\ serving = [h \in Handlers |-> 0]
  /\ checker = [g \in Gens |-> "none"]
  /\ health = 0
  /\ up = "unknown"
  /\ reader = "none"
  /\ queue = <<>>
  /\ node = "off"
  /\ bridge = [status |-> "Initializing", url |-> FALSE, auth |-> FALSE,
               lost |-> FALSE]
  /\ listener = [p \in Ports |-> "none"]
  /\ pc = [q \in Procs |-> "idle"]
  /\ todo = [q \in Procs |-> {}]
  /\ failed = [q \in Procs |-> {}]

Goto(q, l) == pc' = [pc EXCEPT ![q] = l]
Loop(q, l, S) == Goto(q, l) /\ todo' = [todo EXCEPT ![q] = S]

\* setStatus: a repeated status, and any but Paused while paused, is ignored.
AfterSetStatus(s) ==
  IF status = s \/ (paused /\ s # "Paused") THEN status ELSE s

-----------------------------------------------------------------------------
(* Start, phase 1: under opMu. *)

StartLock ==
  /\ pc["start"] = "idle"
  /\ pc["close"] \in {"idle", "lock"}
  /\ opMu = None
  /\ opMu' = "start"
  /\ Goto("start", "lifecycle")
  /\ UNCHANGED <<kind, ctxDone, flags, handlers, checks, events, provider,
                 todo, failed>>

StartFails ==
  /\ opMu' = None
  /\ Loop("start", "failed", {})

\* NodeLifecycle.Start: the node waits for its user, or has a valid key; or it
\* does not come up (ResolveKey, startWithRetry, LocalClient).
LifecycleStart ==
  /\ pc["start"] = "lifecycle"
  /\ \/ /\ node' \in Backends
        /\ Loop("start", "expose", Ports)
        /\ UNCHANGED opMu
     \/ StartFails /\ UNCHANGED node
  /\ UNCHANGED <<kind, ctxDone, flags, handlers, checks, events, bridge,
                 started, listener, failed>>

\* PerProxyExposure.Start, one port: "tsnet.ListenTLS calls s.Up() which waits
\* for the node to reach Running state".  An error closes everything again.
Expose(p) ==
  /\ pc["start"] = "expose"
  /\ p \in todo["start"]
  /\ \/ /\ p \in TLSPorts => node = "Running"
        /\ listener' = [listener EXCEPT ![p] = "open"]
        /\ todo' = [todo EXCEPT !["start"] = @ \ {p}]
        /\ UNCHANGED <<opMu, node, pc>>
     \/ /\ listener' = [q \in Ports |->
                          IF listener[q] = "open" THEN "closed" ELSE listener[q]]
        /\ node' = "closed"
        /\ StartFails
  /\ UNCHANGED <<kind, ctxDone, flags, handlers, checks, events, bridge,
                 started, failed>>

\* The provider is up: bridgeEvents, the health checker and the reader of
\* provider events are started; opMu is released.
ProviderStarted ==
  /\ pc["start"] = "expose"
  /\ todo["start"] = {}
  /\ started' = TRUE
  /\ checker' = [checker EXCEPT ![1] = "running"]
  /\ health' = 1
  /\ up' = "unknown"
  /\ reader' = "reading"
  /\ opMu' = None
  /\ Loop("start", "listen", Ports)
  /\ UNCHANGED <<kind, ctxDone, flags, handlers, queue, urlReady, node, bridge,
                 listener, failed>>

-----------------------------------------------------------------------------
(* startListeners (without opMu) and the loop of Resume (with it). *)

AllFailed(q) == failed[q] # {} /\ failed[q] = Ports

\* One port: getListenerForPort or GetPacketConn, then startPort looks the
\* handler up and leaves it to a new goroutine; without a handler a packet
\* connection is closed and a listener is dropped.
StartPort(q, p) ==
  /\ pc[q] = "listen"
  /\ p \in todo[q]
  /\ todo' = [todo EXCEPT ![q] = @ \ {p}]
  /\ IF ~started \/ p \in Unlistenable
     THEN /\ failed' = [failed EXCEPT ![q] = @ \cup {p}]
          /\ UNCHANGED <<jobs, listener>>
     ELSE /\ IF ports # 0
             THEN /\ jobs' = [jobs EXCEPT ![<<p, ports>>] = @ + 1]
                  /\ UNCHANGED listener
             ELSE /\ listener' = [listener EXCEPT ![p] =
                                    IF p \in UDPPorts THEN "closed" ELSE @]
                  /\ UNCHANGED jobs
          /\ UNCHANGED failed
  /\ UNCHANGED <<kind, opMu, ctxDone, flags, ports, gen, handler, serving,
                 checks, events, node, bridge, started, pc>>

StartReturns ==
  /\ pc["start"] = "listen"
  /\ todo["start"] = {}
  /\ Goto("start", IF AllFailed("start") THEN "failed" ELSE "returned")
  /\ UNCHANGED <<kind, opMu, ctxDone, flags, handlers, checks, events,
                 provider, todo, failed>>

-----------------------------------------------------------------------------
(* Pause. *)

\* The checks; a refused request returns.
PauseLock ==
  /\ pc["admin"] = "idle"
  /\ opMu = None
  /\ ~paused /\ status = "Running"
  /\ opMu' = "admin"
  /\ paused' = TRUE
  /\ Goto("admin", "health")
  /\ UNCHANGED <<kind, ctxDone, status, handlers, checks, events, provider,
                 todo, failed>>

\* stopHealthChecker cancels the checker ...
StopHealthChecker(q) ==
  /\ pc[q] = "health"
  /\ checker' = [g \in Gens |-> IF g = health /\ checker[g] = "running"
                                THEN "canceled" ELSE checker[g]]
  /\ Goto(q, "wait")
  /\ UNCHANGED <<kind, opMu, ctxDone, flags, handlers, health, up, events,
                 provider, todo, failed>>

\* Mutant of HealthCheckerStopped: stop() does not wait for the goroutine.
HealthCheckerNotAwaited(q) ==
  /\ pc[q] = "wait"
  /\ Goto(q, "ports")
  /\ ctxDone' = (ctxDone \/ q = "close")
  /\ UNCHANGED <<kind, opMu, flags, handlers, checks, events, provider, todo,
                 failed>>

\* ... and waits until its goroutine is gone; closeInternal then cancels ctx.
HealthCheckerStopped(q) ==
  /\ pc[q] = "wait"
  /\ \A g \in Gens : g = health => checker[g] = "done"
  /\ Goto(q, "ports")
  /\ ctxDone' = (ctxDone \/ q = "close")
  /\ UNCHANGED <<kind, opMu, flags, handlers, checks, events, provider, todo,
                 failed>>

\* closeAndClearPorts (Pause) empties the map, closePortsKeepMap (Close) keeps
\* it: both then close the handlers they have found.
ClosePorts(q) ==
  /\ pc[q] = "ports"
  /\ Loop(q, "shut", IF ports = 0 THEN {} ELSE Ports)
  /\ ports' = IF q = "admin" THEN 0 ELSE ports
  /\ UNCHANGED <<kind, opMu, ctxDone, flags, gen, handler, jobs, serving,
                 checks, events, provider, failed>>

\* close() of one handler: Shutdown or listener.Close reaches a listener that
\* is being served ...
ShutPort(q, p) ==
  /\ pc[q] = "shut"
  /\ p \in todo[q]
  /\ handler[<<p, gen>>] = "live"
  /\ handler' = [handler EXCEPT ![<<p, gen>>] = "shut"]
  /\ listener' = [listener EXCEPT ![p] =
                    IF serving[<<p, gen>>] > 0 THEN "closed" ELSE @]
  /\ UNCHANGED <<kind, opMu, ctxDone, flags, ports, gen, jobs, serving, checks,
                 events, node, bridge, started, op>>

\* ... and the handler's context is canceled.
CancelPort(q, p) ==
  /\ pc[q] = "shut"
  /\ p \in todo[q]
  /\ handler[<<p, gen>>] = "shut"
  /\ handler' = [handler EXCEPT ![<<p, gen>>] = "canceled"]
  /\ todo' = [todo EXCEPT ![q] = @ \ {p}]
  /\ UNCHANGED <<kind, opMu, ctxDone, flags, ports, gen, jobs, serving, checks,
                 events, provider, pc, failed>>

\* resetRuntimeMetrics, setStatus(Paused), unlock.
Paused ==
  /\ pc["admin"] = "shut"
  /\ todo["admin"] = {}
  /\ up' = "unknown"
  /\ status' = AfterSetStatus("Paused")
  /\ opMu' = None
  /\ Goto("admin", "idle")
  /\ UNCHANGED <<kind, ctxDone, paused, handlers, checker, health, events,
                 provider, todo, failed>>

-----------------------------------------------------------------------------
(* Resume. *)

ResumeLock ==
  /\ pc["admin"] = "idle"
  /\ opMu = None
  /\ paused
  /\ gen < MaxGen
  /\ opMu' = "admin"
  /\ paused' = FALSE
  /\ Goto("admin", "init")
  /\ UNCHANGED <<kind, ctxDone, status, handlers, checks, events, provider,
                 todo, failed>>

InitPorts ==
  /\ pc["admin"] = "init"
  /\ gen' = gen + 1
  /\ ports' = gen + 1
  /\ handler' = [h \in Handlers |-> IF h[2] = gen + 1 THEN "live" ELSE handler[h]]
  /\ Loop("admin", "listen", Ports)
  /\ failed' = [failed EXCEPT !["admin"] = {}]
  /\ UNCHANGED <<kind, opMu, ctxDone, flags, jobs, serving, checks, events,
                 provider>>

\* Mutant of ResumeFails: the proxy is not paused again.
ResumeFailsUnpaused ==
  /\ pc["admin"] = "listen"
  /\ todo["admin"] = {}
  /\ AllFailed("admin")
  /\ status' = AfterSetStatus("Error")
  /\ opMu' = None
  /\ Goto("admin", "idle")
  /\ UNCHANGED <<kind, ctxDone, paused, handlers, checks, events, provider,
                 todo, failed>>

\* Every listener failed: paused again; setStatus(Error) then has no effect.
ResumeFails ==
  /\ pc["admin"] = "listen"
  /\ todo["admin"] = {}
  /\ AllFailed("admin")
  /\ paused' = TRUE
  /\ opMu' = None
  /\ Goto("admin", "idle")
  /\ UNCHANGED <<kind, ctxDone, status, handlers, checks, events, provider,
                 todo, failed>>

\* startHealthChecker, setStatus(Running), unlock.
Resumed ==
  /\ pc["admin"] = "listen"
  /\ todo["admin"] = {}
  /\ ~AllFailed("admin")
  /\ checker' = [checker EXCEPT ![gen] = "running"]
  /\ health' = gen
  /\ up' = "unknown"
  /\ status' = AfterSetStatus("Running")
  /\ opMu' = None
  /\ Goto("admin", "idle")
  /\ UNCHANGED <<kind, ctxDone, paused, handlers, events, provider, todo,
                 failed>>

-----------------------------------------------------------------------------
(* teardownProxy and Close. *)

\* cancelCtx; StopAllProxies cancels the parent context, which is the same.
CancelCtx ==
  /\ pc["close"] = "idle"
  /\ ctxDone' = TRUE
  /\ Goto("close", "lock")
  /\ UNCHANGED <<kind, opMu, flags, handlers, checks, events, provider, todo,
                 failed>>

\* closeInternal: opMu, paused, setStatus(Stopping).
CloseLock ==
  /\ pc["close"] = "lock"
  /\ opMu = None
  /\ opMu' = "close"
  /\ paused' = FALSE
  /\ status' = "Stopping"
  /\ Goto("close", "health")
  /\ UNCHANGED <<kind, ctxDone, handlers, checks, events, provider, todo,
                 failed>>

\* providerProxy.Close: of a proxy that was never started only the event
\* channel is closed; else listeners, node and bridge go first.
CloseProvider ==
  /\ pc["close"] = "shut"
  /\ todo["close"] = {}
  /\ IF started
     THEN /\ listener' = [p \in Ports |-> "closed"]
          /\ node' = "closed"
          /\ started' = FALSE
     ELSE UNCHANGED <<listener, node, started>>
  /\ Goto("close", "drain")
  /\ UNCHANGED <<kind, opMu, ctxDone, flags, handlers, checks, events, bridge,
                 todo, failed>>

\* Mutant of Closed: the reader of provider events is not waited for.
ClosedAtOnce ==
  /\ pc["close"] = "drain"
  /\ status' = AfterSetStatus("Stopped")
  /\ opMu' = None
  /\ Goto("close", "returned")
  /\ UNCHANGED <<kind, ctxDone, paused, handlers, checks, events, provider,
                 todo, failed>>

\* eventsWg.Wait, setStatus(Stopped), unlock.
Closed ==
  /\ pc["close"] = "drain"
  /\ reader # "reading"
  /\ status' = AfterSetStatus("Stopped")
  /\ opMu' = None
  /\ Goto("close", "returned")
  /\ UNCHANGED <<kind, ctxDone, paused, handlers, checks, events, provider,
                 todo, failed>>

-----------------------------------------------------------------------------
(* The goroutines of a port. *)

\* startWithListener, up to the accept loop.
Canceled(h) == handler[h] = "canceled" \/ ctxDone

\* portStartLock finds the context canceled: the listener is closed and the
\* error becomes the status of the proxy.
ServeRefused(h) ==
  /\ jobs[h] > 0
  /\ Canceled(h)
  /\ jobs' = [jobs EXCEPT ![h] = @ - 1]
  /\ listener' = [listener EXCEPT ![h[1]] = "closed"]
  /\ status' = AfterSetStatus("Error")
  /\ UNCHANGED <<kind, opMu, ctxDone, paused, ports, gen, handler, serving,
                 checks, events, node, bridge, started, op>>

\* Serve after Shutdown returns at once and closes the listener; a closed
\* listener ends Serve without an error.
ServeEndsAtOnce(h) ==
  /\ jobs[h] > 0
  /\ ~Canceled(h)
  /\ handler[h] = "shut" \/ listener[h[1]] = "closed"
  /\ jobs' = [jobs EXCEPT ![h] = @ - 1]
  /\ listener' = [listener EXCEPT ![h[1]] = "closed"]
  /\ UNCHANGED <<kind, opMu, ctxDone, flags, ports, gen, handler, serving,
                 checks, events, node, bridge, started, op>>

Serve(h) ==
  /\ jobs[h] > 0
  /\ ~Canceled(h)
  /\ handler[h] = "live" /\ listener[h[1]] = "open"
  /\ jobs' = [jobs EXCEPT ![h] = @ - 1]
  /\ serving' = [serving EXCEPT ![h] = @ + 1]
  /\ UNCHANGED <<kind, opMu, ctxDone, flags, ports, gen, handler, checks,
                 events, provider, op>>

\* Accept returns net.ErrClosed; or it fails for another reason (after the
\* retries), the listener is closed and the status becomes Error.  A UDP relay
\* that cannot read just ends.
ServeEnds(h) ==
  /\ serving[h] > 0
  /\ serving' = [serving EXCEPT ![h] = @ - 1]
  /\ \/ listener[h[1]] = "closed" /\ UNCHANGED <<listener, status>>
     \/ /\ listener[h[1]] = "open" /\ h[1] \notin UDPPorts
        /\ listener' = [listener EXCEPT ![h[1]] = "closed"]
        /\ status' = AfterSetStatus("Error")
     \/ h[1] \in UDPPorts /\ UNCHANGED <<listener, status>>
  /\ UNCHANGED <<kind, opMu, ctxDone, paused, ports, gen, handler, jobs,
                 checks, events, node, bridge, started, op>>

\* A canceled context closes the listener of a TCP or UDP port.
ContextClosesListener(h) ==
  /\ serving[h] > 0 /\ ctxDone
  /\ kind[h[1]] \in {"tcp", "udp"}
  /\ listener[h[1]] = "open"
  /\ listener' = [listener EXCEPT ![h[1]] = "closed"]
  /\ UNCHANGED <<kind, opMu, ctxDone, flags, handlers, checks, events, node,
                 bridge, started, op>>

-----------------------------------------------------------------------------
(* The health checker. *)

\* check and onResult; a check that is running when stop() cancels it still
\* reports.
Check(g) ==
  /\ checker[g] \in {"running", "canceled"}
  /\ up' \in {"up", "down"}
  /\ UNCHANGED <<kind, opMu, ctxDone, flags, handlers, checker, health, events,
                 provider, op>>

\* Mutant of CheckerEnds: the goroutine sees the cancellation only after a
\* check that said "up".
CheckerStuck(g) ==
  /\ checker[g] = "canceled"
  /\ up = "up"
  /\ checker' = [checker EXCEPT ![g] = "done"]
  /\ UNCHANGED <<kind, opMu, ctxDone, flags, handlers, health, up, events,
                 provider, op>>

CheckerEnds(g) ==
  /\ checker[g] = "canceled"
  /\ checker' = [checker EXCEPT ![g] = "done"]
  /\ UNCHANGED <<kind, opMu, ctxDone, flags, handlers, health, up, events,
                 provider, op>>

-----------------------------------------------------------------------------
(* The node and its status events. *)

\* External: the user logs in; the node's key expires; it is stopped elsewhere.
NodeChanges ==
  /\ node \in Backends /\ \E s \in Backends \ {node} : node' = s
  /\ UNCHANGED <<kind, opMu, ctxDone, flags, handlers, checks, events, bridge,
                 started, listener, op>>

HasURL == node = "Running"
HasAuthURL == node = "Authenticating"

\* Mutant of Repeated: only the status is compared.
RepeatedStatus == bridge.status = node

\* The dedup test of bridgeEvents.  url and authURL are kept when an event has
\* none, so an event of another kind never equals them again.
Repeated ==
  bridge.status = node /\ bridge.url = HasURL /\ bridge.auth = HasAuthURL

\* What is kept is set before the send: a full channel drops the event, and if the
\* polls after it equal what is kept, it is lost.
Forward ==
  LET full == Len(queue) >= EventBuf IN
  /\ bridge' = [status |-> node, url |-> bridge.url \/ HasURL, auth |-> bridge.auth \/ HasAuthURL,
                lost |-> full /\ (bridge.url => HasURL) /\ (bridge.auth => HasAuthURL)]
  /\ queue' = IF full THEN queue ELSE Append(queue, node)
  /\ UNCHANGED <<kind, opMu, ctxDone, flags, handlers, checks, reader,
                 urlReady, node, started, listener, op>>

\* The watcher polls, classifyState names the status, bridgeEvents forwards it.
BridgeEvents == started /\ node \in Backends /\ ~Repeated /\ Forward

\* The reader of Start: setStatus and notifyURLReady.
ReadEvent ==
  /\ reader = "reading"
  /\ queue # <<>>
  /\ queue' = Tail(queue)
  /\ status' = AfterSetStatus(Head(queue))
  /\ urlReady' = (urlReady \/ bridge.url)
  /\ UNCHANGED <<kind, opMu, ctxDone, paused, handlers, checks, reader,
                 provider, op>>

\* It leaves when the context is canceled.
ReaderLeaves ==
  /\ reader = "reading"
  /\ ctxDone
  /\ reader' = "done"
  /\ UNCHANGED <<kind, opMu, ctxDone, flags, handlers, checks, queue, urlReady,
                 provider, op>>

-----------------------------------------------------------------------------
Start ==
  \/ StartLock \/ LifecycleStart \/ ProviderStarted \/ StartReturns
  \/ \E p \in Ports : Expose(p)

\* The steps of Start that do not wait for the user of the node.
StartUnblocked ==
  Start /\ (pc["start"] = "expose" /\ todo["start"] # {} =>
              node = "Running" \/ todo["start"] \cap TLSPorts = {})

Admin == \/ Paused \/ InitPorts \/ ResumeFails \/ Resumed

Close == CloseLock \/ CloseProvider \/ Closed

Step(q) ==
  \/ StopHealthChecker(q) \/ HealthCheckerStopped(q) \/ ClosePorts(q)
  \/ \E p \in Ports : ShutPort(q, p) \/ CancelPort(q, p) \/ StartPort(q, p)

PortStep(h) ==
  \/ ServeRefused(h) \/ ServeEndsAtOnce(h) \/ Serve(h)
  \/ ServeEnds(h) \/ ContextClosesListener(h)

Next ==
  \/ Start \/ PauseLock \/ ResumeLock \/ Admin \/ CancelCtx \/ Close
  \/ \E q \in Procs : Step(q)
  \/ \E h \in Handlers : PortStep(h)
  \/ \E g \in Gens : Check(g) \/ CheckerEnds(g)
  \/ NodeChanges \/ BridgeEvents \/ ReadEvent \/ ReaderLeaves

Spec == Init /\ [][Next]_vars

(***************************************************************************)
(* Goroutines run and sync.Mutex does not starve a waiter.  Nothing is     *)
(* assumed of the user who logs the node in, of Start, Pause, Resume and   *)
(* Close being called, or of accept errors.                                *)
(***************************************************************************)
Fairness ==
  /\ SF_vars(StartUnblocked /\ pc["start"] # "idle")
  /\ SF_vars(Close)
  /\ WF_vars(Admin)
  /\ \A q \in Procs : WF_vars(Step(q))
  /\ \A h \in Handlers :
       WF_vars(ServeRefused(h) \/ ServeEndsAtOnce(h) \/ Serve(h))
  /\ \A g \in Gens : WF_vars(CheckerEnds(g))
  /\ SF_vars(ReaderLeaves)

FairSpec == Spec /\ Fairness

-----------------------------------------------------------------------------
(* Properties. *)

Accepting(p) ==
  listener[p] = "open" /\ \E g \in Gens : serving[<<p, g>>] > 0

Alive(g) == checker[g] \in {"running", "canceled"}

\* A paused proxy serves nothing, checks nothing and reports nothing: neither
\* startListeners, which runs without opMu, nor a port goroutine or a health
\* check that was under way revives it ("Pause stops all port listeners and
\* health checks"; resetRuntimeMetrics).
PausedIsQuiet ==
  paused /\ opMu = None =>
     /\ \A p \in Ports : ~Accepting(p)
     /\ \A g \in Gens : ~Alive(g)
     /\ up = "unknown"

\* The same for a closed proxy, of which no listener, node or goroutine is
\* left either, whatever Start, Pause or Resume were doing when Close came.
ClosedIsQuiet ==
  pc["close"] = "returned" =>
     /\ \A p \in Ports : listener[p] # "open"
     /\ \A g \in Gens : ~Alive(g)
     /\ node \in {"off", "closed"}
     /\ reader # "reading"
     /\ ~paused

\* A Resume that has returned leaves a paused proxy (every listener failed) or
\* one with a running health checker, never one that is "unpaused but dead"
\* (TestResume_AllListenersFail_LeavesZombieState_BUG); and the status says
\* Paused only of a paused proxy, although Resume clears the flag first and sets
\* the status last.
NotHalfResumed ==
  /\ TypeOK
  /\ gen > 1 /\ opMu = None /\ ~paused /\ pc["close"] \in {"idle", "lock"} =>
       checker[gen] = "running"
  /\ opMu = None /\ status = "Paused" => paused

\* Every lifecycle operation that has been called returns.
OperationsReturn ==
  /\ pc["start"] = "lifecycle" ~> pc["start"] \in {"returned", "failed"}
  /\ pc["close"] = "lock" ~> pc["close"] = "returned"
  /\ pc["admin"] # "idle" ~> pc["admin"] = "idle"

\* Once the bridge and the reader have worked off what the node has reported,
\* the status is the node's, also if the node changed while the pause filter of
\* setStatus discarded its events; a port that has failed keeps it at Error.  The
\* exception: the last event was dropped in a full channel, and bridgeEvents, which
\* has kept it before the send, does not send it again.
StatusFollowsNode ==
  /\ reader = "reading" /\ ~paused /\ ~ctxDone /\ opMu = None
  /\ node \in Backends /\ Repeated /\ queue = <<>> /\ ~bridge.lost
  => status \in {node, "Error"}

-----------------------------------------------------------------------------
(* Statements of the documentation and of the comments that do not hold. *)

\* "Reopens port listeners on a paused proxy" (docs/content/docs/operations/
\* api.md); "Resume ... restarts listeners after a Pause" (proxy.go): when
\* Resume is about to return without an error, the listeners that it has given
\* to the new handlers are open.
ResumeReopens ==
  /\ pc["admin"] = "listen" /\ todo["admin"] = {}
  /\ ~AllFailed("admin")
  => \A p \in Ports \ failed["admin"] : listener[p] = "open"

=============================================================================
