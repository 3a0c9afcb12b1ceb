# A TLA+ model of tsdproxy

tsdproxy watches target providers (Docker, Incus, Proxmox, list files) and runs
one reverse proxy per target on a Tailscale network, either on a node of its
own, on a node that several proxies share, or as a Tailscale service. It is a
concurrent Go program: one goroutine per target event, dashboard and API
requests on the same objects, port, health-check and event goroutines per
proxy, an actor loop per shared node, and a shutdown that races with all of
them. This directory models that core in TLA+, checks it on small instances
with TLC and proves part of it for all instances with TLAPS.

Paths below are relative to the repository root.

## 1. Inventory

| Part | State | Operations | Interacts with | What makes it correct |
|---|---|---|---|---|
| **Keyed locks** (`internal/proxymanager/locks.go`) | map key -> mutex with reference count | `Lock`, the closure it returns | target and hostname locks of the manager | callers of a key exclude each other although the mutex object is deleted and made anew; no entry leaks |
| **Proxy manager** (`proxymanager.go`, `events.go`) | `Proxies`, `targetIndex`, lock families, gauge, wait groups | events, restart requests, registration, teardown, `StopAllProxies` | target providers (events), proxies (Start, Close), DNS/TLS setup | no proxy lost, doubled or orphaned; index and map agree; shutdown leaves nothing |
| **Custom domains** (`domain.go`, `dnsproviders`, `tlsproviders`, `lifecycle/tracker.go`) | setup goroutine, record, certificate, expiry tracker, status of both | set-up with retries, rollback, tracking, cleanup | DNS and TLS providers, teardown, handshakes | what is announced is there; a record is deleted by its owner and outlives its proxy only if the deletion failed or is disabled |
| **Proxy lifecycle** (`proxy.go`, `proxyports.go`) | status, paused, port handlers, health checker, contexts | Start in two phases, Pause, Resume, Close | provider proxy, ports, health checker | paused and closed are quiet; operations return; status follows the node |
| **Health checker** (`health.go`) | failure count, backoff, cooldown, target URL | check loop, re-resolution, stop | proxy status, target provider, metrics | no report after stop; it probes the target its port uses; backoff stays in bounds |
| **Ports** (`port_http.go`, `port_tcp.go`, `port_udp.go`, `ratelimit.go`) | listener, connections, slots, UDP sessions, rate limiters | start, accept, dial, evict, expire, close | proxy, listener | limits respected, sessions expire, close ends everything |
| **Log buffer, status broadcast, webhooks** (`logbuffer.go`, `broadcast.go`, `webhook.go`) | bounded queues, subscribers | publish, subscribe, retry, close | dashboard, HTTP | slow consumers block nobody and are told what they miss; close loses nothing accepted |
| **Tailscale node per proxy** (`proxyproviders/tailscale/proxy.go`, `node_lifecycle.go`, `status_watcher.go`, exposures) | node, listeners, event channel, state directory | Start, GetListener, Close, status bridge | proxy lifecycle | listeners close with their node; no send on a closed channel |
| **Shared node** (`eventloop.go`, `shared_server.go`, `shared_proxy.go`) | actor loop, runtime, routes, timers, subscriptions | acquire, release, subscribe, idle, close | proxies, node lifecycle, certificates | a held listener is served; routes counted; one node at a time; calls return |
| **Services** (`services_server.go`, `service_proxy.go`) | actor loop with asynchronous acquire and release, service port lists | acquire, release, drain, close | Tailscale API | what is held is offered and listened to; no leak; jobs counted |
| **Port router** (`port_router.go`, `virtual_listener.go`) | domain -> virtual listener, bounded accept queue | register, unregister, dispatch, close | shared node | a connection goes whole to the registered domain or is closed |
| **Device reconciliation, state directory** (`device_reconciler.go`, `state_manager.go`, `retry_policy.go`) | state and metadata on disk, devices of the tailnet | check, discard, list, delete, start, retry | Tailscale API | a node starts on state of its own configuration; no device that is online is deleted while there is local state |
| **Identity** (`whois.go`, `whois_cache.go`, `core/admin.go`, header rewriting) | cache of peers | look up, share a lookup, expire, rewrite, admit | HTTP ports, management server | a request is who the node says it is |
| **Docker, Incus, Proxmox, list providers** | known targets, event streams, snapshots, file watch | watch, scan, poll, reload, add, delete | proxy manager | a running target has a proxy with its configuration of now, which leads to that target |
| **Port labels** (`model/port.go`) | - | parse a label, expand ranges | target providers | no proxy port with a placeholder target, gates kept |
| **Dashboard** (`dash.go`, `stream.go`, `preferences.go`) | pages with bounded queues, preferences files and cache | render, drop, resync, update, crash | proxy manager | a page that stays catches up; the file is whole and holds what was acknowledged |
| **Configuration, HTTP API, metrics, telemetry, main** | configuration record | parse, serve | everyone | stateless, or over before anything runs |

`PROJECT.json` lists the parts with their sources and what is modelled, and
forty hazards (things that go wrong in an order no unit test forces), each at
its line.

The hardest behaviour is in the locks, the manager, the proxy lifecycle and the
two actor loops:

* two lock families and a map lock taken in sequence, with look-ups made before
  the lock that protects them is held (`eventStop` reads the hostname of a target
  first and locks the hostname second);
* `Start` releases `opMu` while it waits for a login, so that Pause, Resume and
  Close run in the middle of it;
* `Close` and teardown wait for goroutines that wait for others (set-up, health
  checker, event reader, forwarder, bridge);
* the shared node's loop is both the receiver of a bounded channel and, in
  `stopRuntime`, waits for a goroutine that sends to it;
* timers whose callback was already running when they were stopped;
* `StopAllProxies` does not wait for dashboard requests;
* the services node hands API calls to goroutines whose results come back as
  commands, possibly when the node they were for is gone.

## 2. Modules

| Module | Models | Role |
|---|---|---|
| `KeyedMutex` | - | abstract specification: one plain mutex per key |
| `KeyedLocks`, `KeyedLocksProofs` | `locks.go` | detailed specification, implements `KeyedMutex`; theorems |
| `ProxyManager`, `ProxyManagerProofs` | `proxymanager.go`, `events.go`, part of `domain.go` | registry, handlers, teardown, shutdown; its locks are `KeyedMutex` mutexes; theorems |
| `DomainSetup` | `domain.go`, `providers.go`, `proxytls.go`, DNS and TLS lifecycles and providers | custom domain of one proxy |
| `ProxyLifecycle`, `LifecycleProofs` | `proxy.go`, `proxyports.go`, Tailscale node of one proxy | one proxy, its ports, checker and node; theorems |
| `HTTPPort`, `TCPPort`, `UDPPort`, `PortsProofs` | `port_*.go` | the inside of a port; theorems about the three kinds and about `BoundedBuffers` |
| `HealthChecker` | `health.go` | the inside of a checker |
| `RequestPath`, `WhoisCache`, `PeerIdentity` | `port_http.go`, `whois.go`, `whois_cache.go`, `core/admin.go` | who a request is from; `PeerIdentity` states it of the two together |
| `RateLimiter`, `LogBuffer`, `BoundedBuffers` | `ratelimit.go`, `logbuffer.go` | what a port keeps up to a limit; `BoundedBuffers` states it of the two together |
| `Webhook` | `webhook.go` | a bounded queue with slow consumers |
| `Dashboard`, `Preferences` | `broadcast.go`, `stream.go`, `preferences.go` | pages and what they keep |
| `SharedServer`, `SharedServerProofs`, `PortRouter` | `eventloop.go`, `shared_server.go`, `shared_proxy.go`; `port_router.go`, `virtual_listener.go` | shared node, its loop and its users, with theorems; its connections |
| `ServicesServer`, `ServicesServerProofs` | `services_server.go`, `service_proxy.go` | services node, its loop, jobs and users; theorems |
| `NodeStart` | `node_lifecycle.go`, `state_manager.go`, `device_reconciler.go`, `retry_policy.go` | a node over several runs of the program |
| `TargetWatch`, `ProxmoxPoll`, `TargetFollowing`, `ListFile`, `TargetsProofs` | `docker.go`, `incus.go`, reconnect loop of `events.go`; `proxmox.go`; `list.go`, `configfile.go` | how the manager follows a target (`TargetFollowing` states it of the watching and the polling providers together); theorems |
| `EventHandlers` | `dispatchProxyEvent` in `events.go` | the unordered handlers of the three modules above |
| `PortLabels`, `TargetPorts` | `model/port.go`; `container.go`, `autodetect.go`, `legacy.go`, `instance.go`, `guest.go`, `list.go` | from labels to the ports of a proxy |
| `PartsProofs` | | theorems about `PortRouter`, `Webhook`, `Preferences`, `RequestPath`, `WhoisCache`, `HealthChecker`, `NodeStart`, `DomainSetup` |
| `MC...` | | model values and configurations for TLC |

**KeyedLocks.** `locks`, `refs` and `owner` are the map, the counts and the
mutexes of all objects ever allocated; an address may be reused once nobody
points to it. A critical section of `kl.mu` is one step; `rc.mu.Lock()` and
`rc.mu.Unlock()` are steps of their own, so an object can be deleted from the
map while it is still locked.

**ProxyManager.** Every goroutine has a program counter over the statements of
`HandleProxyEvent`, `eventStart`, `eventStop`, `newProxy`, `registerProxy`,
`removeAndTeardown`, `teardownProxy`, `RestartProxy`. A critical section of `proxyMu`
is one step. A handler that has replaced a proxy continues where it came from
(`from`). The removal goroutines of `StopAllProxies` are named by their hostname
and do not take the locks, as in the code. `AddTarget`, `NewProxy` and `Start` may
fail. A proxy's own Start and Close are abstracted to the states of `life`
(`reopening`, `zombie`: started after Close); a context is canceled when its proxy has
left the map or the manager is stopping (`Canceled`). The clean-up of a domain deletes the
record, or leaves it there (`kept`) because it is disabled or failed, which the code only logs.

**DomainSetup.** The goroutine of `setupDomain`, the expiry tracker, handshakes and
`teardownProxy` are the four actors. A request may fail before or after it took
effect; one under a canceled context fails, except that an ACME certificate may
still come from the cache. `domRecs` is the zone as the provider keeps it,
`domStatus` and `domTracked` are what the status tracker and the lifecycles
believe.

**ProxyLifecycle.** Three callers ("start", "close", "admin") execute the steps of
`proxy.go`; port handlers and health checkers are named by the `initPorts` call
that made them, because a goroutine of an old handler may still run when the
new one is made. The Tailscale side is the node, the listeners made by
`PerProxyExposure`, the status bridge and its channel, which drops an event when it is full
after the bridge has kept it for comparison (`bridge.lost`: and will not send it again). `Backends` are the states the node may be in once it has started
(assumption `BackendsType`: some of those that `classifyState` reports, "Running" among them). A port's kind decides how its
listener is made: `ListenTLS` waits for the login, a plain listener does not.

**Ports.** Each module has the accept or relay loop, a goroutine per connection or
session, and close, which may come before, during or after the start. `HTTPPort`
keeps `net/http`'s `Serve` and `Shutdown` as external steps: Shutdown waits for Serve
without a time limit and for connections up to one. `UDPPort` dials outside
`clientMapMtx` in three steps (look up, dial, install). `RateLimiter` is the map and the
recency list of `ratelimit.go`.

**HealthChecker.** Time is a counter; the arithmetic of `nextBackoff` and
`clampDuration` is that of W-bit integers, compared with exact arithmetic over the
whole range. Re-resolution replaces the port's target and the checker's
in the order of `reResolveHealthTarget`.

**RequestPath.** One request from the middleware to the backend or to the management
server. The sender's headers are chosen freely; the identity is what the node says of
the peer address. **WhoisCache** is the map with its two times to live and the
singleflight group; an entry and a call carry the address that was asked about, and an
entry the time at which it was stored.

**SharedServer.** The loop takes one command at a time from `queue`. A runtime is
identified by its generation; timers, bridges and certificate goroutines carry
the generation they were made for, which is how the code recognises late
commands. `Send` is `el.send`: into the channel if there is room, or abandoned once
the loop has exited. Each user is a `SharedProxy` with its `Start`, rollback, `Close`
and `forwardEvents` goroutine. **PortRouter** is what happens to a connection on a
routed port; a connection carries the bytes that were read to find its host.

**ServicesServer.** The same loop, but acquire and release run as jobs, goroutines
whose result is another command. Every API call may fail; `vip` is what the control
plane offers. Close drains the jobs until it gives up. Of the certificates, `fetched` are those asked for and
`skipped` those whose service was looked at and passed over, because its name is empty or no certificate domain yet or there is no
local client; ports without HTTPS are not looked at. Nothing repeats the look.

**NodeStart.** Runs of the program follow each other; each compares the metadata of the
state directory with its tags where the metadata has any, discards the state, lists the devices with the first
tag and deletes those that hold the hostname, and starts the node with retries. Removing the files and
writing the metadata are several steps each. The program may crash at every step, and devices come
online and go meanwhile. The control server's "-1" suffix is external. The tags stand for the control URL and the mode
too, which `CleanStale` compares in the same way; the hostname names the directory, and the node is not ephemeral.

**TargetWatch** has one target of Docker or Incus, its changes, the stream, the scan
that runs beside it, and the reconnect loop with its backoff. **ProxmoxPoll**
compares the guest of each poll with the snapshot of the one before. **ListFile** has the file, the
debounce timer, reloads that send their events outside the lock, and AddTarget. In all three every event has a
handler of its own, the target lock goes to any of those that wait (`ToFront` in **EventHandlers**), and AddTarget, `newProxy` and
`Start` may fail; whether a handler has overtaken another, or the proxy was lost to a failure, is recorded
(`tOvertaken`, `tLost` and the like), because the properties depend on it.

**PortLabels, TargetPorts.** Pure operators: a label is a record of segments and options,
a parser returns a set that is empty for an error. `TargetPorts` takes a target in the
initial state and makes its ports in one step. What answers on the network while Docker's
fallbacks probe, and in which protocols a number is published, are part of the target. A container's own view (`Published`) keeps the protocol;
the code's map (`setContainerPorts`) does not, and its order is any.

**LogBuffer** numbers the lines, so that order and gaps can be stated; **Webhook** has senders,
workers with retries and Close under `closeMu`; **Preferences** has temporary file, rename,
cache, crash and damaged files; **Dashboard** has the broadcast, the loop that renders, and a page with
its queue.

Modules that share no state are checked together: `MCParts` and `MCLive`
choose one part in the initial state and let the others rest.

## 3. Runs

| Run | Instance | Checks |
|---|---|---|
| `registry_events` | 2 handlers, 2 targets that want one hostname, custom domain, 2 proxies, shutdown | `IndexSound`, `Stoppable`, `OneNodePerHost`, `LockOrder`, `CleansOwnRecord`, `NothingLeftBehind` |
| `registry_requests` | 1 handler, 1 dashboard request, 1 target, custom domain, metrics, shutdown, fair | `NothingLeftBehind`, `EveryoneReturns`, `ShutdownEnds` |
| `lifecycle_quiet` | 2 ports (HTTPS + UDP, or two of a custom domain), one Resume | `PausedIsQuiet`, `ClosedIsQuiet`, `NotHalfResumed`, `StatusFollowsNode` |
| `lifecycle_live` | 1 HTTP port, fair | `OperationsReturn` |
| `shared_server` | 2 proxies on one router, or a direct port against a router, or 1 proxy on a routed and a packet port; 2 nodes; channel of 1 | `HeldIsServed`, `NoLeakedRoute`, `ServerSound` (types, route count, one node, one certificate fetch, no send on a closed subscription) |
| `services` | 1 proxy with 2 ports and approval of devices, or 2 proxies; 2 nodes; channel of 2 | `HeldIsOffered`, `NoLeakedListener`, `JobsCounted`, `CertsAskedFor` |
| `parts` | seventeen parts, see below | one property per part or pair of parts |
| `live` | 3 goroutines on 2 keys; 1 proxy on 2 shared nodes with a channel of 1; 1 page with queues of 1; fair | `LocksSound`, `ImplementsKeyedMutex` (refinement), `LockReturns`, `CallsReturn`, `PagesCatchUp` |

What `parts` shows, by property:

| Property | Part | Statement |
|---|---|---|
| `RouterSafe` | `PortRouter` | a connection is given whole, from its first byte, to the listener of its host, or closed; none stays in the buffer of a closed listener |
| `TCPSafe`, `UDPSafe`, `HTTPSafe` | ports | slots and sessions are counted exactly and never above the limit; no backend connection is lost; nothing runs after close has returned |
| `HealthSafe` | `HealthChecker` | the checker probes the target its port uses; re-resolutions keep their distance, which doubles up to its maximum; the gauge follows the last result |
| `IdentitySafe` | `RequestPath`, `WhoisCache` | the backend and the admission see the user of the peer address, never one the sender claims; an answer of the cache is about the address looked up and no older than promised |
| `BoundsKept` | `LogBuffer`, `RateLimiter` | a reader sees the lines in order and never without the last, from the snapshot on, and is told of those that are missing; the ring holds the last lines; the limiters that are kept are those of the last clients |
| `WebhookSafe` | `Webhook` | no send on the closed queue; what was accepted is delivered, given up after the retries, or still queued |
| `TargetsFollowed` | `TargetWatch`, `ProxmoxPoll` | once everything is worked off, no request failed and no handler overtook another, a running, enabled target has a proxy with its configuration of now, if that could be made and started; a stopped or disabled Proxmox guest has none, whatever happened before |
| `ListSafe` | `ListFile` | once the events for a name are handled, it has the proxy of its entry, if that could be made and started, or none without entry, unless its last event was overtaken or the entry came of a file that failed to load; a file that does not load takes nothing down |
| `PrefsSafe` | `Preferences` | the file is whole at every crash and holds the changes that were acknowledged |
| `NodeSafe` | `NodeStart` | a node runs on state made under its own tags or none, unless a removal or write of the files failed or was cut; it has its hostname after a forced reconciliation without error, unless a device without its tag holds it; a device that is online is not deleted unless local state was lost |
| `DomainSafe` | `DomainSetup` | an active domain is reachable; a failed setup is rolled back; no certificate is asked for by the tracker during cleanup; after teardown no tracker is left, nor a record, unless clean-up is disabled or a deletion failed |
| `PortsSafe` | `TargetPorts`, `PortLabels` | a port leads to the port of its own container or guest that its label names; only an unpublished port that its own label names is looked for under its own number on the operator's host, an inferred one never; options that are not allowed have no effect; no placeholder is left (excluded: one number published for TCP and UDP under different numbers, see Observations) |

Four runs refute a statement of the code's comments or documents:

| Run | Statement | What TLC shows |
|---|---|---|
| `start_after_close` | the re-check in `HandleProxyEvent` (`events.go:154-156`) prevents a start of a closed proxy | a stop between the re-check and `Start` closes the proxy, and `Start` brings its node up with nobody left to close it |
| `resume_dead_listener` | "Reopens port listeners on a paused proxy" (`docs/content/docs/operations/api.md:245`) | `PerProxyExposure.GetListener` returns the listener that Pause closed; Resume reports Running |
| `shared_close` | `teardownProxy` performs the full sequence (`proxymanager.go:265-268`) | `forwardEvents` re-reads `p.stopCh` after Close has set it to nil, waits for ever, and Close waits for it |
| `services_panic` | "Acquire creates a VIP Service and returns a ServiceListener for it." (`services_server.go:734`) | a subscription handled while there is no node makes a runtime without a listener factory; the next acquire calls it |

### Bounds, and why they are enough

* Two handlers at a time, or a handler and a dashboard request: the registry's races are between two goroutines that
  meet at a lock or a look-up; shutdown's removal goroutines come on top. Two
  proxies allow one to be replaced by the other; with two targets on one
  hostname, a replacement by another target happens as well. A handler that has
  finished is used again, so sequences of events are unbounded up to the number of
  proxies built. The fair run has one target, which is what its liveness
  graph allows; that goroutines of different targets cannot wait for each other in a
  circle is `LockOrder`, checked with two.
* `MaxGen = 2` in `ProxyLifecycle`: one Pause and Resume, so goroutines of old
  and new handlers overlap. In `SharedServer` and `ServicesServer` one restart of the node, so that late
  timers, certificates, jobs and bridge events of an old generation meet a new one (`Starts`: in
  the configuration where two proxies only compete for a port the node is not
  restarted).
* `EventBuf = 1`, `QueueCap = 1`, `BufSize = 1`, `ChanSize = 1`: the smallest channel is the one in which senders block
  or drop most; larger ones only add slack. `ServicesServer` has two slots because a job's result
  and a timer's command must be able to change places.
* Limits one below the number of things that want them: 3 connections on 2 slots, 4 clients on
  3 rate limiters, 4 UDP sessions of 2 clients, 2 addresses on 1 cache entry, 8 log lines on
  a ring of 2, 3 jobs on a queue of 2 with 2 workers.
* `W = 6`, `MaxBackoff = 4`: shifts and products overflow well inside the range of inputs that is enumerated.
* `KMaxTime`, `WMaxTime`: longer than the sum of the times that are configured, so that
  every one of them can pass twice or be met exactly.
* `TMaxChanges = 3`, `QMaxChanges = 4`: start, change, stop and start again; `TMaxLinks = 2`: one reconnection.
  `FReloads = 2`, `FMaxChanges = 2`: the second reload and AddTarget run while events of the first are sent.
* `Tags` has one member besides no tag at all: tags are set, taken away and set again. `NMaxRuns = 3`: a crash, a run that finds what it left, and one more; three devices are the own one, one that
  holds the name, and one that comes.
* `PortMax = 4`, `RangeMax = 3`: every number below, in and above the range, and ranges of every permitted length and one more.
* `Symmetric` permutes proxies and handlers, or users; it is used only in runs without
  temporal properties.
* `CHECK_DEADLOCK FALSE` because every run may legitimately end: the objects of the bound
  are used up, or the part is closed.

### Fairness, and what justifies it

* Goroutines that can run do run: weak fairness of every step that, once
  enabled, stays enabled.
* `sync.Mutex` hands a lock to a waiter after a millisecond (starvation mode), and
  senders on a full channel are queued in order: strong fairness of lock
  and send steps. In `SharedServer` it is stated for the bridges of all generations together and for
  the certificate and timer goroutines together, which is weaker than one condition each.
* A timer that is not stopped fires; a domain set-up has timeouts; `WatchEvents`
  returns when its context is canceled.
* In `Dashboard` the resync ticker is served (strong fairness: `select` chooses among the ready
  cases at random), the goroutines of a page run and its connection takes what is written.
* Nothing is assumed about the environment: events, requests, logins, accept
  errors, calls of Pause, Resume, Close and `StopAllProxies` may never come. In
  particular no fairness lets a login happen, and `lifecycle_live` uses a port kind
  for which Start need not wait for one.

## 4. Proofs

`KeyedLocksProofs` (for any finite set of goroutines, any keys and
addresses; assumptions `ProcsFinite`, `NoEntryFresh`, `NoProcFresh`):

* `TypeCorrect`, `Exclusive`, `CountsExact`, `NeverStale`, and `Sound`, which is `LocksSound` of the run `live`.
  Mutual exclusion alone is not inductive, as two goroutines could hold two
  objects of one key. `IInv` adds: a goroutine between `Lock` and the end of
  `unlock`'s first part points to the object that is in the map under its key
  (`Attached`), it owns that object while it holds it (`OwnersHold`), objects of different
  keys differ (`Separate`), and a count is the number of goroutines attached (`RefsAreUsers`),
  so that the unlock that reaches zero deletes an object nobody else points to.
* `Refinement`: `Spec` implements `KeyedMutex`; the abstract holder of a key is the
  goroutine that is in "holding" on it, and every other step stutters.

`ProxyManagerProofs` (for any sets; assumptions `NoneFresh`, `DisjointProcs`,
`HostsOfType`, `MetricsType`, `FiniteHosts`):

* `TypeCorrect`, `RegistrySound` (`IndexSound`) and `RegistryComplete` (`Stoppable`).
  `IndexSound` is not inductive: that `registerProxy` overwrites nothing depends on
  the hostname lock its caller took several statements earlier. `IInv` adds what a goroutine
  knows at each program point (`LocalOK`), that it holds the hostname lock there
  (`HostLocked`), that its hostname is one of its target's (`HostAllowed`), that the slot
  it cleared is still empty (`Cleared`), and that a proxy it is about to
  register, or that is registered, carries the target and hostname it is filed under
  (`RegisterReady`, `RegisteredOK`).
* `LocksOrdered` (`LockOrder`): the converse of `HostLocked` is inductive relative to
  `IInv` (`OwnerInside`: the holder of a hostname lock is inside the code it
  protects, on that hostname), and none of that code takes another lock.
* `OneNode` (`OneNodePerHost`), `OwnRecord` (`CleansOwnRecord`) and `NoneLeftBehind` (`NothingLeftBehind`), about what is replaced, removed and shut down. They count the proxies that were started after their Close too (`Late`), which are the known way to two nodes of a
  hostname and are nobody's to close, and the records that a clean-up left (`kept`). The invariant `DInv` follows a
  proxy through the hands it passes: the goroutine that built it until Start has returned (`Builders`), the one that registers it or
  tears it down, which is one only and finds it neither closed nor registered (`Ownership`); a hostname has one proxy that is not closed
  while the manager is up (`OneLive`), and later at most a second that `registerProxy` is about to refuse. The set-up of a domain runs
  while its proxy is registered or `teardownProxy` waits for it (`SetupOK`), so a DNS record belongs to one of those or was left by a clean-up (`RecordOK`). `Reaping` says
  what `StopAllProxies` has seen when it takes the hostnames, which is where the removal without hostname locks needs the handlers to have ended.

`LifecycleProofs` (any finite set of ports, any kinds, any states of the node, any number of pauses; assumptions `PortsFinite`, `ConfigsType`, `BackendsType`, `BoundsNat`, `NoneFresh`):

* `PausedQuiet` (`PausedIsQuiet`), `ClosedQuiet` (`ClosedIsQuiet`), `ResumeWhole` (`NotHalfResumed`), all from `LifecycleInv`. `LInv` says who is where and
  holds `opMu` (`LPlaces`), that nothing happens before the provider is up (`LBefore`), what flag and status say at each place of Pause, Resume and Close
  (`LFlags`), that a live checker is the last one made, and none is alive from stopHealthChecker on (`LChecks`), that live handlers are those of
  the last initPorts (`LHandlers`), that a handler that is not live serves no open listener (`LServing`), and that what is open belongs to a provider that is
  up or coming up (`LProvider`). The last two are what makes `startListeners`, which runs without `opMu`, harmless: the goroutine it leaves behind finds a
  handler that is shut or canceled. A port with a custom domain never gets a listener here, and its handlers are excepted.

`SharedServerProofs` (any finite sets of users, ports and domains, any channel capacity and number of node generations; assumptions `ConfigsType`, `BoundsType`,
`StartsType`, `FiniteSetsUsed`, `NoneFresh`):

* `HeldServed` (`HeldIsServed`), `RoutesOwned` (`NoLeakedRoute`), `ServerIsSound` (`ServerSound`). The invariant relates the commands in the channel to
  their senders (`QueueOK`: a sender waits for its own command, two that exclude each other are never both in the channel), the loop's runtime to the nodes and
  timers (`LoopOK`, `CertsOK`), the route counter to the pairs of port and domain, by the cardinality theorems (`RoutesOK`), and the routes to what
  each user knows of its ports at each place of Start, rollback and Close (`UserOK`, `RegOK`).

`ServicesServerProofs` (any sets of users and ports, any channel capacity and number of node generations, any of the ports with HTTPS; assumptions `ConfigsType`, `HTTPSType`, `CapType`, `NoneFresh`):

* `HeldOffered` (`HeldIsOffered`), `ListenersOwned` (`NoLeakedListener`), `JobsAreCounted` (`JobsCounted`), `CertsAsked` (`CertsAskedFor`), all from `VInvariance`.
  The four are not inductive: what a late result does depends on what the job did before the loop served others. `VInv` therefore says of the work of a proxy, wherever
  it is, what it stands for: of a command (`QueueOK`) that its proxy waits and has neither a job nor another command, of a job (`JobsOK`) that it belongs to the runtime
  that is there and which of service and listener it has made so far, of a result that both are still there. Every open listener belongs to one of these or to
  the runtime (`OpenOK`), `refCount` and `pendingCount` are the cardinalities of the listeners and of jobs and unread results (`CountOK`), and a job that
  outlives its runtime finds the context canceled (`OrphansOK`). `LoopOK` ties state, runtime and counts together, which is where
  `maybeTransitionToIdle` and `handleClose` need the counts to be exact.

`PortsProofs` (any number of connections or sessions, any limits; assumptions `TMaxConnsAssumption`, `HMaxConnsAssumption`, `UAssumption`, `LAssumption`, `GAssumption`):

* `TCPSafety`, `HTTPSafety`, `UDPSafety`. The counts need finiteness of the connections handled and one phase invariant each (`TPhase`, `HPhase`, `UPhase`): which
  of context, `started`, listener and done is already set where in start, accept loop and close. For UDP, that only the reading goroutine enters sessions makes
  its dial without the lock safe (`USessions`), and the recency list lists the clients of the map, each once (`UOrder`).
* `LimiterSafety` (`LimiterSafe`), for any clients and any size. Apart from types the property is inductive: of two clients in the list the first has asked later,
  so `MoveToFront` keeps the order of the others, and the one that is dropped from a full list is older than all that stay.
* `LogSafety` (`LogSafe`), for any readers and any sizes of ring and channel. What a reader has seen or has in its channel is one page; a write leaves the page
  thinned by what the drain took, perhaps a marker, and the new line. `InOrder` and `GapsAnnounced` are inductive with two facts besides: where the ring's next line goes (`GRing`),
  and that nobody has a line that was not written (`GKnown`).
* `BoundsKeptSafety` (`BoundsKept`) for both.

`PartsProofs` (each part for every value of its constants, from the assumption its module names):

* `RouterSafety` (`RouterSafe`): every buffer holds connections looked up for its listener, each once, and a connection that is queued is in its buffer (`RBuffers`,
  `RQueued`), so Close drains all of them.
* `WebhookSafety` (`WebhookSafe`): a job is in one place (`VOnce`), exists if and only if its Send came to it and the queue was not full (`VFrom`), and whoever is inside
  Send finds the queue open (`VLocks`), which is what `closeMu` is for.
* `PrefsSafety` (`PrefsSafe`): inductive with `ECallOK`, which ties what a call is to write to what it found in the file.
* `RequestSafety`, `WhoisSafety`, and `IdentitySafety` (`IdentitySafe`) for both: `PStages` says of each stage what the request is in terms of the one received;
  `WGroup` that an address has one leader, that has a call in the group, with its answer when it comes to store it;
  `WKept` that what is kept or asked under an address is about it, for its time to live.
* `HealthSafety` (`HealthSafe`): the pause that runs is that of the last attempt (`KPause`); failures and attempts are bounded by the clock (`KBudget`), so the counters
  stay in the range in which the W-bit arithmetic of `nextBackoff` is monotone.
* `NodeSafety` (`NodeSafe`): until a failure or a crash tears the files, state was made under the tags in the metadata or under none, and from `Save` on those are the
  present ones (`NStates`); in a forced reconciliation that meets no error whoever has the name and the tag is listed or doomed (`NClaims`); nothing that is
  kept is doomed (`NKeeps`).
* `DomainSafety` (`DomainSafe`): the order of teardown and set-up (`DomOrder`), what the records, the status and the tracker are at each place of both (`DomRecords`,
  `DomAnnounced`, `DomActive`, `DomTorn`).

`TargetsProofs` (any configurations, any number of changes, polls and reconnections, any names and any number of reloads of the file; assumption `TAssumption`):

* `WatchSafety` (`WatchSafe`), `PollSafety` (`PollSafe`), and `TargetsFollowedSafety` (`TargetsFollowed`) for both; `ListSafety` (`ListSafe`). Each property is about
  the moment at which everything is worked off, so the invariants say what is under way before it: whenever a target wants a proxy that it does not have, something that will make
  one is on its way (an event in the stream, the scan, an action in the queue: `TGUnderWay`, `QUnderWay`), and whatever would take its proxy down, or has read an older
  configuration, has something behind it that makes the right one (`TGStops`; `Settles`, `QEnds`). `TGOrder` and `QOrder` say which of target, entry and proxy is the younger.
* For Proxmox, that a quiet poll finds nothing to do does not say that nothing is to be done: `QRested` says what the snapshot is when two polls in a row found the guest as it is.
* For the list, `FRight` says it per name, of names that the loaded configuration has (`FListed`) and has not (`FUnlisted`), unless the handlers of the name's last event
  and of one before it changed places or a failed load has left the entry, which is what `ListSafe` excludes (see Observations).
* In all three the argument is about the order in which the handlers take the lock: an overtaking (`tOvertaken`, `qOvertaken`, `fCrossed`) ends it, until the handlers are done and a
  scan begins (Docker, Incus) or until the next event of the name (list). That a stopped or disabled guest of Proxmox has no proxy holds after every overtaking too.

The invariants were checked by TLC on the runs' instances before they were proved.

Only model-checked:

* liveness: fairness and `ENABLED` are out of the prover's reach;
* the durations of `HealthChecker` (`DurationsExact`): products and powers of two that wrap around. They are no state's, so TLC evaluates them once, for every argument of a small width, as an assumption of `MCParts`;
* `PortsSafe`: an enumeration of labels through recursive parsers; induction over data is out of reach;
* the statements that a run refutes.

## 5. Observations

Behaviour met while modelling that no run is kept for. It follows from the code as written; where a
property excludes it, the module says so.

* **Order of events.** `dispatchProxyEvent` starts a goroutine per event (`events.go:111-120`), and the target lock keeps no
  order. For Docker a stop that overtakes the start before it leaves a proxy, because `AddTarget` takes a stopped container too
  (against `README.md:96`, "When a container stops, its Tailscale machine and routes are removed automatically"); in the same way a start that is overtaken by a
  later stop leaves a running target, or a name of a list, without proxy until the next event for it.
* **Status.** `bridgeEvents` compares an event with the last one it has seen before it sends it, and drops it when the channel is full
  (`proxy.go:217-221`): the polls that repeat it are then equal, and the status stays behind the node until that changes.
* **Certificates of services.** A service whose name is no certificate domain yet, or that comes while there is no local client, is passed over, and nothing asks again.
* **Login.** `ListenTLS` waits for the login under `opMu` (`exposure.go:138`), so Close of an HTTPS proxy waits for the user.
* **Published ports.** `setContainerPorts` keys the published numbers by the port number alone (`container.go:127-138`): of `53/tcp` and `53/udp` the one that Go's
  map yields last counts for both, and a UDP port may be proxied to the number that is published for TCP. The resolvers do not ask for the protocol: a UDP port of a container
  that has an address of its own goes to the operator's host all the same (against `docs/content/docs/v3/advanced/tcp-proxy.md:210`).
* **Docker.** Containers that die while the stream is down are not reported: the scan sends starts only. The guard of `resolvePublished` against undeclared bridge ports cannot
  be reached from `newProxyConfig`, because an inferred port is a published one.
* **Incus.** A disable followed at once by an enable may be seen as no change. A configuration that changes to another value and back during AddTarget is not noticed.
* **Proxmox.** A guest deleted while its AddTarget is in flight leaves a proxy. The start of an unchanged guest that failed is not repeated.
* **List.** A file whose decoding fails leaves its good entries in `configProxies`, for which no event is sent; the events of one name, of two reloads or of one,
  may be handled in either order (both excluded by `ListSafe`). A second `Watch` of one file closes `done` twice.
* **Port labels.** Range labels do not validate the protocol. `1-2/udp:80-81/udp` is taken as a short range by the notes and list parsers, with the rest as its protocol.
  A notes redirect without `isRedirect` becomes a proxy with a generated extra target. One proxy port with a range of targets yields several
  configurations of one port. `ValidateProxyPorts` and `ValidateProxyConfigForMode` (`model/proxyconfig.go`) are called nowhere.
* **Custom domains.** `configureTailscaleTLS` may run before Start has made the local client, and the setup then fails for good. Cleanup deletes every CNAME of the
  domain, also ones the proxy never made; two proxies with one domain delete each other's record. A failed propagation leaves the
  record until teardown. A handshake may ask for the certificate during TLS cleanup.
* **Device reconciliation.** With local state, an online device of exactly the name is skipped without `onConflict`. When discarding the state fails or a crash cuts it, the new metadata is written over it all the same, and a crash while the
  metadata is written leaves state whose tags nobody knows. Tags, control URL or mode that are set for the first time are not compared with anything, and the
  old state stays (`state_manager.go:58-62`). Devices without the first tag are not listed (`device_reconciler.go:40`), so one of them may keep the name.
* **Shared node and services.** A watch command carries no generation. The VIP service of an acquire that is in flight when Close gives up is not deleted.
* **Whois.** A canceled leader of a shared lookup makes its waiters anonymous, and the negative answer is kept for ten seconds.
* **Webhook.** Send waits for `closeMu` while Close waits for the retries of the workers.
* **Log.** The marker of dropped lines may count one too many.
* **Preferences.** The cache holds the value before `validatePrefs`, the file the one after it, until the next start.
* **Gauge.** `updateProxyCount` counts under the read lock and sets the metric after it; two teardowns can leave the older count.

## 6. Not modelled

* Contents: bodies, ClientHello and Host syntax, rendering, log text, JSON, YAML.
* DNS, TLS and Tailscale API clients, Docker/Incus/Proxmox transports, the SSH tunnel, ACL edits and OAuth: I/O;
  where the core calls them, the call succeeds or fails.
* Configuration apart from the names of a domain: read once, before anything runs concurrently.
* Queries that change no state, and metrics other than the proxy count, "proxy up" and the checker's gauge.
* In `ProxyManager`: `ReauthProxy`, and Pause and Resume requests (those are in `ProxyLifecycle`).
* In `Dashboard`: more than one page at a time in the fair run; pages do not share state.
* Two users of one VIP service: the registry keeps one proxy per hostname (`OneNodePerHost`).

## 7. Plan

Left to do, in this order:

1. Composition: `SharedServer` with `PortRouter` on one port, and `TargetWatch` with the handlers of `ProxyManager`.
2. The certificate semaphore, the ACL manager's read-modify-write and the SSH tunnel's reconnection.
