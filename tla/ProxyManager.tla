----------------------------- MODULE ProxyManager -----------------------------
(***************************************************************************)
(* The registry of proxies and the goroutines that change it               *)
(* (internal/proxymanager: proxymanager.go, events.go and the part of      *)
(* domain.go that ties DNS records to the life of a proxy).                *)
(*                                                                         *)
(* Goroutines: one event handler per target event (HandleProxyEvent), the  *)
(* dashboard's RestartProxy calls, the domain set-up of every proxy, and   *)
(* StopAllProxies with one removeProxy goroutine per registered hostname.  *)
(* A critical section of proxyMu is one step, as is every statement that   *)
(* touches shared state outside it.  The keyed locks are the ones that     *)
(* KeyedLocks shows to be plain mutexes, one per key.  What Start and      *)
(* Close do inside a proxy is ProxyLifecycle's subject; here a start takes *)
(* two steps (Close waits for it on opMu) and may fail.                    *)
(***************************************************************************)
EXTENDS Integers, FiniteSets

CONSTANTS Handlers,     \* goroutines started by dispatchProxyEvent
          Clients,      \* HTTP requests of the dashboard and the API
          Targets,      \* target IDs (container IDs, list entries)
          Hosts,        \* proxy hostnames
          HostsOf,      \* the hostnames AddTarget may give to a target
          WithDomain,   \* the hostnames whose config has a custom domain
          Insts,        \* *Proxy objects: how many may be built
          Metrics,      \* pm.metrics != nil
          None          \* nil, the empty string, an unlocked mutex

Workers == Handlers \cup Clients
\* removeProxy(h) of StopAllProxies runs in a goroutine named h here.
Procs == Workers \cup Hosts

ASSUME NoneFresh == None \notin Procs \cup Targets \cup Insts
ASSUME DisjointProcs == /\ Handlers \cap Clients = {}
                        /\ Workers \cap Hosts = {}
ASSUME HostsOfType == HostsOf \in [Targets -> SUBSET Hosts]
ASSUME MetricsType == Metrics \in BOOLEAN
ASSUME FiniteHosts == IsFiniteSet(Hosts)

VARIABLES
  Proxies,      \* pm.Proxies: hostname -> proxy
  targetIndex,  \* pm.targetIndex: target ID -> hostname
  gauge,        \* the proxy count metric
  shut,         \* how far StopAllProxies has come ("up": not called)
  targetLocks,  \* pm.targetLocks: who holds each target ID
  hostLocks,    \* pm.hostLocks: who holds each hostname
  life,         \* of each proxy: from NewProxy to the end of Close
  target,       \* Config.TargetID of each proxy
  hostname,     \* Config.Hostname of each proxy
  setup,        \* of each proxy: its domain set-up, what setupWg waits for
  record,       \* the proxy whose set-up wrote the DNS record of a hostname
  pc,           \* where each goroutine is
  act,          \* what it was asked to do
  tgt,          \* the target ID it works on
  host,         \* the hostname it works on
  inst,         \* the proxy it has built (or, in withCurrentProxy, read)
  old,          \* the proxy it has removed and tears down
  from,         \* who called removeAndTeardown
  cnt           \* the count it has read in updateProxyCount

registry == <<Proxies, targetIndex>>
locks == <<targetLocks, hostLocks>>
proxy == <<life, target, hostname>>
domain == <<setup, record>>
task == <<act, tgt, host, inst, old, from, cnt>>
vars == <<registry, gauge, shut, locks, proxy, domain, pc, task>>

stopping == shut # "up"

Actions == {"start", "stop", "restart", "dashboard", "reap"}
PCs == {"idle", "target", "index", "stopLock", "add", "newLock", "resolve",
        "build", "register", "configure", "count", "gauge", "newUnlock",
        "unlock", "current", "recheck", "start", "starting", "listen",
        "failLock", "remove", "drain", "cleanup", "close", "teardownCount",
        "teardownGauge", "removed"}

TypeOK ==
  /\ Proxies \in [Hosts -> Insts \cup {None}]
  /\ targetIndex \in [Targets -> Hosts \cup {None}]
  /\ gauge \in Nat
  /\ shut \in {"up", "stopping", "drained", "reaping", "done"}
  /\ targetLocks \in [Targets -> Procs \cup {None}]
  /\ hostLocks \in [Hosts -> Procs \cup {None}]
  /\ life \in [Insts -> {"unused", "built", "starting", "started", "closed",
                         "reopening", "zombie"}]
  /\ target \in [Insts -> Targets \cup {None}]
  /\ hostname \in [Insts -> Hosts \cup {None}]
  /\ setup \in [Insts -> {"none", "pending", "running", "written", "skipped", "done",
                          "kept"}]
  /\ record \in [Hosts -> Insts \cup {None}]
  /\ pc \in [Procs -> PCs]
  /\ act \in [Procs -> Actions \cup {None}]
  /\ tgt \in [Procs -> Targets \cup {None}]
  /\ host \in [Procs -> Hosts \cup {None}]
  /\ inst \in [Procs -> Insts \cup {None}]
  /\ old \in [Procs -> Insts \cup {None}]
  /\ from \in [Procs -> {"stop", "replace", "fail", "reap", None}]
  /\ cnt \in [Procs -> Nat]

Init ==
  /\ Proxies = [h \in Hosts |-> None]
  /\ targetIndex = [t \in Targets |-> None]
  /\ gauge = 0
  /\ shut = "up"
  /\ targetLocks = [t \in Targets |-> None]
  /\ hostLocks = [h \in Hosts |-> None]
  /\ life = [i \in Insts |-> "unused"]
  /\ target = [i \in Insts |-> None]
  /\ hostname = [i \in Insts |-> None]
  /\ setup = [i \in Insts |-> "none"]
  /\ record = [h \in Hosts |-> None]
  /\ pc = [p \in Procs |-> "idle"]
  /\ act = [p \in Procs |-> None]
  /\ tgt = [p \in Procs |-> None]
  /\ host = [p \in Procs |-> None]
  /\ inst = [p \in Procs |-> None]
  /\ old = [p \in Procs |-> None]
  /\ from = [p \in Procs |-> None]
  /\ cnt = [p \in Procs |-> 0]

Goto(p, l) == pc' = [pc EXCEPT ![p] = l]

\* The goroutine ends (or its request returns); nothing of it is left.
Finish(p) ==
  /\ Goto(p, "idle")
  /\ act' = [act EXCEPT ![p] = None]
  /\ tgt' = [tgt EXCEPT ![p] = None]
  /\ host' = [host EXCEPT ![p] = None]
  /\ inst' = [inst EXCEPT ![p] = None]
  /\ old' = [old EXCEPT ![p] = None]
  /\ from' = [from EXCEPT ![p] = None]
  /\ cnt' = [cnt EXCEPT ![p] = 0]

-----------------------------------------------------------------------------
(* Entering: events and dashboard requests. *)

(***************************************************************************)
(* dispatchProxyEvent: a new goroutine per event.  Its stopping check may  *)
(* have been made just before StopAllProxies began, so it also happens     *)
(* until eventsWg.Wait() has returned.                                     *)
(***************************************************************************)
DispatchEvent(p, t, a) ==
  /\ p \in Handlers
  /\ pc[p] = "idle"
  /\ shut \in {"up", "stopping"}
  /\ act' = [act EXCEPT ![p] = a]
  /\ tgt' = [tgt EXCEPT ![p] = t]
  /\ Goto(p, "target")
  /\ UNCHANGED <<registry, gauge, shut, locks, proxy, domain, host, inst, old,
                 from, cnt>>

\* RestartProxy, the first lookup of withCurrentProxy (no proxy: an error).
RequestRestart(p, h) ==
  /\ p \in Clients
  /\ pc[p] = "idle"
  /\ Proxies[h] # None
  /\ act' = [act EXCEPT ![p] = "dashboard"]
  /\ tgt' = [tgt EXCEPT ![p] = target[Proxies[h]]]
  /\ host' = [host EXCEPT ![p] = h]
  /\ inst' = [inst EXCEPT ![p] = Proxies[h]]
  /\ Goto(p, "target")
  /\ UNCHANGED <<registry, gauge, shut, locks, proxy, domain, old, from, cnt>>

\* targetLocks.Lock, in HandleProxyEvent and in withCurrentProxy.
LockTarget(p) ==
  /\ pc[p] = "target"
  /\ targetLocks[tgt[p]] = None
  /\ targetLocks' = [targetLocks EXCEPT ![tgt[p]] = p]
  /\ Goto(p, CASE act[p] = "start" -> "add"
               [] act[p] \in {"stop", "restart"} -> "index"
               [] act[p] = "dashboard" -> "current")
  /\ UNCHANGED <<registry, gauge, shut, hostLocks, proxy, domain, task>>

\* withCurrentProxy, the second lookup: still the same instance?  On to the
\* first stopping check of newProxy.
CheckCurrent(p) ==
  /\ pc[p] = "current"
  /\ inst' = [inst EXCEPT ![p] = None]
  /\ Goto(p, IF Proxies[host[p]] = inst[p] /\ ~stopping THEN "newLock"
                                                        ELSE "unlock")
  /\ UNCHANGED <<registry, gauge, shut, locks, proxy, domain, act, tgt, host,
                 old, from, cnt>>

-----------------------------------------------------------------------------
(* eventStop. *)

AfterStop(p) == IF act[p] = "restart" THEN "add" ELSE "unlock"

\* The hostname is read under RLock, before the hostname lock is held.
ReadIndex(p) ==
  /\ pc[p] = "index"
  /\ host' = [host EXCEPT ![p] = targetIndex[tgt[p]]]
  /\ Goto(p, IF targetIndex[tgt[p]] = None THEN AfterStop(p) ELSE "stopLock")
  /\ UNCHANGED <<registry, gauge, shut, locks, proxy, domain, act, tgt, inst,
                 old, from, cnt>>

\* Mutant of LockHost: eventStop does not take the hostname lock.
LockHostSkipped(p) ==
  /\ pc[p] \in {"stopLock", "failLock"}
  /\ from' = [from EXCEPT ![p] = IF pc[p] = "stopLock" THEN "stop" ELSE "fail"]
  /\ Goto(p, "remove")
  /\ UNCHANGED <<registry, gauge, shut, locks, proxy, domain, act, tgt, host,
                 inst, old, cnt>>

\* hostLocks.Lock in eventStop and in closeProxyIfStillCurrent.
LockHost(p) ==
  /\ pc[p] \in {"stopLock", "failLock"}
  /\ hostLocks[host[p]] = None
  /\ hostLocks' = [hostLocks EXCEPT ![host[p]] = p]
  /\ from' = [from EXCEPT ![p] = IF pc[p] = "stopLock" THEN "stop" ELSE "fail"]
  /\ Goto(p, "remove")
  /\ UNCHANGED <<registry, gauge, shut, targetLocks, proxy, domain, act, tgt,
                 host, inst, old, cnt>>

-----------------------------------------------------------------------------
(* removeAndTeardown and teardownProxy. *)

\* The identity predicate of each caller.
Matches(p, i) ==
  /\ i # None
  /\ from[p] = "stop" => target[i] = tgt[p]
  /\ from[p] = "fail" => i = inst[p]

\* Mutant of Remove: the index entry of the removed proxy is forgotten.
RemoveKeepsIndex(p) ==
  /\ pc[p] = "remove"
  /\ IF Matches(p, Proxies[host[p]])
     THEN /\ Proxies' = [Proxies EXCEPT ![host[p]] = None]
          /\ old' = [old EXCEPT ![p] = Proxies[host[p]]]
          /\ Goto(p, "drain")
     ELSE Goto(p, "removed") /\ UNCHANGED <<Proxies, old>>
  /\ UNCHANGED <<targetIndex, gauge, shut, locks, proxy, domain, act, tgt, host,
                 inst, from, cnt>>

\* The map entries go in one critical section; nothing matches: return nil.
Remove(p) ==
  /\ pc[p] = "remove"
  /\ LET h == host[p]
         i == Proxies[h]
     IN IF Matches(p, i)
        THEN /\ Proxies' = [Proxies EXCEPT ![h] = None]
             /\ targetIndex' = [targetIndex EXCEPT ![target[i]] =
                                  IF @ = h THEN None ELSE @]
             /\ old' = [old EXCEPT ![p] = i]
             /\ Goto(p, "drain")
        ELSE /\ Goto(p, "removed")
             /\ UNCHANGED <<registry, old>>
  /\ UNCHANGED <<gauge, shut, locks, proxy, domain, act, tgt, host, inst, from,
                 cnt>>

\* Mutant of Drain: Done is not called when the domain's config is refused.
DrainDoneOnly(p) ==
  /\ pc[p] = "drain"
  /\ setup[old[p]] \in {"none", "done"}
  /\ Goto(p, "cleanup")
  /\ UNCHANGED <<registry, gauge, shut, locks, proxy, domain, task>>

\* cancelCtx, setupWg.Wait() and stopCertTracker.
Drain(p) ==
  /\ pc[p] = "drain"
  /\ setup[old[p]] \in {"none", "skipped", "done"}
  /\ Goto(p, "cleanup")
  /\ UNCHANGED <<registry, gauge, shut, locks, proxy, domain, task>>

\* cleanupDomainForProxy deletes the record by its name, whoever wrote it.  An
\* error is logged, and nothing is deleted when clean-up is turned off: the
\* record stays ("kept").
Cleanup(p) ==
  /\ pc[p] = "cleanup"
  /\ \/ setup[old[p]] # "done" /\ UNCHANGED domain
     \/ /\ setup[old[p]] = "done"
        /\ record' = [record EXCEPT ![hostname[old[p]]] = None]
        /\ UNCHANGED setup
     \/ /\ setup[old[p]] = "done"
        /\ setup' = [setup EXCEPT ![old[p]] = "kept"]
        /\ UNCHANGED record
  /\ Goto(p, "close")
  /\ UNCHANGED <<registry, gauge, shut, locks, proxy, task>>

\* p.Close(): waits on opMu while Start holds it.
Close(p) ==
  /\ pc[p] = "close"
  /\ life[old[p]] \in {"built", "started"}
  /\ life' = [life EXCEPT ![old[p]] = "closed"]
  /\ Goto(p, IF Metrics THEN "teardownCount" ELSE "removed")
  /\ UNCHANGED <<registry, gauge, shut, locks, target, hostname, domain, task>>

\* updateProxyCount reads the length under RLock ...
ReadCount(p) ==
  /\ pc[p] \in {"count", "teardownCount"}
  /\ cnt' = [cnt EXCEPT ![p] = Cardinality({h \in Hosts : Proxies[h] # None})]
  /\ Goto(p, IF pc[p] = "count" THEN "gauge" ELSE "teardownGauge")
  /\ UNCHANGED <<registry, gauge, shut, locks, proxy, domain, act, tgt, host,
                 inst, old, from>>

\* ... and sets the metric after it has released the lock.
SetGauge(p) ==
  /\ pc[p] \in {"gauge", "teardownGauge"}
  /\ gauge' = cnt[p]
  /\ cnt' = [cnt EXCEPT ![p] = 0]
  /\ Goto(p, IF pc[p] = "gauge" THEN "newUnlock" ELSE "removed")
  /\ UNCHANGED <<registry, shut, locks, proxy, domain, act, tgt, host, inst,
                 old, from>>

Return(p, l, i) ==
  /\ Goto(p, l)
  /\ inst' = [inst EXCEPT ![p] = i]
  /\ old' = [old EXCEPT ![p] = None]
  /\ from' = [from EXCEPT ![p] = None]
  /\ UNCHANGED <<act, tgt, host, cnt>>

\* Mutant of Removed: eventStop keeps the hostname lock.
RemovedKeepsLock(p) ==
  /\ pc[p] = "removed"
  /\ \/ /\ from[p] = "stop"
        /\ Return(p, AfterStop(p), inst[p])
        /\ UNCHANGED hostLocks
     \/ /\ from[p] = "replace"
        /\ Return(p, "build", inst[p])
        /\ UNCHANGED hostLocks
     \/ /\ from[p] = "fail"
        /\ hostLocks' = [hostLocks EXCEPT ![host[p]] = None]
        /\ IF act[p] = "dashboard" THEN Return(p, "unlock", None) ELSE Finish(p)
     \/ /\ from[p] = "reap"
        /\ Finish(p)
        /\ UNCHANGED hostLocks
  /\ UNCHANGED <<registry, gauge, shut, targetLocks, proxy, domain>>

\* removeAndTeardown returns; its callers release the hostname lock, except
\* newProxy, which goes on to build, and removeProxy, which has none.
Removed(p) ==
  /\ pc[p] = "removed"
  /\ \/ /\ from[p] = "stop"
        /\ hostLocks' = [hostLocks EXCEPT ![host[p]] = None]
        /\ Return(p, AfterStop(p), inst[p])
     \/ /\ from[p] = "replace"
        /\ Return(p, "build", inst[p])
        /\ UNCHANGED hostLocks
     \/ /\ from[p] = "fail"
        /\ hostLocks' = [hostLocks EXCEPT ![host[p]] = None]
        /\ IF act[p] = "dashboard" THEN Return(p, "unlock", None) ELSE Finish(p)
     \/ /\ from[p] = "reap"
        /\ Finish(p)
        /\ UNCHANGED hostLocks
  /\ UNCHANGED <<registry, gauge, shut, targetLocks, proxy, domain>>

-----------------------------------------------------------------------------
(* eventStart and newProxy. *)

\* AddTarget fails, or gives the config; the first stopping check of newProxy.
AddTarget(p) ==
  /\ pc[p] = "add"
  /\ \/ Goto(p, "unlock") /\ UNCHANGED host
     \/ \E h \in HostsOf[tgt[p]] :
          /\ host' = [host EXCEPT ![p] = h]
          /\ Goto(p, IF stopping THEN "unlock" ELSE "newLock")
  /\ UNCHANGED <<registry, gauge, shut, locks, proxy, domain, act, tgt, inst,
                 old, from, cnt>>

\* Mutant of LockNewHost: newProxy does not wait for the hostname lock.
LockNewHostSkipped(p) ==
  /\ pc[p] = "newLock"
  /\ hostLocks' = [hostLocks EXCEPT ![host[p]] = p]
  /\ Goto(p, "resolve")
  /\ UNCHANGED <<registry, gauge, shut, targetLocks, proxy, domain, task>>

\* newProxy: hostLocks.Lock.
LockNewHost(p) ==
  /\ pc[p] = "newLock"
  /\ hostLocks[host[p]] = None
  /\ hostLocks' = [hostLocks EXCEPT ![host[p]] = p]
  /\ Goto(p, "resolve")
  /\ UNCHANGED <<registry, gauge, shut, targetLocks, proxy, domain, task>>

\* Mutant of Resolve: the proxy with the same hostname is not closed first.
ResolveKeepsOld(p) ==
  /\ pc[p] = "resolve"
  /\ \/ Goto(p, "newUnlock")
     \/ ~stopping /\ Goto(p, "build")
  /\ UNCHANGED <<registry, gauge, shut, locks, proxy, domain, task>>

\* newProxy: the second stopping check, resolveProxyProvider (it may fail), on
\* to closeAndRemoveProxy.
Resolve(p) ==
  /\ pc[p] = "resolve"
  /\ \/ Goto(p, "newUnlock") /\ UNCHANGED from
     \/ /\ ~stopping
        /\ from' = [from EXCEPT ![p] = "replace"]
        /\ Goto(p, "remove")
  /\ UNCHANGED <<registry, gauge, shut, locks, proxy, domain, act, tgt, host,
                 inst, old, cnt>>

\* buildProxy: NewProxy fails, or gives a new instance.
Build(p) ==
  /\ pc[p] = "build"
  /\ \/ Goto(p, "newUnlock") /\ UNCHANGED <<proxy, inst>>
     \/ \E i \in Insts :
          /\ life[i] = "unused"
          /\ life' = [life EXCEPT ![i] = "built"]
          /\ target' = [target EXCEPT ![i] = tgt[p]]
          /\ hostname' = [hostname EXCEPT ![i] = host[p]]
          /\ inst' = [inst EXCEPT ![p] = i]
          /\ Goto(p, "register")
  /\ UNCHANGED <<registry, gauge, shut, locks, domain, act, tgt, host, old,
                 from, cnt>>

Insert(p) ==
  /\ Proxies' = [Proxies EXCEPT ![host[p]] = inst[p]]
  /\ targetIndex' = [targetIndex EXCEPT ![tgt[p]] = host[p]]
  /\ Goto(p, "configure")
  /\ UNCHANGED <<life, inst>>

Refuse(p) ==
  /\ life' = [life EXCEPT ![inst[p]] = "closed"]
  /\ inst' = [inst EXCEPT ![p] = None]
  /\ Goto(p, "newUnlock")
  /\ UNCHANGED registry

\* Mutant of Register: the index is not updated.
RegisterNoIndex(p) ==
  /\ pc[p] = "register"
  /\ IF stopping
     THEN Refuse(p) /\ UNCHANGED setup
     ELSE /\ Proxies' = [Proxies EXCEPT ![host[p]] = inst[p]]
          /\ setup' = [setup EXCEPT ![inst[p]] =
                         IF host[p] \in WithDomain THEN "pending" ELSE @]
          /\ Goto(p, "configure")
          /\ UNCHANGED <<targetIndex, life, inst>>
  /\ UNCHANGED <<gauge, shut, locks, target, hostname, record, act, tgt, host,
                 old, from, cnt>>

\* Mutant of Register: no stopping check under proxyMu.
RegisterAlways(p) ==
  /\ pc[p] = "register"
  /\ Insert(p)
  /\ setup' = [setup EXCEPT ![inst[p]] =
                 IF host[p] \in WithDomain THEN "pending" ELSE @]
  /\ UNCHANGED <<gauge, shut, locks, target, hostname, record, act, tgt, host,
                 old, from, cnt>>

\* registerProxy: setupWg.Add(1) and both maps in one critical section, or,
\* when shutdown has begun, a proxy that is closed again.
Register(p) ==
  /\ pc[p] = "register"
  /\ IF stopping
     THEN Refuse(p) /\ UNCHANGED setup
     ELSE /\ Insert(p)
          /\ setup' = [setup EXCEPT ![inst[p]] =
                         IF host[p] \in WithDomain THEN "pending" ELSE @]
  /\ UNCHANGED <<gauge, shut, locks, target, hostname, record, act, tgt, host,
                 old, from, cnt>>

\* configureProxyDomain: no domain, a config error (setupWg.Done at once), or
\* the set-up goroutine is launched.
Configure(p) ==
  /\ pc[p] = "configure"
  /\ IF host[p] \in WithDomain
     THEN \E s \in {"skipped", "running"} : setup' = [setup EXCEPT ![inst[p]] = s]
     ELSE UNCHANGED setup
  /\ Goto(p, IF Metrics THEN "count" ELSE "newUnlock")
  /\ UNCHANGED <<registry, gauge, shut, locks, proxy, record, task>>

\* newProxy returns: the deferred unlock.  RestartProxy goes on to Start with
\* the target lock held, an event handler gives that lock back first.
UnlockNewHost(p) ==
  /\ pc[p] = "newUnlock"
  /\ hostLocks' = [hostLocks EXCEPT ![host[p]] = None]
  /\ Goto(p, IF act[p] = "dashboard" /\ inst[p] # None THEN "start" ELSE "unlock")
  /\ UNCHANGED <<registry, gauge, shut, targetLocks, proxy, domain, task>>

UnlockTarget(p) ==
  /\ pc[p] = "unlock"
  /\ targetLocks' = [targetLocks EXCEPT ![tgt[p]] = None]
  /\ IF act[p] # "dashboard" /\ inst[p] # None
     THEN Goto(p, "recheck") /\ UNCHANGED task
     ELSE Finish(p)
  /\ UNCHANGED <<registry, gauge, shut, hostLocks, proxy, domain>>

-----------------------------------------------------------------------------
(* Start. *)

\* HandleProxyEvent looks the proxy up again, without a lock ...
Recheck(p) ==
  /\ pc[p] = "recheck"
  /\ IF Proxies[host[p]] = inst[p]
     THEN Goto(p, "start") /\ UNCHANGED task
     ELSE Finish(p)
  /\ UNCHANGED <<registry, gauge, shut, locks, proxy, domain>>

\* ... and calls Start, which takes opMu and does not ask whether the proxy
\* was closed in between.
StartProvider(p) ==
  /\ pc[p] = "start"
  /\ life' = [life EXCEPT ![inst[p]] =
                IF @ = "closed" THEN "reopening" ELSE "starting"]
  /\ Goto(p, "starting")
  /\ UNCHANGED <<registry, gauge, shut, locks, target, hostname, domain, task>>

\* startProvider returns and opMu is released.
ProviderStarted(p) ==
  /\ pc[p] = "starting"
  /\ \/ /\ life' = [life EXCEPT ![inst[p]] =
                      IF @ = "reopening" THEN "zombie" ELSE "started"]
        /\ Goto(p, "listen")
     \/ /\ life' = [life EXCEPT ![inst[p]] =
                      IF @ = "reopening" THEN "closed" ELSE "built"]
        /\ Goto(p, "failLock")
  /\ UNCHANGED <<registry, gauge, shut, locks, target, hostname, domain, task>>

\* startListeners: some listener works, or none does.
StartListeners(p) ==
  /\ pc[p] = "listen"
  /\ \/ Goto(p, "failLock") /\ UNCHANGED task
     \/ IF act[p] = "dashboard"
        THEN /\ Goto(p, "unlock")
             /\ inst' = [inst EXCEPT ![p] = None]
             /\ UNCHANGED <<act, tgt, host, old, from, cnt>>
        ELSE Finish(p)
  /\ UNCHANGED <<registry, gauge, shut, locks, proxy, domain>>

-----------------------------------------------------------------------------
(* The domain set-up goroutine of a proxy. *)

\* Its context is canceled by teardownProxy and by StopAllProxies.
Canceled(i) == stopping \/ Proxies[hostname[i]] # i

\* setupDomainForProxy fails before CreateRecord, or the record is written.
SetupDNS(i) ==
  /\ setup[i] = "running"
  /\ \/ setup' = [setup EXCEPT ![i] = "done"] /\ UNCHANGED record
     \/ /\ setup' = [setup EXCEPT ![i] = "written"]
        /\ record' = [record EXCEPT ![hostname[i]] = i]
  /\ UNCHANGED <<registry, gauge, shut, locks, proxy, pc, task>>

\* It ends with the record in place, or rolls it back when TLS provisioning
\* fails and the context is still alive; setupWg.Done.
SetupEnds(i) ==
  /\ setup[i] = "written"
  /\ setup' = [setup EXCEPT ![i] = "done"]
  /\ \/ UNCHANGED record
     \/ ~Canceled(i) /\ record' = [record EXCEPT ![hostname[i]] = None]
  /\ UNCHANGED <<registry, gauge, shut, locks, proxy, pc, task>>

-----------------------------------------------------------------------------
(* StopAllProxies. *)

\* stopping.Store(true) and cancel().
StopAllProxies ==
  /\ shut = "up"
  /\ shut' = "stopping"
  /\ UNCHANGED <<registry, gauge, locks, proxy, domain, pc, task>>

\* eventsWg.Wait(): the watchers have left; no event is dispatched any more.
WatchersGone ==
  /\ shut = "stopping"
  /\ shut' = "drained"
  /\ UNCHANGED <<registry, gauge, locks, proxy, domain, pc, task>>

ReapSnapshot ==
  /\ shut' = "reaping"
  /\ LET ids == {h \in Hosts : Proxies[h] # None}
     IN /\ pc' = [p \in Procs |-> IF p \in ids THEN "remove" ELSE pc[p]]
        /\ act' = [p \in Procs |-> IF p \in ids THEN "reap" ELSE act[p]]
        /\ host' = [p \in Procs |-> IF p \in ids THEN p ELSE host[p]]
        /\ from' = [p \in Procs |-> IF p \in ids THEN "reap" ELSE from[p]]
  /\ UNCHANGED <<registry, gauge, locks, proxy, domain, tgt, inst, old, cnt>>

\* eventHandlerWg.Wait(), the snapshot of hostnames, a goroutine for each.
ReapAll ==
  /\ shut = "drained"
  /\ \A p \in Handlers : pc[p] = "idle"
  /\ ReapSnapshot

\* wg.Wait() and the return of StopAllProxies.
AllStopped ==
  /\ shut = "reaping"
  /\ \A h \in Hosts : pc[h] = "idle"
  /\ shut' = "done"
  /\ UNCHANGED <<registry, gauge, locks, proxy, domain, pc, task>>

-----------------------------------------------------------------------------
Enter(p) ==
  \/ \E t \in Targets, a \in {"start", "stop", "restart"} : DispatchEvent(p, t, a)
  \/ \E h \in Hosts : RequestRestart(p, h)

Step(p) ==
  \/ LockTarget(p) \/ CheckCurrent(p) \/ ReadIndex(p) \/ LockHost(p)
  \/ Remove(p) \/ Drain(p) \/ Cleanup(p) \/ Close(p)
  \/ ReadCount(p) \/ SetGauge(p) \/ Removed(p)
  \/ AddTarget(p) \/ LockNewHost(p) \/ Resolve(p) \/ Build(p) \/ Register(p)
  \/ Configure(p) \/ UnlockNewHost(p) \/ UnlockTarget(p)
  \/ Recheck(p) \/ StartProvider(p) \/ ProviderStarted(p) \/ StartListeners(p)

Shutdown == StopAllProxies \/ WatchersGone \/ ReapAll \/ AllStopped

Next ==
  \/ \E p \in Workers : Enter(p)
  \/ \E p \in Procs : Step(p)
  \/ \E i \in Insts : SetupDNS(i) \/ SetupEnds(i)
  \/ Shutdown

Spec == Init /\ [][Next]_vars

(***************************************************************************)
(* Goroutines run, and sync.Mutex does not starve a waiter (the lock steps *)
(* are the only ones of Step that can be disabled again before they are    *)
(* taken); the domain set-up ends because its waits have timeouts and its  *)
(* context is canceled; provider.WatchEvents returns when its context is   *)
(* canceled.  Nothing is assumed of events, of dashboard requests or of    *)
(* the call of StopAllProxies.                                             *)
(***************************************************************************)
Fairness ==
  /\ \A p \in Procs : SF_vars(Step(p))
  /\ \A i \in Insts : WF_vars(SetupDNS(i) \/ SetupEnds(i))
  /\ WF_vars(WatchersGone \/ ReapAll \/ AllStopped)

FairSpec == Spec /\ Fairness

-----------------------------------------------------------------------------
(* Properties. *)

\* The index leads to a proxy of that very target: eventStop, which looks the
\* hostname up before it holds the hostname lock, never finds an entry left
\* behind by a proxy that another target's proxy has replaced.
IndexSound ==
  \A t \in Targets : targetIndex[t] # None =>
     /\ Proxies[targetIndex[t]] # None
     /\ target[Proxies[targetIndex[t]]] = t

\* While a target keeps its hostname, every registered proxy can be found (and
\* so stopped) through the index: starts, restarts and replacements by another
\* target with the same hostname do not orphan one.
Stoppable ==
  (\A t \in Targets : Cardinality(HostsOf[t]) = 1) =>
     \A h \in Hosts : Proxies[h] # None => targetIndex[target[Proxies[h]]] = h

\* A proxy that was started after its Close (NotStartedAfterClose).
Late(i) == life[i] \in {"reopening", "zombie"}
Up(i) == life[i] \in {"starting", "started"} \/ Late(i)

\* Of two nodes of one hostname that are up, one was started after its Close,
\* which is the only way to two (see NotStartedAfterClose), and such a one is
\* not the registered proxy: a replacement is started after the old node is
\* closed, also while StopAllProxies works without the hostname locks.
OneNodePerHost ==
  /\ \A i, j \in Insts :
       i # j /\ hostname[i] = hostname[j] /\ Up(i) /\ Up(j) => Late(i) \/ Late(j)
  /\ \A h \in Hosts : Proxies[h] # None => ~Late(Proxies[h])

\* The order of the locks: the holder of a hostname lock waits for no lock, so
\* that goroutines which come from different targets, or from a failed start,
\* never wait for each other in a circle.
LockOrder ==
  \A h \in Hosts : hostLocks[h] # None =>
     pc[hostLocks[h]] \notin {"target", "stopLock", "newLock", "failLock"}

TearingDown(p, i) == old[p] = i /\ pc[p] \in {"drain", "cleanup", "close"}
Registering(p, i) == inst[p] = i /\ pc[p] = "register"

\* A proxy that Close has not been called for is registered, or exactly one
\* goroutine is about to register it or to close it: no path of errors,
\* replacement or shutdown loses one, and none is torn down twice.  (One that is
\* started after its Close is nobody's any more: see NotStartedAfterClose.)
NothingLost ==
  \A i \in Insts : life[i] \in {"built", "starting", "started"} =>
     Cardinality({p \in Procs : TearingDown(p, i) \/ Registering(p, i)})
       = IF Proxies[hostname[i]] = i THEN 0 ELSE 1

\* teardownProxy deletes the DNS record of its own proxy, never the one that
\* the proxy's replacement has published for the same domain (the comment on
\* eventStop).  The only other record it may find is one that an earlier clean-up
\* of the domain has failed to delete.
CleansOwnRecord ==
  \A p \in Procs : pc[p] = "cleanup" =>
     LET r == record[hostname[old[p]]] IN
     r \notin {None, old[p]} => setup[r] = "kept"

\* A record outlives its proxy only if the clean-up did not delete it: set-up
\* goroutines do not publish after the clean-up (the comment on registerProxy
\* about the Add/Wait race).
NoOrphanRecord ==
  \A h \in Hosts : record[h] # None =>
     \/ Proxies[h] = record[h]
     \/ setup[record[h]] = "kept"
     \/ \E p \in Procs : old[p] = record[h] /\ pc[p] \in {"drain", "cleanup"}

\* When StopAllProxies returns, the maps are empty and Close has been called for
\* every proxy, except those that a dashboard request, which nobody waits for,
\* is tearing down.
ShutdownComplete ==
  shut = "done" =>
     /\ \A h \in Hosts : Proxies[h] = None
     /\ \A t \in Targets : targetIndex[t] = None
     /\ \A i \in Insts : life[i] \in {"built", "starting", "started"} =>
          \E c \in Clients : TearingDown(c, i) \/ inst[c] = i

\* Nothing that the manager has to close, delete or remove is lost: proxies
\* before their Close, the DNS records of set-ups, and what a shutdown finds.
NothingLeftBehind == NothingLost /\ NoOrphanRecord /\ ShutdownComplete

\* Every event is handled to the end and every request returns: the target
\* lock, then the hostname lock, then the waits of teardownProxy.
EveryoneReturns == \A p \in Procs : pc[p] # "idle" ~> pc[p] = "idle"

\* A shutdown that has begun ends.
ShutdownEnds == shut = "stopping" ~> shut = "done"

-----------------------------------------------------------------------------
(* A statement of the code's comments that does not hold. *)

\* A proxy that Close has finished with is not started: the re-check in
\* HandleProxyEvent is there because "A concurrent stop event could have
\* removed and closed it between the target lock release and here".
NotStartedAfterClose == \A i \in Insts : life[i] # "zombie"
=============================================================================
