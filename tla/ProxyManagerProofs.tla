-------------------------- MODULE ProxyManagerProofs --------------------------
(***************************************************************************)
(* The registry of the proxy manager is consistent, for any targets,       *)
(* hostnames, event handlers, dashboard requests and proxies: the index    *)
(* leads to a proxy of its target, and while targets keep their hostnames  *)
(* every registered proxy is found through it.                             *)
(*                                                                         *)
(* Neither is inductive: registerProxy overwrites the entry of a hostname, *)
(* which is harmless only because newProxy has removed the previous proxy  *)
(* (Cleared) and nobody can register another one in between, since the     *)
(* hostname lock is held from the removal to the registration (HostLocked).*)
(*                                                                         *)
(* The second part is about what is replaced, removed and shut down.       *)
(***************************************************************************)
EXTENDS ProxyManager, FiniteSetTheorems, TLAPS

RemovalPCs == {"remove", "drain", "cleanup", "close", "teardownCount",
               "teardownGauge", "removed"}

\* The locals a goroutine has set by the time it reaches a place.
LocalOK ==
  \A p \in Procs :
    /\ p \in Workers /\ pc[p] # "idle" => tgt[p] \in Targets
    /\ p \in Hosts => pc[p] \in RemovalPCs \cup {"idle"}
    /\ p \in Hosts /\ pc[p] # "idle" => from[p] = "reap"
    /\ pc[p] = "target" => act[p] \in {"start", "stop", "restart", "dashboard"}
    /\ pc[p] \notin {"idle", "target", "index", "add", "unlock"} => host[p] \in Hosts
    /\ pc[p] \in RemovalPCs => from[p] \in {"stop", "replace", "fail", "reap"}
    /\ pc[p] \in RemovalPCs /\ from[p] = "reap" => p \in Hosts
    /\ pc[p] = "unlock" /\ inst[p] # None => host[p] \in Hosts
    /\ pc[p] = "target" /\ act[p] = "dashboard" => host[p] \in Hosts
    /\ pc[p] \in {"idle", "index", "add"} => inst[p] = None
    /\ pc[p] = "stopLock" => inst[p] = None
    /\ pc[p] \in RemovalPCs /\ from[p] = "stop" => inst[p] = None
    /\ pc[p] = "target" /\ act[p] # "dashboard" => inst[p] = None

\* Between hostLocks.Lock and its unlock the goroutine owns the hostname.
OwnsHost(p) ==
  \/ pc[p] \in {"resolve", "build", "register", "configure", "count", "gauge",
                "newUnlock"}
  \/ pc[p] \in RemovalPCs /\ from[p] # "reap"

HostLocked == \A p \in Procs : OwnsHost(p) => hostLocks[host[p]] = p

\* newProxy has removed the hostname's previous proxy and nobody has registered
\* another one since.
Cleared ==
  \A p \in Procs :
    \/ pc[p] \in {"build", "register"}
    \/ pc[p] \in RemovalPCs \ {"remove"} /\ from[p] = "replace"
    => Proxies[host[p]] = None

\* A goroutine on its way to registerProxy works on a hostname of its target.
Hosted(p) ==
  \/ pc[p] \in {"current", "newLock", "resolve", "build", "register"}
  \/ pc[p] = "target" /\ act[p] = "dashboard"
  \/ pc[p] \in RemovalPCs /\ from[p] = "replace"

HostAllowed == \A p \in Procs : Hosted(p) => host[p] \in HostsOf[tgt[p]]

\* The proxy about to be registered carries the target and the hostname.
RegisterReady ==
  \A p \in Procs : pc[p] = "register" =>
    /\ inst[p] \in Insts
    /\ life[inst[p]] # "unused"
    /\ target[inst[p]] = tgt[p]
    /\ hostname[inst[p]] = host[p]

\* A registered proxy is at its own hostname and has a target.
RegisteredOK ==
  \A h \in Hosts : Proxies[h] # None =>
    /\ life[Proxies[h]] # "unused"
    /\ hostname[Proxies[h]] = h
    /\ target[Proxies[h]] \in Targets
    /\ h \in HostsOf[target[Proxies[h]]]

IInv == TypeOK /\ LocalOK /\ HostLocked /\ HostAllowed /\ Cleared
          /\ RegisterReady /\ RegisteredOK /\ IndexSound /\ Stoppable

-----------------------------------------------------------------------------
\* A goroutine that ends leaves well-typed locals.
LEMMA FinishTypes ==
  ASSUME TypeOK, NEW p \in Procs, Finish(p)
  PROVE  /\ pc' \in [Procs -> PCs]
         /\ act' \in [Procs -> Actions \cup {None}]
         /\ tgt' \in [Procs -> Targets \cup {None}]
         /\ host' \in [Procs -> Hosts \cup {None}]
         /\ inst' \in [Procs -> Insts \cup {None}]
         /\ old' \in [Procs -> Insts \cup {None}]
         /\ from' \in [Procs -> {"stop", "replace", "fail", "reap", None}]
         /\ cnt' \in [Procs -> Nat]
<1> USE DEF Finish, Goto
<1>1. pc' \in [Procs -> PCs]
  BY DEF TypeOK, PCs
<1>2. act' \in [Procs -> Actions \cup {None}]
  BY DEF TypeOK
<1>3. tgt' \in [Procs -> Targets \cup {None}]
  BY DEF TypeOK
<1>4. host' \in [Procs -> Hosts \cup {None}]
  BY DEF TypeOK
<1>5. inst' \in [Procs -> Insts \cup {None}] /\ old' \in [Procs -> Insts \cup {None}]
  BY DEF TypeOK
<1>6. from' \in [Procs -> {"stop", "replace", "fail", "reap", None}]
  BY DEF TypeOK
<1>7. cnt' \in [Procs -> Nat]
  BY DEF TypeOK
<1> QED BY <1>1, <1>2, <1>3, <1>4, <1>5, <1>6, <1>7

\* An event handler that waits for its target lock holds nothing yet.
LEMMA DispatchEventStep ==
  ASSUME IInv, NEW p \in Workers, NEW t \in Targets, NEW a \in {"start", "stop", "restart"}, DispatchEvent(p, t, a)
  PROVE  IInv'
<1> USE DEF DispatchEvent, Goto, registry, locks, proxy, domain, task
<1>1. TypeOK'
  BY NoneFresh, DisjointProcs
     DEF IInv, TypeOK, LocalOK, PCs, Actions
<1>2. LocalOK'
  BY NoneFresh, DisjointProcs
     DEF IInv, TypeOK, LocalOK, RemovalPCs, Workers, Procs
<1>3. HostLocked'
  BY NoneFresh, DisjointProcs
     DEF IInv, TypeOK, LocalOK, HostLocked, OwnsHost, RemovalPCs, Workers, Procs
<1>4. HostAllowed'
  BY NoneFresh, DisjointProcs
     DEF IInv, TypeOK, LocalOK, HostAllowed, Hosted, RemovalPCs, Workers, Procs
<1>5. Cleared'
  BY NoneFresh, DisjointProcs
     DEF IInv, TypeOK, LocalOK, Cleared, RemovalPCs, Workers, Procs
<1>6. RegisterReady'
  BY NoneFresh, DisjointProcs
     DEF IInv, TypeOK, LocalOK, RegisterReady, RemovalPCs, Workers, Procs
<1>7. RegisteredOK' /\ IndexSound' /\ Stoppable'
  BY DEF IInv, RegisteredOK, IndexSound, Stoppable
<1> QED BY <1>1, <1>2, <1>3, <1>4, <1>5, <1>6, <1>7 DEF IInv

\* A dashboard request takes target and hostname from a registered proxy.
LEMMA RequestRestartStep ==
  ASSUME IInv, NEW p \in Workers, NEW h \in Hosts, RequestRestart(p, h)
  PROVE  IInv'
<1> USE DEF RequestRestart, Goto, registry, locks, proxy, domain, task
<1>1. TypeOK'
  BY NoneFresh DEF IInv, TypeOK, RegisteredOK, PCs, Actions, Procs
<1>2. LocalOK'
  BY NoneFresh, DisjointProcs
     DEF IInv, TypeOK, LocalOK, RegisteredOK, RemovalPCs, Workers, Procs
<1>3. HostLocked'
  BY NoneFresh, DisjointProcs
     DEF IInv, TypeOK, LocalOK, HostLocked, OwnsHost, RemovalPCs, Workers, Procs
<1>4. HostAllowed'
  BY NoneFresh DEF IInv, TypeOK, HostAllowed, Hosted, RegisteredOK, RemovalPCs, Procs
<1>5. Cleared'
  BY NoneFresh, DisjointProcs
     DEF IInv, TypeOK, LocalOK, Cleared, RemovalPCs, Workers, Procs
<1>6. RegisterReady'
  BY NoneFresh, DisjointProcs
     DEF IInv, TypeOK, LocalOK, RegisterReady, RemovalPCs, Workers, Procs
<1>7. RegisteredOK' /\ IndexSound' /\ Stoppable'
  BY DEF IInv, RegisteredOK, IndexSound, Stoppable
<1> QED BY <1>1, <1>2, <1>3, <1>4, <1>5, <1>6, <1>7 DEF IInv

\* The target lock leads to eventStart, eventStop or the second lookup.
LEMMA LockTargetStep ==
  ASSUME IInv, NEW p \in Procs, LockTarget(p)
  PROVE  IInv'
<1> USE DEF LockTarget, Goto, registry, locks, proxy, domain, task
<1>1. TypeOK'
  BY NoneFresh, DisjointProcs
     DEF IInv, TypeOK, LocalOK, PCs, Actions
<1>2. LocalOK'
  BY NoneFresh, DisjointProcs
     DEF IInv, TypeOK, LocalOK, RemovalPCs, Workers, Procs
<1>3. HostLocked'
  BY NoneFresh, DisjointProcs
     DEF IInv, TypeOK, LocalOK, HostLocked, OwnsHost, RemovalPCs, Workers, Procs
<1>4. HostAllowed'
  BY NoneFresh, DisjointProcs
     DEF IInv, TypeOK, LocalOK, HostAllowed, Hosted, RemovalPCs, Workers, Procs
<1>5. Cleared'
  BY NoneFresh, DisjointProcs
     DEF IInv, TypeOK, LocalOK, Cleared, RemovalPCs, Workers, Procs
<1>6. RegisterReady'
  BY NoneFresh, DisjointProcs
     DEF IInv, TypeOK, LocalOK, RegisterReady, RemovalPCs, Workers, Procs
<1>7. RegisteredOK' /\ IndexSound' /\ Stoppable'
  BY DEF IInv, RegisteredOK, IndexSound, Stoppable
<1> QED BY <1>1, <1>2, <1>3, <1>4, <1>5, <1>6, <1>7 DEF IInv

\* The second lookup of withCurrentProxy changes nothing that is shared.
LEMMA CheckCurrentStep ==
  ASSUME IInv, NEW p \in Procs, CheckCurrent(p)
  PROVE  IInv'
<1> USE DEF CheckCurrent, Goto, registry, locks, proxy, domain, task, stopping
<1>1. TypeOK'
  BY NoneFresh, DisjointProcs
     DEF IInv, TypeOK, LocalOK, PCs, Actions
<1>2. LocalOK'
  BY NoneFresh, DisjointProcs
     DEF IInv, TypeOK, LocalOK, RemovalPCs, Workers, Procs
<1>3. HostLocked'
  BY NoneFresh, DisjointProcs
     DEF IInv, TypeOK, LocalOK, HostLocked, OwnsHost, RemovalPCs, Workers, Procs
<1>4. HostAllowed'
  BY NoneFresh, DisjointProcs
     DEF IInv, TypeOK, LocalOK, HostAllowed, Hosted, RemovalPCs, Workers, Procs
<1>5. Cleared'
  BY NoneFresh, DisjointProcs
     DEF IInv, TypeOK, LocalOK, Cleared, RemovalPCs, Workers, Procs
<1>6. RegisterReady'
  BY NoneFresh, DisjointProcs
     DEF IInv, TypeOK, LocalOK, RegisterReady, RemovalPCs, Workers, Procs
<1>7. RegisteredOK' /\ IndexSound' /\ Stoppable'
  BY DEF IInv, RegisteredOK, IndexSound, Stoppable
<1> QED BY <1>1, <1>2, <1>3, <1>4, <1>5, <1>6, <1>7 DEF IInv

\* eventStop finds a hostname, or has nothing to remove.
LEMMA ReadIndexStep ==
  ASSUME IInv, NEW p \in Procs, ReadIndex(p)
  PROVE  IInv'
<1> USE DEF ReadIndex, Goto, registry, locks, proxy, domain, task, AfterStop
<1>1. TypeOK'
  <2>1. tgt[p] \in Targets
    BY DEF IInv, LocalOK, Procs, RemovalPCs
  <2> QED BY <2>1 DEF IInv, TypeOK, PCs
<1>2. LocalOK'
  BY NoneFresh, DisjointProcs
     DEF IInv, TypeOK, LocalOK, RemovalPCs, Workers, Procs
<1>3. HostLocked'
  BY NoneFresh, DisjointProcs
     DEF IInv, TypeOK, LocalOK, HostLocked, OwnsHost, RemovalPCs, Workers, Procs
<1>4. HostAllowed'
  BY NoneFresh, DisjointProcs
     DEF IInv, TypeOK, LocalOK, HostAllowed, Hosted, RemovalPCs, Workers, Procs
<1>5. Cleared'
  BY NoneFresh, DisjointProcs
     DEF IInv, TypeOK, LocalOK, Cleared, RemovalPCs, Workers, Procs
<1>6. RegisterReady'
  BY NoneFresh, DisjointProcs
     DEF IInv, TypeOK, LocalOK, RegisterReady, RemovalPCs, Workers, Procs
<1>7. RegisteredOK' /\ IndexSound' /\ Stoppable'
  BY DEF IInv, RegisteredOK, IndexSound, Stoppable
<1> QED BY <1>1, <1>2, <1>3, <1>4, <1>5, <1>6, <1>7 DEF IInv

\* The hostname lock, free before, belongs to the goroutine.
LEMMA LockHostStep ==
  ASSUME IInv, NEW p \in Procs, LockHost(p)
  PROVE  IInv'
<1> USE DEF LockHost, Goto, registry, locks, proxy, domain, task
<1>1. TypeOK'
  BY NoneFresh, DisjointProcs
     DEF IInv, TypeOK, LocalOK, PCs, Actions
<1>2. LocalOK'
  BY NoneFresh, DisjointProcs
     DEF IInv, TypeOK, LocalOK, RemovalPCs, Workers, Procs
<1>3. HostLocked'
  BY NoneFresh, DisjointProcs
     DEF IInv, TypeOK, LocalOK, HostLocked, OwnsHost, RemovalPCs, Workers, Procs
<1>4. HostAllowed'
  BY NoneFresh, DisjointProcs
     DEF IInv, TypeOK, LocalOK, HostAllowed, Hosted, RemovalPCs, Workers, Procs
<1>5. Cleared'
  BY NoneFresh, DisjointProcs
     DEF IInv, TypeOK, LocalOK, Cleared, RemovalPCs, Workers, Procs
<1>6. RegisterReady'
  BY NoneFresh, DisjointProcs
     DEF IInv, TypeOK, LocalOK, RegisterReady, RemovalPCs, Workers, Procs
<1>7. RegisteredOK' /\ IndexSound' /\ Stoppable'
  BY DEF IInv, RegisteredOK, IndexSound, Stoppable
<1> QED BY <1>1, <1>2, <1>3, <1>4, <1>5, <1>6, <1>7 DEF IInv

\* Both maps lose the proxy in one step; newProxy finds its hostname cleared.
LEMMA RemoveStep ==
  ASSUME IInv, NEW p \in Procs, Remove(p)
  PROVE  IInv'
<1> USE DEF Remove, Goto, registry, locks, proxy, domain, task, Matches
<1>1. TypeOK'
  BY NoneFresh, DisjointProcs, SMTT(30)
     DEF IInv, TypeOK, LocalOK, PCs, Actions
<1>2. LocalOK'
  BY NoneFresh, DisjointProcs
     DEF IInv, TypeOK, LocalOK, RemovalPCs, Workers, Procs
<1>3. HostLocked'
  BY NoneFresh, DisjointProcs
     DEF IInv, TypeOK, LocalOK, HostLocked, OwnsHost, RemovalPCs, Workers, Procs
<1>4. HostAllowed'
  BY NoneFresh, DisjointProcs
     DEF IInv, TypeOK, LocalOK, HostAllowed, Hosted, RemovalPCs, Workers, Procs
<1>5. Cleared'
  BY NoneFresh DEF IInv, TypeOK, LocalOK, Cleared, RemovalPCs
<1>6. RegisterReady'
  BY NoneFresh, DisjointProcs
     DEF IInv, TypeOK, LocalOK, RegisterReady, RemovalPCs, Workers, Procs
<1>7. RegisteredOK'
  BY NoneFresh, DisjointProcs
     DEF IInv, TypeOK, RegisteredOK, RemovalPCs, Workers, Procs
<1>8. IndexSound'
  BY NoneFresh, DisjointProcs
     DEF IInv, TypeOK, IndexSound, RemovalPCs, Workers, Procs
<1>9. Stoppable'
  BY NoneFresh DEF IInv, TypeOK, Stoppable, RegisteredOK
<1> QED BY <1>1, <1>2, <1>3, <1>4, <1>5, <1>6, <1>7, <1>8, <1>9 DEF IInv

\* Waiting for the set-up goroutine changes nothing that is shared.
LEMMA DrainStep ==
  ASSUME IInv, NEW p \in Procs, Drain(p)
  PROVE  IInv'
<1> USE DEF Drain, Goto, registry, locks, proxy, domain, task
<1>1. TypeOK'
  BY NoneFresh, DisjointProcs
     DEF IInv, TypeOK, LocalOK, PCs, Actions
<1>2. LocalOK'
  BY NoneFresh, DisjointProcs
     DEF IInv, TypeOK, LocalOK, RemovalPCs, Workers, Procs
<1>3. HostLocked'
  BY NoneFresh, DisjointProcs
     DEF IInv, TypeOK, LocalOK, HostLocked, OwnsHost, RemovalPCs, Workers, Procs
<1>4. HostAllowed'
  BY NoneFresh, DisjointProcs
     DEF IInv, TypeOK, LocalOK, HostAllowed, Hosted, RemovalPCs, Workers, Procs
<1>5. Cleared'
  BY NoneFresh, DisjointProcs
     DEF IInv, TypeOK, LocalOK, Cleared, RemovalPCs, Workers, Procs
<1>6. RegisterReady'
  BY NoneFresh, DisjointProcs
     DEF IInv, TypeOK, LocalOK, RegisterReady, RemovalPCs, Workers, Procs
<1>7. RegisteredOK' /\ IndexSound' /\ Stoppable'
  BY DEF IInv, RegisteredOK, IndexSound, Stoppable
<1> QED BY <1>1, <1>2, <1>3, <1>4, <1>5, <1>6, <1>7 DEF IInv

\* Cleaning up the domain does not touch the registry.
LEMMA CleanupStep ==
  ASSUME IInv, NEW p \in Procs, Cleanup(p)
  PROVE  IInv'
<1> USE DEF Cleanup, Goto, registry, locks, proxy, domain, task
<1>1. TypeOK'
  BY NoneFresh, DisjointProcs
     DEF IInv, TypeOK, LocalOK, PCs, Actions
<1>2. LocalOK'
  BY NoneFresh, DisjointProcs
     DEF IInv, TypeOK, LocalOK, RemovalPCs, Workers, Procs
<1>3. HostLocked'
  BY NoneFresh, DisjointProcs
     DEF IInv, TypeOK, LocalOK, HostLocked, OwnsHost, RemovalPCs, Workers, Procs
<1>4. HostAllowed'
  BY NoneFresh, DisjointProcs
     DEF IInv, TypeOK, LocalOK, HostAllowed, Hosted, RemovalPCs, Workers, Procs
<1>5. Cleared'
  BY NoneFresh, DisjointProcs
     DEF IInv, TypeOK, LocalOK, Cleared, RemovalPCs, Workers, Procs
<1>6. RegisterReady'
  BY NoneFresh, DisjointProcs
     DEF IInv, TypeOK, LocalOK, RegisterReady, RemovalPCs, Workers, Procs
<1>7. RegisteredOK' /\ IndexSound' /\ Stoppable'
  BY DEF IInv, RegisteredOK, IndexSound, Stoppable
<1> QED BY <1>1, <1>2, <1>3, <1>4, <1>5, <1>6, <1>7 DEF IInv

\* Closing the removed proxy does not touch the registry.
LEMMA CloseStep ==
  ASSUME IInv, NEW p \in Procs, Close(p)
  PROVE  IInv'
<1> USE DEF Close, Goto, registry, locks, proxy, domain, task
<1>1. TypeOK'
  BY NoneFresh, DisjointProcs
     DEF IInv, TypeOK, LocalOK, PCs, Actions
<1>2. LocalOK'
  BY NoneFresh, DisjointProcs
     DEF IInv, TypeOK, LocalOK, RemovalPCs, Workers, Procs
<1>3. HostLocked'
  BY NoneFresh, DisjointProcs
     DEF IInv, TypeOK, LocalOK, HostLocked, OwnsHost, RemovalPCs, Workers, Procs
<1>4. HostAllowed'
  BY NoneFresh, DisjointProcs
     DEF IInv, TypeOK, LocalOK, HostAllowed, Hosted, RemovalPCs, Workers, Procs
<1>5. Cleared'
  BY NoneFresh, DisjointProcs
     DEF IInv, TypeOK, LocalOK, Cleared, RemovalPCs, Workers, Procs
<1>6. RegisterReady'
  BY NoneFresh, DisjointProcs
     DEF IInv, TypeOK, LocalOK, RegisterReady, RemovalPCs, Workers, Procs
<1>7. RegisteredOK' /\ IndexSound' /\ Stoppable'
  BY DEF IInv, RegisteredOK, IndexSound, Stoppable
<1> QED BY <1>1, <1>2, <1>3, <1>4, <1>5, <1>6, <1>7 DEF IInv

\* The count is a number.
LEMMA ReadCountStep ==
  ASSUME IInv, NEW p \in Procs, ReadCount(p)
  PROVE  IInv'
<1> USE DEF ReadCount, Goto, registry, locks, proxy, domain, task
<1>1. TypeOK'
  <2>1. Cardinality({h \in Hosts : Proxies[h] # None}) \in Nat
    BY FiniteHosts, FS_Subset, FS_CardinalityType
  <2> QED BY <2>1 DEF IInv, TypeOK, PCs
<1>2. LocalOK'
  BY NoneFresh, DisjointProcs
     DEF IInv, TypeOK, LocalOK, RemovalPCs, Workers, Procs
<1>3. HostLocked'
  BY NoneFresh, DisjointProcs
     DEF IInv, TypeOK, LocalOK, HostLocked, OwnsHost, RemovalPCs, Workers, Procs
<1>4. HostAllowed'
  BY NoneFresh, DisjointProcs
     DEF IInv, TypeOK, LocalOK, HostAllowed, Hosted, RemovalPCs, Workers, Procs
<1>5. Cleared'
  BY NoneFresh, DisjointProcs
     DEF IInv, TypeOK, LocalOK, Cleared, RemovalPCs, Workers, Procs
<1>6. RegisterReady'
  BY NoneFresh, DisjointProcs
     DEF IInv, TypeOK, LocalOK, RegisterReady, RemovalPCs, Workers, Procs
<1>7. RegisteredOK' /\ IndexSound' /\ Stoppable'
  BY DEF IInv, RegisteredOK, IndexSound, Stoppable
<1> QED BY <1>1, <1>2, <1>3, <1>4, <1>5, <1>6, <1>7 DEF IInv

\* Setting the metric does not touch the registry.
LEMMA SetGaugeStep ==
  ASSUME IInv, NEW p \in Procs, SetGauge(p)
  PROVE  IInv'
<1> USE DEF SetGauge, Goto, registry, locks, proxy, domain, task
<1>1. TypeOK'
  BY NoneFresh, DisjointProcs
     DEF IInv, TypeOK, LocalOK, PCs, Actions
<1>2. LocalOK'
  BY NoneFresh, DisjointProcs
     DEF IInv, TypeOK, LocalOK, RemovalPCs, Workers, Procs
<1>3. HostLocked'
  BY NoneFresh, DisjointProcs
     DEF IInv, TypeOK, LocalOK, HostLocked, OwnsHost, RemovalPCs, Workers, Procs
<1>4. HostAllowed'
  BY NoneFresh, DisjointProcs
     DEF IInv, TypeOK, LocalOK, HostAllowed, Hosted, RemovalPCs, Workers, Procs
<1>5. Cleared'
  BY NoneFresh, DisjointProcs
     DEF IInv, TypeOK, LocalOK, Cleared, RemovalPCs, Workers, Procs
<1>6. RegisterReady'
  BY NoneFresh, DisjointProcs
     DEF IInv, TypeOK, LocalOK, RegisterReady, RemovalPCs, Workers, Procs
<1>7. RegisteredOK' /\ IndexSound' /\ Stoppable'
  BY DEF IInv, RegisteredOK, IndexSound, Stoppable
<1> QED BY <1>1, <1>2, <1>3, <1>4, <1>5, <1>6, <1>7 DEF IInv

\* removeAndTeardown returns to a caller that still owns the hostname.
LEMMA RemovedStep ==
  ASSUME IInv, NEW p \in Procs, Removed(p)
  PROVE  IInv'
<1> USE DEF Goto, registry, locks, proxy, domain
<1>1. /\ pc[p] = "removed"
      /\ UNCHANGED <<registry, gauge, shut, targetLocks, proxy, domain>>
  BY DEF Removed
<1>2. RegisteredOK' /\ IndexSound' /\ Stoppable'
  BY <1>1 DEF IInv, RegisteredOK, IndexSound, Stoppable
<1>3. ASSUME Finish(p), \/ hostLocks' = hostLocks /\ from[p] = "reap"
                        \/ hostLocks' = [hostLocks EXCEPT ![host[p]] = None] /\ from[p] = "fail"
      PROVE  IInv'
  <2>1. TypeOK'
    BY <1>1, <1>3, FinishTypes DEF IInv, TypeOK
  <2> USE DEF Finish
  <2>2. LocalOK'
    BY <1>1, <1>3, NoneFresh DEF IInv, TypeOK, LocalOK, RemovalPCs
  <2>3. HostLocked'
    BY <1>1, <1>3 DEF IInv, TypeOK, LocalOK, HostLocked, OwnsHost, RemovalPCs
  <2>4. HostAllowed' /\ Cleared' /\ RegisterReady'
    BY <1>1, <1>3 DEF IInv, TypeOK, HostAllowed, Hosted, Cleared, RegisterReady,
                      RemovalPCs
  <2> QED BY <1>2, <2>1, <2>2, <2>3, <2>4 DEF IInv
<1>4. ASSUME Return(p, AfterStop(p), inst[p]), from[p] = "stop",
             hostLocks' = [hostLocks EXCEPT ![host[p]] = None]
      PROVE  IInv'
  <2> USE DEF Return, AfterStop
  <2>1. TypeOK'
    BY <1>1, <1>4 DEF IInv, TypeOK, PCs
  <2>2. LocalOK'
    BY <1>1, <1>4, NoneFresh, DisjointProcs
       DEF IInv, TypeOK, LocalOK, RemovalPCs, Workers, Procs
  <2>3. HostLocked'
    BY <1>1, <1>4 DEF IInv, TypeOK, LocalOK, HostLocked, OwnsHost, RemovalPCs
  <2>4. HostAllowed' /\ Cleared' /\ RegisterReady'
    BY <1>1, <1>4 DEF IInv, TypeOK, HostAllowed, Hosted, Cleared, RegisterReady,
                      RemovalPCs
  <2> QED BY <1>2, <2>1, <2>2, <2>3, <2>4 DEF IInv
<1>5. ASSUME Return(p, "build", inst[p]), from[p] = "replace", hostLocks' = hostLocks
      PROVE  IInv'
  <2> USE DEF Return
  <2>1. TypeOK'
    BY <1>1, <1>5 DEF IInv, TypeOK, PCs
  <2>2. LocalOK'
    BY <1>1, <1>5, NoneFresh, DisjointProcs
       DEF IInv, TypeOK, LocalOK, RemovalPCs, Workers, Procs
  <2>3. HostLocked'
    BY <1>1, <1>5 DEF IInv, TypeOK, LocalOK, HostLocked, OwnsHost, RemovalPCs
  <2>4. HostAllowed' /\ Cleared' /\ RegisterReady'
    BY <1>1, <1>5 DEF IInv, TypeOK, HostAllowed, Hosted, Cleared, RegisterReady,
                      RemovalPCs
  <2> QED BY <1>2, <2>1, <2>2, <2>3, <2>4 DEF IInv
<1>6. ASSUME Return(p, "unlock", None), from[p] = "fail",
             hostLocks' = [hostLocks EXCEPT ![host[p]] = None]
      PROVE  IInv'
  <2> USE DEF Return
  <2>1. TypeOK'
    BY <1>1, <1>6 DEF IInv, TypeOK, PCs
  <2>2. LocalOK'
    BY <1>1, <1>6, NoneFresh, DisjointProcs
       DEF IInv, TypeOK, LocalOK, RemovalPCs, Workers, Procs
  <2>3. HostLocked'
    BY <1>1, <1>6 DEF IInv, TypeOK, LocalOK, HostLocked, OwnsHost, RemovalPCs
  <2>4. HostAllowed' /\ Cleared' /\ RegisterReady'
    BY <1>1, <1>6 DEF IInv, TypeOK, HostAllowed, Hosted, Cleared, RegisterReady,
                      RemovalPCs
  <2> QED BY <1>2, <2>1, <2>2, <2>3, <2>4 DEF IInv
<1> QED BY <1>3, <1>4, <1>5, <1>6 DEF Removed

\* AddTarget gives one of the hostnames of the target.
LEMMA AddTargetStep ==
  ASSUME IInv, NEW p \in Procs, AddTarget(p)
  PROVE  IInv'
<1> USE DEF AddTarget, Goto, registry, locks, proxy, domain, task, stopping
<1>1. TypeOK'
  <2>1. tgt[p] \in Targets
    BY DEF IInv, LocalOK, Procs, RemovalPCs
  <2>2. HostsOf[tgt[p]] \subseteq Hosts
    BY <2>1, HostsOfType
  <2> QED BY <2>2 DEF IInv, TypeOK, PCs
<1>2. LocalOK'
  BY HostsOfType, DisjointProcs
     DEF IInv, TypeOK, LocalOK, PCs, Workers, Procs, RemovalPCs
<1>3. HostLocked'
  BY NoneFresh, DisjointProcs
     DEF IInv, TypeOK, LocalOK, HostLocked, OwnsHost, RemovalPCs, Workers, Procs
<1>4. HostAllowed'
  BY NoneFresh, DisjointProcs
     DEF IInv, TypeOK, LocalOK, HostAllowed, Hosted, RemovalPCs, Workers, Procs
<1>5. Cleared'
  BY NoneFresh, DisjointProcs
     DEF IInv, TypeOK, LocalOK, Cleared, RemovalPCs, Workers, Procs
<1>6. RegisterReady'
  BY NoneFresh, DisjointProcs
     DEF IInv, TypeOK, LocalOK, RegisterReady, RemovalPCs, Workers, Procs
<1>7. RegisteredOK' /\ IndexSound' /\ Stoppable'
  BY DEF IInv, RegisteredOK, IndexSound, Stoppable
<1> QED BY <1>1, <1>2, <1>3, <1>4, <1>5, <1>6, <1>7 DEF IInv

\* The hostname lock, free before, belongs to newProxy.
LEMMA LockNewHostStep ==
  ASSUME IInv, NEW p \in Procs, LockNewHost(p)
  PROVE  IInv'
<1> USE DEF LockNewHost, Goto, registry, locks, proxy, domain, task
<1>1. TypeOK'
  BY NoneFresh, DisjointProcs
     DEF IInv, TypeOK, LocalOK, PCs, Actions
<1>2. LocalOK'
  BY NoneFresh, DisjointProcs
     DEF IInv, TypeOK, LocalOK, RemovalPCs, Workers, Procs
<1>3. HostLocked'
  BY NoneFresh, DisjointProcs
     DEF IInv, TypeOK, LocalOK, HostLocked, OwnsHost, RemovalPCs, Workers, Procs
<1>4. HostAllowed'
  BY NoneFresh, DisjointProcs
     DEF IInv, TypeOK, LocalOK, HostAllowed, Hosted, RemovalPCs, Workers, Procs
<1>5. Cleared'
  BY NoneFresh, DisjointProcs
     DEF IInv, TypeOK, LocalOK, Cleared, RemovalPCs, Workers, Procs
<1>6. RegisterReady'
  BY NoneFresh, DisjointProcs
     DEF IInv, TypeOK, LocalOK, RegisterReady, RemovalPCs, Workers, Procs
<1>7. RegisteredOK' /\ IndexSound' /\ Stoppable'
  BY DEF IInv, RegisteredOK, IndexSound, Stoppable
<1> QED BY <1>1, <1>2, <1>3, <1>4, <1>5, <1>6, <1>7 DEF IInv

\* newProxy goes on to remove the previous proxy, or gives up.
LEMMA ResolveStep ==
  ASSUME IInv, NEW p \in Procs, Resolve(p)
  PROVE  IInv'
<1> USE DEF Resolve, Goto, registry, locks, proxy, domain, task, stopping
<1>1. TypeOK'
  BY NoneFresh, DisjointProcs
     DEF IInv, TypeOK, LocalOK, PCs, Actions
<1>2. LocalOK'
  BY NoneFresh, DisjointProcs
     DEF IInv, TypeOK, LocalOK, RemovalPCs, Workers, Procs
<1>3. HostLocked'
  BY NoneFresh, DisjointProcs
     DEF IInv, TypeOK, LocalOK, HostLocked, OwnsHost, RemovalPCs, Workers, Procs
<1>4. HostAllowed'
  BY NoneFresh, DisjointProcs
     DEF IInv, TypeOK, LocalOK, HostAllowed, Hosted, RemovalPCs, Workers, Procs
<1>5. Cleared'
  BY NoneFresh, DisjointProcs
     DEF IInv, TypeOK, LocalOK, Cleared, RemovalPCs, Workers, Procs
<1>6. RegisterReady'
  BY NoneFresh, DisjointProcs
     DEF IInv, TypeOK, LocalOK, RegisterReady, RemovalPCs, Workers, Procs
<1>7. RegisteredOK' /\ IndexSound' /\ Stoppable'
  BY DEF IInv, RegisteredOK, IndexSound, Stoppable
<1> QED BY <1>1, <1>2, <1>3, <1>4, <1>5, <1>6, <1>7 DEF IInv

\* A new proxy is one that no map entry and no other goroutine refers to.
LEMMA BuildStep ==
  ASSUME IInv, NEW p \in Procs, Build(p)
  PROVE  IInv'
<1> USE DEF Build, Goto, registry, locks, proxy, domain, task
<1>1. TypeOK'
  BY NoneFresh, DisjointProcs, SMTT(30)
     DEF IInv, TypeOK, LocalOK, PCs, Actions
<1>2. LocalOK'
  BY NoneFresh, DisjointProcs
     DEF IInv, TypeOK, LocalOK, RemovalPCs, Workers, Procs
<1>3. HostLocked'
  BY NoneFresh, DisjointProcs
     DEF IInv, TypeOK, LocalOK, HostLocked, OwnsHost, RemovalPCs, Workers, Procs
<1>4. HostAllowed'
  BY NoneFresh, DisjointProcs
     DEF IInv, TypeOK, LocalOK, HostAllowed, Hosted, RemovalPCs, Workers, Procs
<1>5. Cleared'
  BY NoneFresh, DisjointProcs
     DEF IInv, TypeOK, LocalOK, Cleared, RemovalPCs, Workers, Procs
<1>6. RegisterReady'
  BY NoneFresh, DisjointProcs
     DEF IInv, TypeOK, LocalOK, RegisterReady, RemovalPCs, Workers, Procs
<1>7. RegisteredOK'
  BY NoneFresh, DisjointProcs
     DEF IInv, TypeOK, RegisteredOK, RemovalPCs, Workers, Procs
<1>8. IndexSound'
  BY NoneFresh DEF IInv, TypeOK, IndexSound, RegisteredOK
<1>9. Stoppable'
  BY NoneFresh DEF IInv, TypeOK, Stoppable, RegisteredOK
<1> QED BY <1>1, <1>2, <1>3, <1>4, <1>5, <1>6, <1>7, <1>8, <1>9 DEF IInv

\* The entry that is written was empty, so no index entry is left behind.
LEMMA RegisterStep ==
  ASSUME IInv, NEW p \in Procs, Register(p)
  PROVE  IInv'
<1> DEFINE i == inst[p]
           h == host[p]
           t == tgt[p]
<1>1. /\ i \in Insts /\ h \in Hosts /\ t \in Targets /\ p \in Workers
      /\ hostLocks[h] = p /\ Proxies[h] = None /\ h \in HostsOf[t]
      /\ life[i] # "unused" /\ target[i] = t /\ hostname[i] = h
  BY DEF Register, IInv, LocalOK, HostLocked, OwnsHost, HostAllowed, Hosted,
         Cleared, RegisterReady, RemovalPCs, Procs
<1>2. CASE stopping
  <2>1. /\ Refuse(p) /\ pc[p] = "register"
        /\ UNCHANGED <<gauge, shut, locks, target, hostname, domain, act, tgt,
                       host, old, from, cnt>>
    BY <1>2 DEF Register, domain
  <2> USE DEF Refuse, Goto, registry, locks, domain
  <2>2. TypeOK'
    BY <1>1, <2>1 DEF IInv, TypeOK, PCs
  <2>3. LocalOK'
    BY <1>1, <2>1, DisjointProcs DEF IInv, TypeOK, LocalOK, RemovalPCs
  <2>4. HostLocked' /\ HostAllowed' /\ Cleared'
    BY <1>1, <2>1 DEF IInv, TypeOK, HostLocked, OwnsHost, HostAllowed, Hosted,
                      Cleared, RemovalPCs
  <2>5. RegisterReady'
    BY <1>1, <2>1 DEF IInv, TypeOK, RegisterReady
  <2>6. RegisteredOK' /\ IndexSound' /\ Stoppable'
    BY <1>1, <2>1, NoneFresh DEF IInv, TypeOK, RegisteredOK, IndexSound, Stoppable
  <2> QED BY <2>2, <2>3, <2>4, <2>5, <2>6 DEF IInv
<1>3. CASE ~stopping
  <2>1. /\ Insert(p) /\ pc[p] = "register"
        /\ setup' = [setup EXCEPT ![i] = IF h \in WithDomain THEN "pending" ELSE @]
        /\ UNCHANGED <<gauge, shut, locks, target, hostname, record, act, tgt,
                       host, old, from, cnt>>
    BY <1>3 DEF Register
  <2> USE DEF Insert, Goto, locks
  <2>2. TypeOK'
    BY <1>1, <2>1 DEF IInv, TypeOK, PCs
  <2>3. LocalOK'
    BY <1>1, <2>1, DisjointProcs DEF IInv, TypeOK, LocalOK, RemovalPCs
  <2>4. HostLocked' /\ HostAllowed'
    BY <1>1, <2>1 DEF IInv, TypeOK, HostLocked, OwnsHost, HostAllowed, Hosted,
                      RemovalPCs
  <2>5. Cleared'
    <3>1. SUFFICES ASSUME NEW q \in Procs,
                          \/ pc'[q] \in {"build", "register"}
                          \/ pc'[q] \in RemovalPCs \ {"remove"} /\ from'[q] = "replace"
                   PROVE  Proxies'[host'[q]] = None
      BY DEF Cleared
    <3>2. q # p
      BY <2>1, <3>1 DEF IInv, TypeOK, RemovalPCs
    <3>3. OwnsHost(q) /\ Proxies[host[q]] = None
      BY <2>1, <3>1, <3>2 DEF IInv, TypeOK, Cleared, OwnsHost, RemovalPCs
    <3>4. hostLocks[host[q]] = q
      BY <3>3 DEF IInv, HostLocked
    <3> QED BY <1>1, <2>1, <3>2, <3>3, <3>4 DEF IInv, TypeOK
  <2>6. RegisterReady'
    BY <1>1, <2>1 DEF IInv, TypeOK, RegisterReady
  <2>7. RegisteredOK'
    BY <1>1, <2>1 DEF IInv, TypeOK, RegisteredOK
  <2>8. IndexSound'
    BY <1>1, <2>1, NoneFresh DEF IInv, TypeOK, IndexSound
  <2>9. Stoppable'
    <3>1. SUFFICES ASSUME \A u \in Targets : Cardinality(HostsOf[u]) = 1,
                          NEW g \in Hosts, Proxies'[g] # None
                   PROVE  targetIndex'[target'[Proxies'[g]]] = g
      BY DEF Stoppable
    <3>2. CASE g = h
      BY <1>1, <2>1, <3>2 DEF IInv, TypeOK
    <3>3. CASE g # h
      <4>1. /\ Proxies'[g] = Proxies[g]
            /\ targetIndex[target[Proxies[g]]] = g
            /\ g \in HostsOf[target[Proxies[g]]]
            /\ target[Proxies[g]] \in Targets
        BY <1>1, <2>1, <3>1, <3>3 DEF IInv, TypeOK, Stoppable, RegisteredOK
      <4>2. HostsOf[t] = {h}
        <5>1. IsFiniteSet(HostsOf[t])
          BY <1>1, HostsOfType, FiniteHosts, FS_Subset
        <5>2. \E x : HostsOf[t] = {x}
          BY <1>1, <3>1, <5>1, FS_Singleton
        <5> QED BY <1>1, <5>2
      <4>3. target[Proxies[g]] # t
        BY <3>3, <4>1, <4>2
      <4> QED BY <1>1, <2>1, <4>1, <4>3 DEF IInv, TypeOK
    <3> QED BY <3>2, <3>3
  <2> QED BY <2>2, <2>3, <2>4, <2>5, <2>6, <2>7, <2>8, <2>9 DEF IInv
<1> QED BY <1>2, <1>3

\* Configuring the domain does not touch the registry.
LEMMA ConfigureStep ==
  ASSUME IInv, NEW p \in Procs, Configure(p)
  PROVE  IInv'
<1> USE DEF Configure, Goto, registry, locks, proxy, domain, task
<1>1. TypeOK'
  BY NoneFresh, DisjointProcs
     DEF IInv, TypeOK, LocalOK, PCs, Actions
<1>2. LocalOK'
  BY NoneFresh, DisjointProcs
     DEF IInv, TypeOK, LocalOK, RemovalPCs, Workers, Procs
<1>3. HostLocked'
  BY NoneFresh, DisjointProcs
     DEF IInv, TypeOK, LocalOK, HostLocked, OwnsHost, RemovalPCs, Workers, Procs
<1>4. HostAllowed'
  BY NoneFresh, DisjointProcs
     DEF IInv, TypeOK, LocalOK, HostAllowed, Hosted, RemovalPCs, Workers, Procs
<1>5. Cleared'
  BY NoneFresh, DisjointProcs
     DEF IInv, TypeOK, LocalOK, Cleared, RemovalPCs, Workers, Procs
<1>6. RegisterReady'
  BY NoneFresh, DisjointProcs
     DEF IInv, TypeOK, LocalOK, RegisterReady, RemovalPCs, Workers, Procs
<1>7. RegisteredOK' /\ IndexSound' /\ Stoppable'
  BY DEF IInv, RegisteredOK, IndexSound, Stoppable
<1> QED BY <1>1, <1>2, <1>3, <1>4, <1>5, <1>6, <1>7 DEF IInv

\* The lock goes back when newProxy is past the registration.
LEMMA UnlockNewHostStep ==
  ASSUME IInv, NEW p \in Procs, UnlockNewHost(p)
  PROVE  IInv'
<1> USE DEF UnlockNewHost, Goto, registry, locks, proxy, domain, task
<1>1. TypeOK'
  BY NoneFresh, DisjointProcs
     DEF IInv, TypeOK, LocalOK, PCs, Actions
<1>2. LocalOK'
  BY NoneFresh, DisjointProcs
     DEF IInv, TypeOK, LocalOK, RemovalPCs, Workers, Procs
<1>3. HostLocked'
  BY NoneFresh, DisjointProcs
     DEF IInv, TypeOK, LocalOK, HostLocked, OwnsHost, RemovalPCs, Workers, Procs
<1>4. HostAllowed'
  BY NoneFresh, DisjointProcs
     DEF IInv, TypeOK, LocalOK, HostAllowed, Hosted, RemovalPCs, Workers, Procs
<1>5. Cleared'
  BY NoneFresh, DisjointProcs
     DEF IInv, TypeOK, LocalOK, Cleared, RemovalPCs, Workers, Procs
<1>6. RegisterReady'
  BY NoneFresh, DisjointProcs
     DEF IInv, TypeOK, LocalOK, RegisterReady, RemovalPCs, Workers, Procs
<1>7. RegisteredOK' /\ IndexSound' /\ Stoppable'
  BY DEF IInv, RegisteredOK, IndexSound, Stoppable
<1> QED BY <1>1, <1>2, <1>3, <1>4, <1>5, <1>6, <1>7 DEF IInv

\* Giving the target lock back does not touch the registry.
LEMMA UnlockTargetStep ==
  ASSUME IInv, NEW p \in Procs, UnlockTarget(p)
  PROVE  IInv'
<1> USE DEF UnlockTarget, Goto, registry, locks, proxy, domain, task
<1>1. TypeOK'
  <2>1. CASE Finish(p)
    BY <2>1, FinishTypes DEF IInv, TypeOK
  <2>2. CASE ~Finish(p)
    BY <2>2, NoneFresh DEF IInv, TypeOK, PCs
  <2> QED BY <2>1, <2>2
<1>2. LocalOK'
  <2>1. CASE Finish(p)
    BY <2>1, NoneFresh, DisjointProcs
       DEF Finish, IInv, TypeOK, LocalOK, RemovalPCs, Workers, Procs
  <2>2. CASE ~Finish(p)
    BY <2>2, NoneFresh, DisjointProcs
       DEF IInv, TypeOK, LocalOK, RemovalPCs, Workers, Procs
  <2> QED BY <2>1, <2>2
<1>3. HostLocked'
  BY NoneFresh, DisjointProcs
     DEF IInv, TypeOK, LocalOK, HostLocked, OwnsHost, RemovalPCs, Workers, Procs, Finish
<1>4. HostAllowed'
  BY NoneFresh, DisjointProcs, SMTT(30)
     DEF IInv, TypeOK, LocalOK, HostAllowed, Hosted, RemovalPCs, Workers, Procs, Finish
<1>5. Cleared'
  BY NoneFresh, DisjointProcs, SMTT(30)
     DEF IInv, TypeOK, LocalOK, Cleared, RemovalPCs, Workers, Procs, Finish
<1>6. RegisterReady'
  BY NoneFresh, DisjointProcs
     DEF IInv, TypeOK, LocalOK, RegisterReady, RemovalPCs, Workers, Procs, Finish
<1>7. RegisteredOK' /\ IndexSound' /\ Stoppable'
  BY DEF IInv, RegisteredOK, IndexSound, Stoppable
<1> QED BY <1>1, <1>2, <1>3, <1>4, <1>5, <1>6, <1>7 DEF IInv

\* Looking the proxy up again changes nothing that is shared.
LEMMA RecheckStep ==
  ASSUME IInv, NEW p \in Procs, Recheck(p)
  PROVE  IInv'
<1> USE DEF Recheck, Goto, registry, locks, proxy, domain, task
<1>1. TypeOK'
  <2>1. CASE Finish(p)
    BY <2>1, FinishTypes DEF IInv, TypeOK
  <2>2. CASE ~Finish(p)
    BY <2>2, NoneFresh DEF IInv, TypeOK, PCs
  <2> QED BY <2>1, <2>2
<1>2. LocalOK'
  <2>1. CASE Finish(p)
    BY <2>1, NoneFresh, DisjointProcs
       DEF Finish, IInv, TypeOK, LocalOK, RemovalPCs, Workers, Procs
  <2>2. CASE ~Finish(p)
    BY <2>2, NoneFresh, DisjointProcs
       DEF IInv, TypeOK, LocalOK, RemovalPCs, Workers, Procs
  <2> QED BY <2>1, <2>2
<1>3. HostLocked'
  BY NoneFresh, DisjointProcs, SMTT(30)
     DEF IInv, TypeOK, LocalOK, HostLocked, OwnsHost, RemovalPCs, Workers, Procs, Finish
<1>4. HostAllowed'
  BY NoneFresh, DisjointProcs, SMTT(30)
     DEF IInv, TypeOK, LocalOK, HostAllowed, Hosted, RemovalPCs, Workers, Procs, Finish
<1>5. Cleared'
  BY NoneFresh, DisjointProcs
     DEF IInv, TypeOK, LocalOK, Cleared, RemovalPCs, Workers, Procs, Finish
<1>6. RegisterReady'
  BY NoneFresh, DisjointProcs
     DEF IInv, TypeOK, LocalOK, RegisterReady, RemovalPCs, Workers, Procs, Finish
<1>7. RegisteredOK' /\ IndexSound' /\ Stoppable'
  BY DEF IInv, RegisteredOK, IndexSound, Stoppable
<1> QED BY <1>1, <1>2, <1>3, <1>4, <1>5, <1>6, <1>7 DEF IInv

\* Starting a proxy does not touch the registry.
LEMMA StartProviderStep ==
  ASSUME IInv, NEW p \in Procs, StartProvider(p)
  PROVE  IInv'
<1> USE DEF StartProvider, Goto, registry, locks, proxy, domain, task
<1>1. TypeOK'
  BY NoneFresh, DisjointProcs
     DEF IInv, TypeOK, LocalOK, PCs, Actions
<1>2. LocalOK'
  BY NoneFresh, DisjointProcs
     DEF IInv, TypeOK, LocalOK, RemovalPCs, Workers, Procs
<1>3. HostLocked'
  BY NoneFresh, DisjointProcs
     DEF IInv, TypeOK, LocalOK, HostLocked, OwnsHost, RemovalPCs, Workers, Procs
<1>4. HostAllowed'
  BY NoneFresh, DisjointProcs
     DEF IInv, TypeOK, LocalOK, HostAllowed, Hosted, RemovalPCs, Workers, Procs
<1>5. Cleared'
  BY NoneFresh, DisjointProcs
     DEF IInv, TypeOK, LocalOK, Cleared, RemovalPCs, Workers, Procs
<1>6. RegisterReady'
  BY NoneFresh, DisjointProcs
     DEF IInv, TypeOK, LocalOK, RegisterReady, RemovalPCs, Workers, Procs
<1>7. RegisteredOK' /\ IndexSound' /\ Stoppable'
  BY DEF IInv, TypeOK, RegisteredOK, IndexSound, Stoppable
<1> QED BY <1>1, <1>2, <1>3, <1>4, <1>5, <1>6, <1>7 DEF IInv

\* The end of startProvider does not touch the registry.
LEMMA ProviderStartedStep ==
  ASSUME IInv, NEW p \in Procs, ProviderStarted(p)
  PROVE  IInv'
<1> USE DEF ProviderStarted, Goto, registry, locks, proxy, domain, task
<1>1. TypeOK'
  BY NoneFresh, DisjointProcs
     DEF IInv, TypeOK, LocalOK, PCs, Actions
<1>2. LocalOK'
  BY NoneFresh, DisjointProcs
     DEF IInv, TypeOK, LocalOK, RemovalPCs, Workers, Procs
<1>3. HostLocked'
  BY NoneFresh, DisjointProcs
     DEF IInv, TypeOK, LocalOK, HostLocked, OwnsHost, RemovalPCs, Workers, Procs
<1>4. HostAllowed'
  BY NoneFresh, DisjointProcs
     DEF IInv, TypeOK, LocalOK, HostAllowed, Hosted, RemovalPCs, Workers, Procs
<1>5. Cleared'
  BY NoneFresh, DisjointProcs
     DEF IInv, TypeOK, LocalOK, Cleared, RemovalPCs, Workers, Procs
<1>6. RegisterReady'
  BY NoneFresh, DisjointProcs
     DEF IInv, TypeOK, LocalOK, RegisterReady, RemovalPCs, Workers, Procs
<1>7. RegisteredOK' /\ IndexSound' /\ Stoppable'
  BY DEF IInv, TypeOK, RegisteredOK, IndexSound, Stoppable
<1> QED BY <1>1, <1>2, <1>3, <1>4, <1>5, <1>6, <1>7 DEF IInv

\* The end of Start does not touch the registry.
LEMMA StartListenersStep ==
  ASSUME IInv, NEW p \in Procs, StartListeners(p)
  PROVE  IInv'
<1> USE DEF StartListeners, Goto, registry, locks, proxy, domain, task
<1>1. TypeOK'
  <2>1. CASE Finish(p)
    BY <2>1, FinishTypes DEF IInv, TypeOK
  <2>2. CASE ~Finish(p)
    BY <2>2, NoneFresh DEF IInv, TypeOK, PCs
  <2> QED BY <2>1, <2>2
<1>2. LocalOK'
  <2>1. CASE Finish(p)
    BY <2>1, NoneFresh, DisjointProcs
       DEF Finish, IInv, TypeOK, LocalOK, RemovalPCs, Workers, Procs
  <2>2. CASE ~Finish(p)
    BY <2>2, NoneFresh, DisjointProcs
       DEF IInv, TypeOK, LocalOK, RemovalPCs, Workers, Procs
  <2> QED BY <2>1, <2>2
<1>3. HostLocked'
  BY NoneFresh, DisjointProcs, SMTT(30)
     DEF IInv, TypeOK, LocalOK, HostLocked, OwnsHost, RemovalPCs, Workers, Procs, Finish
<1>4. HostAllowed'
  BY NoneFresh, DisjointProcs
     DEF IInv, TypeOK, LocalOK, HostAllowed, Hosted, RemovalPCs, Workers, Procs, Finish
<1>5. Cleared'
  BY NoneFresh, DisjointProcs
     DEF IInv, TypeOK, LocalOK, Cleared, RemovalPCs, Workers, Procs, Finish
<1>6. RegisterReady'
  BY NoneFresh, DisjointProcs
     DEF IInv, TypeOK, LocalOK, RegisterReady, RemovalPCs, Workers, Procs, Finish
<1>7. RegisteredOK' /\ IndexSound' /\ Stoppable'
  BY DEF IInv, RegisteredOK, IndexSound, Stoppable
<1> QED BY <1>1, <1>2, <1>3, <1>4, <1>5, <1>6, <1>7 DEF IInv

\* The set-up goroutines write records, not the registry.
LEMMA SetupStep ==
  ASSUME IInv, NEW i \in Insts, SetupDNS(i) \/ SetupEnds(i)
  PROVE  IInv'
<1> USE DEF SetupDNS, SetupEnds, registry, locks, proxy, task
<1>1. TypeOK'
  BY DEF IInv, TypeOK
<1>2. LocalOK' /\ HostLocked' /\ HostAllowed' /\ Cleared' /\ RegisterReady'
  BY DEF IInv, LocalOK, HostLocked, OwnsHost, HostAllowed, Hosted, Cleared,
         RegisterReady
<1>3. RegisteredOK' /\ IndexSound' /\ Stoppable'
  BY DEF IInv, RegisteredOK, IndexSound, Stoppable
<1> QED BY <1>1, <1>2, <1>3 DEF IInv

\* StopAllProxies starts goroutines that own no hostname and have no target.
LEMMA ShutdownStep ==
  ASSUME IInv, Shutdown
  PROVE  IInv'
<1> USE DEF registry, locks, proxy, domain, task
<1>1. CASE StopAllProxies \/ WatchersGone \/ AllStopped
  <2> USE DEF StopAllProxies, WatchersGone, AllStopped
  <2>1. TypeOK'
    BY <1>1 DEF IInv, TypeOK
  <2>2. LocalOK' /\ HostLocked' /\ HostAllowed' /\ Cleared' /\ RegisterReady'
    BY <1>1 DEF IInv, LocalOK, HostLocked, OwnsHost, HostAllowed, Hosted, Cleared,
                RegisterReady
  <2>3. RegisteredOK' /\ IndexSound' /\ Stoppable'
    BY <1>1 DEF IInv, RegisteredOK, IndexSound, Stoppable
  <2> QED BY <2>1, <2>2, <2>3 DEF IInv
<1>2. CASE ReapAll
  <2> USE DEF ReapAll, ReapSnapshot
  <2>1. TypeOK'
    BY <1>2 DEF IInv, TypeOK, PCs, Actions, Procs
  <2>2. LocalOK'
    BY <1>2, DisjointProcs, NoneFresh DEF IInv, TypeOK, LocalOK, RemovalPCs, Procs
  <2>3. HostLocked'
    BY <1>2 DEF IInv, TypeOK, HostLocked, OwnsHost, RemovalPCs
  <2>4. HostAllowed' /\ Cleared' /\ RegisterReady'
    BY <1>2 DEF IInv, TypeOK, HostAllowed, Hosted, Cleared, RegisterReady, RemovalPCs
  <2>5. RegisteredOK' /\ IndexSound' /\ Stoppable'
    BY <1>2 DEF IInv, RegisteredOK, IndexSound, Stoppable
  <2> QED BY <2>1, <2>2, <2>3, <2>4, <2>5 DEF IInv
<1> QED BY <1>1, <1>2 DEF Shutdown

-----------------------------------------------------------------------------
\* The manager starts with empty maps and no goroutines.
LEMMA InitIInv == Init => IInv
<1> SUFFICES ASSUME Init PROVE IInv
  OBVIOUS
<1> USE DEF Init
<1>1. TypeOK
  BY DEF TypeOK, PCs
<1>2. LocalOK
  BY NoneFresh DEF LocalOK, RemovalPCs
<1>3. HostLocked /\ HostAllowed /\ Cleared /\ RegisterReady
  BY DEF HostLocked, OwnsHost, HostAllowed, Hosted, Cleared, RegisterReady, RemovalPCs
<1>4. RegisteredOK /\ IndexSound /\ Stoppable
  BY DEF RegisteredOK, IndexSound, Stoppable
<1> QED BY <1>1, <1>2, <1>3, <1>4 DEF IInv

\* Every step of every goroutine keeps the inductive invariant.
LEMMA NextIInv == IInv /\ [Next]_vars => IInv'
<1>1. SUFFICES ASSUME IInv, [Next]_vars PROVE IInv'
  OBVIOUS
<1>2. CASE UNCHANGED vars
  <2> USE <1>2 DEF vars, registry, locks, proxy, domain, task
  <2>1. TypeOK'
    BY <1>1 DEF IInv, TypeOK
  <2>2. LocalOK' /\ HostLocked' /\ HostAllowed' /\ Cleared' /\ RegisterReady'
    BY <1>1 DEF IInv, LocalOK, HostLocked, OwnsHost, HostAllowed, Hosted, Cleared,
                RegisterReady
  <2>3. RegisteredOK' /\ IndexSound' /\ Stoppable'
    BY <1>1 DEF IInv, RegisteredOK, IndexSound, Stoppable
  <2> QED BY <2>1, <2>2, <2>3 DEF IInv
<1>3. ASSUME NEW p \in Workers, Enter(p) PROVE IInv'
  BY <1>1, <1>3, DispatchEventStep, RequestRestartStep DEF Enter
<1>4. ASSUME NEW p \in Procs, Step(p) PROVE IInv'
  BY <1>1, <1>4, LockTargetStep, CheckCurrentStep, ReadIndexStep, LockHostStep,
     RemoveStep, DrainStep, CleanupStep, CloseStep, ReadCountStep, SetGaugeStep,
     RemovedStep, AddTargetStep, LockNewHostStep, ResolveStep, BuildStep,
     RegisterStep, ConfigureStep, UnlockNewHostStep, UnlockTargetStep,
     RecheckStep, StartProviderStep, ProviderStartedStep, StartListenersStep
     DEF Step
<1> QED BY <1>1, <1>2, <1>3, <1>4, SetupStep, ShutdownStep DEF Next

\* The inductive invariant holds in every state of the proxy manager.
LEMMA Invariance == Spec => []IInv
BY InitIInv, NextIInv, PTL DEF Spec

\* The maps, locks, metric and locals of the proxy manager keep their types; a
\* goroutine is always at a place its kind can reach with its locals set.
THEOREM TypeCorrect == Spec => []TypeOK
<1>1. IInv => TypeOK
  BY DEF IInv
<1> QED BY <1>1, Invariance, PTL

\* However events, restarts and the shutdown interleave, an entry of the target
\* index leads to a registered proxy of that target: eventStop does not miss
\* its proxy and does not remove another target's.
THEOREM RegistrySound == Spec => []IndexSound
<1>1. IInv => IndexSound
  BY DEF IInv
<1> QED BY <1>1, Invariance, PTL

\* While each target has one hostname, no registered proxy is out of reach of
\* the stop events of its target.
THEOREM RegistryComplete == Spec => []Stoppable
<1>1. IInv => Stoppable
  BY DEF IInv
<1> QED BY <1>1, Invariance, PTL

-----------------------------------------------------------------------------
\* The converse of HostLocked: whoever holds a hostname lock is inside the code
\* that the lock protects, and works on that hostname.
OwnerInside ==
  \A h \in Hosts : hostLocks[h] # None =>
     OwnsHost(hostLocks[h]) /\ host[hostLocks[h]] = h

\* Events, requests and the target lock: the goroutine owned no hostname.
LEMMA OwnerEnter ==
  ASSUME IInv, OwnerInside, NEW p \in Procs,
         \/ \E t \in Targets, a \in {"start", "stop", "restart"} : DispatchEvent(p, t, a)
         \/ \E h \in Hosts : RequestRestart(p, h)
         \/ LockTarget(p) \/ CheckCurrent(p) \/ ReadIndex(p) \/ AddTarget(p)
  PROVE  OwnerInside'
<1> USE DEF IInv, TypeOK, OwnerInside, OwnsHost, RemovalPCs, Goto, locks, task
<1>1. ASSUME NEW t \in Targets, NEW a \in {"start", "stop", "restart"},
             DispatchEvent(p, t, a)
      PROVE  OwnerInside'
  BY <1>1 DEF DispatchEvent
<1>2. ASSUME NEW h \in Hosts, RequestRestart(p, h) PROVE OwnerInside'
  BY <1>2 DEF RequestRestart
<1>3. CASE LockTarget(p)
  BY <1>3 DEF LockTarget
<1>4. CASE CheckCurrent(p)
  BY <1>4 DEF CheckCurrent
<1>5. CASE ReadIndex(p)
  BY <1>5 DEF ReadIndex
<1>6. CASE AddTarget(p)
  BY <1>6 DEF AddTarget
<1> QED BY <1>1, <1>2, <1>3, <1>4, <1>5, <1>6

\* The hostname lock is taken where the protected code begins.
LEMMA OwnerLocks ==
  ASSUME IInv, OwnerInside, NEW p \in Procs, LockHost(p) \/ LockNewHost(p)
  PROVE  OwnerInside'
<1> USE DEF IInv, TypeOK, LocalOK, OwnerInside, OwnsHost, RemovalPCs, Goto, task
<1>1. CASE LockHost(p)
  BY <1>1, NoneFresh DEF LockHost
<1>2. CASE LockNewHost(p)
  BY <1>2, NoneFresh DEF LockNewHost
<1> QED BY <1>1, <1>2

\* Inside the protected code the goroutine keeps its hostname.
LEMMA OwnerWorks ==
  ASSUME IInv, OwnerInside, NEW p \in Procs,
         \/ Remove(p) \/ Drain(p) \/ Cleanup(p) \/ Close(p) \/ ReadCount(p)
         \/ SetGauge(p) \/ Resolve(p) \/ Build(p) \/ Register(p) \/ Configure(p)
  PROVE  OwnerInside'
<1> USE DEF IInv, TypeOK, OwnerInside, OwnsHost, RemovalPCs, Goto, locks, task
<1>1. CASE Remove(p)
  BY <1>1 DEF Remove
<1>2. CASE Drain(p) \/ Cleanup(p) \/ Close(p)
  BY <1>2 DEF Drain, Cleanup, Close
<1>3. CASE ReadCount(p) \/ SetGauge(p)
  BY <1>3 DEF ReadCount, SetGauge
<1>4. CASE Resolve(p)
  BY <1>4 DEF Resolve
<1>5. CASE Build(p)
  BY <1>5 DEF Build
<1>6. CASE Register(p)
  BY <1>6 DEF Register, Insert, Refuse
<1>7. CASE Configure(p)
  BY <1>7 DEF Configure
<1> QED BY <1>1, <1>2, <1>3, <1>4, <1>5, <1>6, <1>7

\* The lock is given back where the protected code ends.
LEMMA OwnerUnlocks ==
  ASSUME IInv, OwnerInside, NEW p \in Procs, Removed(p) \/ UnlockNewHost(p)
  PROVE  OwnerInside'
<1> USE DEF IInv, TypeOK, LocalOK, OwnerInside, OwnsHost, RemovalPCs, Goto, task
<1>1. CASE UnlockNewHost(p)
  BY <1>1 DEF UnlockNewHost
<1>2. CASE Removed(p) /\ from[p] = "stop"
  BY <1>2 DEF Removed, Return
<1>3. CASE Removed(p) /\ from[p] = "replace"
  BY <1>3 DEF Removed, Return
<1>4. CASE Removed(p) /\ from[p] = "fail"
  BY <1>4 DEF Removed, Return, Finish
<1>5. CASE Removed(p) /\ from[p] = "reap"
  BY <1>5 DEF Removed, Finish
<1> QED BY <1>1, <1>2, <1>3, <1>4, <1>5 DEF Removed

\* The rest of a goroutine runs without a hostname lock.
LEMMA OwnerElsewhere ==
  ASSUME IInv, OwnerInside, NEW p \in Procs,
         \/ UnlockTarget(p) \/ Recheck(p) \/ StartProvider(p)
         \/ ProviderStarted(p) \/ StartListeners(p)
  PROVE  OwnerInside'
<1> USE DEF IInv, TypeOK, OwnerInside, OwnsHost, RemovalPCs, Goto, locks, task
<1>1. CASE UnlockTarget(p)
  BY <1>1 DEF UnlockTarget, Finish
<1>2. CASE Recheck(p)
  BY <1>2 DEF Recheck, Finish
<1>3. CASE StartProvider(p) \/ ProviderStarted(p)
  BY <1>3 DEF StartProvider, ProviderStarted
<1>4. CASE StartListeners(p)
  BY <1>4 DEF StartListeners, Finish
<1> QED BY <1>1, <1>2, <1>3, <1>4

\* Every step keeps the owners of the hostname locks inside.
LEMMA NextOwnerInside == IInv /\ OwnerInside /\ [Next]_vars => OwnerInside'
<1>1. SUFFICES ASSUME IInv, OwnerInside, [Next]_vars PROVE OwnerInside'
  OBVIOUS
<1>2. CASE UNCHANGED vars
  BY <1>1, <1>2 DEF OwnerInside, OwnsHost, vars, locks, task
<1>3. ASSUME NEW p \in Workers, Enter(p) PROVE OwnerInside'
  BY <1>1, <1>3, OwnerEnter DEF Enter, Procs
<1>4. ASSUME NEW p \in Procs, Step(p) PROVE OwnerInside'
  BY <1>1, <1>4, OwnerEnter, OwnerLocks, OwnerWorks, OwnerUnlocks, OwnerElsewhere
     DEF Step
<1>5. ASSUME NEW i \in Insts, SetupDNS(i) \/ SetupEnds(i) PROVE OwnerInside'
  BY <1>1, <1>5 DEF SetupDNS, SetupEnds, OwnerInside, OwnsHost, locks, task
<1>6. CASE StopAllProxies \/ WatchersGone \/ AllStopped
  BY <1>1, <1>6 DEF StopAllProxies, WatchersGone, AllStopped, OwnerInside,
                    OwnsHost, locks, task
<1>7. CASE ReapAll
  BY <1>1, <1>7, DisjointProcs
     DEF ReapAll, ReapSnapshot, OwnerInside, OwnsHost, RemovalPCs, IInv, TypeOK,
         LocalOK, Procs, locks
<1> QED BY <1>1, <1>2, <1>3, <1>4, <1>5, <1>6, <1>7 DEF Next, Shutdown

\* Whoever holds a hostname lock waits for no lock, whatever the number of
\* targets, hostnames and goroutines: target locks and hostname locks are taken
\* in one order, so no circle of goroutines waits for each other's locks.
THEOREM LocksOrdered == Spec => []LockOrder
<1>1. Init => OwnerInside
  BY DEF Init, OwnerInside
<1>2. OwnerInside => LockOrder
  BY DEF OwnerInside, OwnsHost, RemovalPCs, LockOrder
<1> QED BY <1>1, <1>2, NextOwnerInside, Invariance, PTL DEF Spec

-----------------------------------------------------------------------------
(***************************************************************************)
(* What becomes of the proxies of the proxy manager and of their DNS       *)
(* records: no proxy is lost before its Close or torn down twice, only a   *)
(* start after Close makes a second node of a hostname, and a record goes  *)
(* with its proxy unless its clean-up fails.                               *)
(*                                                                         *)
(* The argument: a proxy that is not closed has one owner, the registry or *)
(* a goroutine that registers it or tears it down (Owned, OneHandler).     *)
(* While the manager is up the goroutine holds the hostname lock, so that  *)
(* a hostname has one such proxy (OneLive); StopAllProxies works without   *)
(* the lock, but then nothing is registered any more (Reaping), and what   *)
(* is built meanwhile is never started.  A set-up goroutine writes its     *)
(* record while its proxy is registered or teardownProxy waits for it      *)
(* (SetupOK), so a record, too, has an owner.                              *)
(***************************************************************************)
Live(i) == life[i] \in {"built", "starting", "started"}
Handles(p, i) == TearingDown(p, i) \/ Registering(p, i)

\* From newProxy to the end of Start, or of closeProxyIfStillCurrent, a proxy is
\* in the hands of the goroutine that built it.
Builds(p) ==
  /\ inst[p] # None
  /\ \/ pc[p] \in {"register", "configure", "count", "gauge", "newUnlock",
                   "unlock", "recheck", "start", "starting", "listen", "failLock"}
     \/ pc[p] \in RemovalPCs /\ from[p] = "fail"

\* One goroutine builds and starts a proxy, and finds it as it left it, or closed.
Builders ==
  /\ \A p, q \in Procs : Builds(p) /\ Builds(q) /\ inst[p] = inst[q] => p = q
  /\ \A p \in Procs :
       /\ Builds(p) => life[inst[p]] # "unused"
       /\ pc[p] \in {"configure", "recheck", "start", "starting", "listen", "failLock"}
            => inst[p] # None
       /\ pc[p] \in {"configure", "count", "gauge", "newUnlock", "unlock",
                     "recheck", "start"} /\ inst[p] # None
            => life[inst[p]] \in {"built", "closed"}
       /\ pc[p] = "starting" => life[inst[p]] \in {"starting", "reopening"}
       /\ pc[p] \in {"newLock", "resolve", "build"} => inst[p] = None
       /\ pc[p] \in RemovalPCs /\ from[p] = "replace" => inst[p] = None
       /\ pc[p] \in {"drain", "cleanup", "close"} => old[p] # None

\* StopAllProxies: the handlers have ended and nothing is registered any more
\* when it takes the hostnames; a goroutine per hostname removes what is left.
Reaping ==
  /\ \A h \in Hosts : pc[h] # "idle" => host[h] = h /\ shut = "reaping"
  /\ shut \in {"reaping", "done"} => \A p \in Handlers : pc[p] = "idle"
  /\ shut = "reaping" => \A h \in Hosts : Proxies[h] # None => pc[h] = "remove"
  /\ shut = "done" => \A h \in Hosts : Proxies[h] = None

RegisteredLive == \A h \in Hosts : Proxies[h] # None => Live(Proxies[h])

\* What a goroutine registers or tears down is not closed and not registered.
HandledLive ==
  \A p \in Procs, i \in Insts :
    /\ TearingDown(p, i) => Live(i) /\ hostname[i] = host[p]
    /\ Registering(p, i) => life[i] = "built"
    /\ Handles(p, i) => Proxies[hostname[i]] # i

OneHandler ==
  \A p, q \in Procs, i \in Insts : Handles(p, i) /\ Handles(q, i) => p = q

Owned ==
  \A i \in Insts : Live(i) =>
    /\ hostname[i] \in Hosts
    /\ Proxies[hostname[i]] = i \/ \E p \in Procs : Handles(p, i)

\* While the manager is up, a hostname has one proxy that is not closed; later
\* there may be a second one that registerProxy is about to refuse.
OneLive ==
  \A i, j \in Insts : i # j /\ hostname[i] = hostname[j] /\ Live(i) /\ Live(j) =>
    stopping /\ \E p \in Procs : Registering(p, i) \/ Registering(p, j)

Ownership == RegisteredLive /\ HandledLive /\ OneHandler /\ Owned /\ OneLive

\* The set-up of a domain runs while its proxy is registered or teardownProxy
\* waits for it.
SetupOK ==
  /\ \A i \in Insts :
       /\ setup[i] \in {"pending", "running", "written"} =>
            \/ Proxies[hostname[i]] = i
            \/ \E p \in Procs : old[p] = i /\ pc[p] = "drain"
       /\ life[i] = "unused" => setup[i] = "none"
  /\ \A p \in Procs :
       /\ pc[p] = "register" => setup[inst[p]] = "none"
       /\ pc[p] = "configure" =>
            setup[inst[p]] = IF host[p] \in WithDomain THEN "pending" ELSE "none"
       /\ pc[p] = "cleanup" => setup[old[p]] \in {"none", "skipped", "done"}

RecordOK ==
  \A h \in Hosts : record[h] # None =>
    setup[record[h]] \in {"written", "done", "kept"} /\ hostname[record[h]] = h

DInv == Builders /\ Reaping /\ Ownership /\ SetupOK /\ RecordOK /\ NoOrphanRecord

-----------------------------------------------------------------------------
(* Builders. *)

\* Up to newProxy a goroutine has no proxy of its own.
LEMMA BuildersEnter ==
  ASSUME IInv, Builders, NEW p \in Procs,
         \/ \E t \in Targets, a \in {"start", "stop", "restart"} : DispatchEvent(p, t, a)
         \/ \E h \in Hosts : RequestRestart(p, h)
         \/ LockTarget(p) \/ CheckCurrent(p) \/ ReadIndex(p) \/ LockHost(p)
         \/ AddTarget(p) \/ LockNewHost(p) \/ Resolve(p)
  PROVE  Builders'
<1> USE DEF IInv, TypeOK, LocalOK, Builders, Builds, RemovalPCs, Goto, proxy, task
<1>1. ASSUME NEW t \in Targets, NEW a \in {"start", "stop", "restart"},
             DispatchEvent(p, t, a)
      PROVE  Builders'
  BY <1>1 DEF DispatchEvent
<1>2. ASSUME NEW h \in Hosts, RequestRestart(p, h) PROVE Builders'
  BY <1>2 DEF RequestRestart
<1>3. CASE LockTarget(p)
  BY <1>3 DEF LockTarget
<1>4. CASE CheckCurrent(p)
  BY <1>4 DEF CheckCurrent
<1>5. CASE ReadIndex(p)
  BY <1>5 DEF ReadIndex, AfterStop
<1>6. CASE LockHost(p)
  BY <1>6 DEF LockHost
<1>7. CASE AddTarget(p)
  BY <1>7 DEF AddTarget
<1>8. CASE LockNewHost(p)
  BY <1>8 DEF LockNewHost
<1>9. CASE Resolve(p)
  BY <1>9 DEF Resolve
<1> QED BY <1>1, <1>2, <1>3, <1>4, <1>5, <1>6, <1>7, <1>8, <1>9, SMTT(30)

\* A removal leaves the proxies that others build alone, or closes one.
LEMMA BuildersRemoval ==
  ASSUME IInv, Builders, HandledLive, NEW p \in Procs,
         \/ Remove(p) \/ Drain(p) \/ Cleanup(p) \/ Close(p) \/ ReadCount(p)
         \/ SetGauge(p) \/ Removed(p)
  PROVE  Builders'
<1> USE DEF IInv, TypeOK, LocalOK, Builders, Builds, RemovalPCs, Goto, proxy, task
<1>1. CASE Remove(p)
  <2>1. /\ pc[p] = "remove" /\ UNCHANGED <<life, inst, from>>
        /\ \/ pc' = [pc EXCEPT ![p] = "drain"] /\ old'[p] # None
           \/ pc' = [pc EXCEPT ![p] = "removed"]
        /\ \A q \in Procs \ {p} : old'[q] = old[q]
    BY <1>1 DEF Remove, Matches
  <2> QED BY <2>1
<1>2. CASE Drain(p) \/ Cleanup(p)
  BY <1>2 DEF Drain, Cleanup
<1>3. CASE Close(p)
  <2>1. old[p] \in Insts
    BY <1>3 DEF Close
  <2> QED BY <1>3, <2>1 DEF Close
<1>4. CASE ReadCount(p) \/ SetGauge(p)
  <2>1. CASE pc[p] \in {"count", "gauge"}
    <3>1. /\ pc' = [pc EXCEPT ![p] = IF pc[p] = "count" THEN "gauge" ELSE "newUnlock"]
          /\ UNCHANGED <<life, inst, old, from>>
      BY <1>4, <2>1 DEF ReadCount, SetGauge
    <3> QED BY <2>1, <3>1
  <2>2. CASE pc[p] \in {"teardownCount", "teardownGauge"}
    <3>1. /\ pc' = [pc EXCEPT ![p] = IF pc[p] = "teardownCount" THEN "teardownGauge"
                                                               ELSE "removed"]
          /\ UNCHANGED <<life, inst, old, from>>
      BY <1>4, <2>2 DEF ReadCount, SetGauge
    <3> QED BY <2>2, <3>1
  <2> QED BY <1>4, <2>1, <2>2 DEF ReadCount, SetGauge
<1>5. CASE Removed(p) /\ from[p] \in {"stop", "replace"}
  <2>1. /\ inst[p] = None /\ UNCHANGED <<life, inst>>
        /\ pc' = [pc EXCEPT ![p] = pc'[p]] /\ pc'[p] \in {"add", "unlock", "build"}
        /\ old' = [old EXCEPT ![p] = None] /\ from' = [from EXCEPT ![p] = None]
    BY <1>5 DEF Removed, Return, AfterStop
  <2> QED BY <2>1
<1>6. CASE Removed(p) /\ from[p] = "fail"
  <2>1. /\ UNCHANGED life
        /\ pc' = [pc EXCEPT ![p] = pc'[p]] /\ pc'[p] \in {"unlock", "idle"}
        /\ inst' = [inst EXCEPT ![p] = None]
        /\ old' = [old EXCEPT ![p] = None] /\ from' = [from EXCEPT ![p] = None]
    BY <1>6 DEF Removed, Return, Finish
  <2> QED BY <2>1
<1>7. CASE Removed(p) /\ from[p] = "reap"
  BY <1>7, SMTT(30) DEF Removed, Finish
<1> QED BY <1>1, <1>2, <1>3, <1>4, <1>5, <1>6, <1>7 DEF Removed

\* newProxy builds a proxy that was nobody's; Start belongs to its builder.
LEMMA BuildersBuild ==
  ASSUME IInv, Builders, HandledLive, NEW p \in Procs,
         \/ Build(p) \/ Register(p) \/ Configure(p) \/ UnlockNewHost(p) \/ UnlockTarget(p)
         \/ Recheck(p) \/ StartProvider(p) \/ ProviderStarted(p) \/ StartListeners(p)
  PROVE  Builders'
<1> USE DEF IInv, TypeOK, LocalOK, Builders, Builds, RemovalPCs, Goto, proxy, task
<1>1. CASE Build(p)
  BY <1>1, NoneFresh, SMTT(30) DEF Build
<1>2. CASE Register(p)
  <2>1. inst[p] \in Insts /\ life[inst[p]] = "built"
    BY <1>2 DEF Register, RegisterReady, HandledLive, Registering
  <2>2. CASE stopping
    BY <1>2, <2>1, <2>2 DEF Register, Refuse
  <2>3. CASE ~stopping
    <3>1. /\ pc[p] = "register" /\ pc' = [pc EXCEPT ![p] = "configure"]
          /\ UNCHANGED <<life, inst, from, old>>
      BY <1>2, <2>3 DEF Register, Insert
    <3> QED BY <2>1, <3>1, NoneFresh
  <2> QED BY <2>2, <2>3
<1>3. CASE Configure(p)
  BY <1>3 DEF Configure
<1>4. CASE UnlockNewHost(p)
  BY <1>4 DEF UnlockNewHost
<1>5. CASE UnlockTarget(p)
  BY <1>5, SMTT(30) DEF UnlockTarget, Finish
<1>6. CASE Recheck(p)
  <2>1. CASE Proxies[host[p]] = inst[p]
    <3>1. /\ pc[p] = "recheck" /\ pc' = [pc EXCEPT ![p] = "start"]
          /\ UNCHANGED <<life, inst, from, old>>
      BY <1>6, <2>1 DEF Recheck
    <3> QED BY <3>1
  <2>2. CASE Proxies[host[p]] # inst[p]
    BY <1>6, <2>2, SMTT(30) DEF Recheck, Finish
  <2> QED BY <2>1, <2>2
<1>7. CASE StartProvider(p)
  <2>1. inst[p] \in Insts /\ Builds(p)
    BY <1>7 DEF StartProvider
  <2> QED BY <1>7, <2>1 DEF StartProvider
<1>8. CASE ProviderStarted(p)
  <2>1. inst[p] \in Insts /\ Builds(p)
    BY <1>8 DEF ProviderStarted
  <2> QED BY <1>8, <2>1 DEF ProviderStarted
<1>9. CASE StartListeners(p)
  BY <1>9, SMTT(30) DEF StartListeners, Finish
<1> QED BY <1>1, <1>2, <1>3, <1>4, <1>5, <1>6, <1>7, <1>8, <1>9

\* Every step keeps who is building what.
LEMMA NextBuilders == IInv /\ Builders /\ HandledLive /\ Reaping /\ [Next]_vars => Builders'
<1>1. SUFFICES ASSUME IInv, Builders, HandledLive, Reaping, [Next]_vars PROVE Builders'
  OBVIOUS
<1>2. CASE UNCHANGED vars
  BY <1>1, <1>2 DEF Builders, Builds, vars, proxy, task
<1>3. ASSUME NEW p \in Workers, Enter(p) PROVE Builders'
  BY <1>1, <1>3, BuildersEnter DEF Enter, Procs
<1>4. ASSUME NEW p \in Procs, Step(p) PROVE Builders'
  BY <1>1, <1>4, BuildersEnter, BuildersRemoval, BuildersBuild DEF Step
<1>5. ASSUME NEW i \in Insts, SetupDNS(i) \/ SetupEnds(i) PROVE Builders'
  BY <1>1, <1>5 DEF SetupDNS, SetupEnds, Builders, Builds, proxy, task
<1>6. CASE StopAllProxies \/ WatchersGone \/ AllStopped
  BY <1>1, <1>6 DEF StopAllProxies, WatchersGone, AllStopped, Builders, Builds, proxy, task
<1>7. CASE ReapAll
  BY <1>1, <1>7 DEF ReapAll, ReapSnapshot, Builders, Builds, RemovalPCs, IInv, TypeOK,
         Reaping, Procs, proxy
<1> QED BY <1>1, <1>2, <1>3, <1>4, <1>5, <1>6, <1>7 DEF Next, Shutdown

-----------------------------------------------------------------------------
(* Reaping. *)

\* A goroutine other than StopAllProxies' own, and not at rest, is a dashboard
\* request once the reaping has begun.
LEMMA ReapingWorks ==
  ASSUME IInv, Reaping, NEW p \in Workers, UNCHANGED shut,
         pc[p] # "idle" \/ p \in Clients \/ shut \in {"up", "stopping"},
         \A q \in Procs \ {p} : pc'[q] = pc[q] /\ host'[q] = host[q],
         \A h \in Hosts : Proxies'[h] # None => ~stopping \/ Proxies[h] # None
  PROVE  Reaping'
<1>1. \A h \in Hosts : h \in Procs /\ h # p
  BY DisjointProcs DEF Workers, Procs
<1>2. \A q \in Handlers : q \in Procs
  BY DEF Procs, Workers
<1>3. p \in Handlers => shut \notin {"reaping", "done"}
  BY DisjointProcs DEF Reaping, Workers
<1> QED BY <1>1, <1>2, <1>3 DEF Reaping, stopping

\* A step of the goroutine that removes the hostname's proxy.
LEMMA ReapingReaps ==
  ASSUME IInv, Reaping, NEW h \in Hosts, pc[h] # "idle", UNCHANGED shut,
         \A q \in Procs \ {h} : pc'[q] = pc[q] /\ host'[q] = host[q],
         pc'[h] # "idle" => host'[h] = h,
         \A g \in Hosts : Proxies'[g] # None => Proxies[g] # None /\ g # h
  PROVE  Reaping'
<1>1. \A g \in Hosts : g \in Procs
  BY DEF Procs
<1>2. \A q \in Handlers : q \in Procs /\ q # h
  BY DisjointProcs DEF Procs, Workers
<1>3. shut = "reaping"
  BY DEF Reaping
<1> QED BY <1>1, <1>2, <1>3 DEF Reaping

\* A step of one task keeps who is tearing down what.
LEMMA ReapingStep ==
  ASSUME IInv, Builders, Reaping, NEW p \in Procs, Step(p)
  PROVE  Reaping'
<1>1. pc[p] # "idle" /\ UNCHANGED shut
  <2>1. CASE LockTarget(p) \/ CheckCurrent(p) \/ ReadIndex(p) \/ LockHost(p)
             \/ Remove(p) \/ Drain(p) \/ Cleanup(p) \/ Close(p)
             \/ ReadCount(p) \/ SetGauge(p) \/ Removed(p)
    BY <2>1 DEF LockTarget, CheckCurrent, ReadIndex, LockHost, Remove, Drain, Cleanup,
                Close, ReadCount, SetGauge, Removed
  <2>2. CASE AddTarget(p) \/ LockNewHost(p) \/ Resolve(p) \/ Build(p) \/ Register(p)
             \/ Configure(p) \/ UnlockNewHost(p) \/ UnlockTarget(p)
             \/ Recheck(p) \/ StartProvider(p) \/ ProviderStarted(p) \/ StartListeners(p)
    BY <2>2 DEF AddTarget, LockNewHost, Resolve, Build, Register, Configure,
                UnlockNewHost, UnlockTarget, Recheck, StartProvider, ProviderStarted,
                StartListeners
  <2> QED BY <2>1, <2>2 DEF Step
<1>2. \A q \in Procs \ {p} : pc'[q] = pc[q] /\ host'[q] = host[q]
  <2> USE DEF IInv, TypeOK, Goto, task
  <2>1. CASE LockTarget(p) \/ CheckCurrent(p) \/ ReadIndex(p) \/ LockHost(p)
    BY <2>1 DEF LockTarget, CheckCurrent, ReadIndex, LockHost
  <2>2. CASE Remove(p) \/ Drain(p) \/ Cleanup(p) \/ Close(p) \/ ReadCount(p) \/ SetGauge(p)
    BY <2>2 DEF Remove, Drain, Cleanup, Close, ReadCount, SetGauge
  <2>3. CASE Removed(p)
    BY <2>3 DEF Removed, Return, Finish
  <2>4. CASE AddTarget(p) \/ LockNewHost(p) \/ Resolve(p) \/ Build(p) \/ Register(p)
             \/ Configure(p) \/ UnlockNewHost(p)
    BY <2>4 DEF AddTarget, LockNewHost, Resolve, Build, Register, Insert, Refuse,
                Configure, UnlockNewHost
  <2>5. CASE UnlockTarget(p) \/ Recheck(p) \/ StartListeners(p)
    BY <2>5 DEF UnlockTarget, Recheck, StartListeners, Finish
  <2>6. CASE StartProvider(p) \/ ProviderStarted(p)
    BY <2>6 DEF StartProvider, ProviderStarted
  <2> QED BY <2>1, <2>2, <2>3, <2>4, <2>5, <2>6 DEF Step
<1>3. ASSUME ~Remove(p), ~Register(p) PROVE UNCHANGED Proxies
  BY <1>3 DEF Step, LockTarget, CheckCurrent, ReadIndex, LockHost, Drain, Cleanup, Close,
     ReadCount, SetGauge, Removed, AddTarget, LockNewHost, Resolve, Build, Configure,
     UnlockNewHost, UnlockTarget, Recheck, StartProvider, ProviderStarted, StartListeners,
     registry
<1>4. CASE p \in Workers
  <2>1. \A h \in Hosts : Proxies'[h] # None => ~stopping \/ Proxies[h] # None
    <3>1. CASE Remove(p)
      BY <3>1 DEF Remove, IInv, TypeOK, registry
    <3>2. CASE Register(p)
      BY <3>2 DEF Register, Refuse, registry
    <3> QED BY <1>3, <3>1, <3>2
  <2> QED BY <1>1, <1>2, <1>4, <2>1, ReapingWorks
<1>5. CASE p \in Hosts
  <2>1. pc[p] \in RemovalPCs /\ from[p] = "reap" /\ host[p] = p /\ shut = "reaping"
    BY <1>1, <1>5 DEF IInv, LocalOK, Reaping
  <2>2. pc'[p] # "idle" => host'[p] = p
    <3> USE DEF Goto, task, IInv, TypeOK
    <3>1. CASE Remove(p) \/ Drain(p) \/ Cleanup(p) \/ Close(p) \/ ReadCount(p) \/ SetGauge(p)
      BY <2>1, <3>1 DEF Remove, Drain, Cleanup, Close, ReadCount, SetGauge
    <3>2. CASE Removed(p)
      BY <2>1, <3>2 DEF Removed, Finish
    <3> QED
      BY <2>1, <3>1, <3>2
        DEF Step, RemovalPCs, LockTarget, CheckCurrent, ReadIndex, LockHost,
         AddTarget, LockNewHost, Resolve, Build, Register, Configure, UnlockNewHost,
         UnlockTarget, Recheck, StartProvider, ProviderStarted, StartListeners
  <2>3. ~Register(p)
    BY <2>1 DEF Register, RemovalPCs
  <2>4. \A g \in Hosts : Proxies'[g] # None => Proxies[g] # None /\ g # p
    <3>1. CASE Remove(p)
      BY <1>5, <2>1, <3>1 DEF Remove, Matches, IInv, TypeOK, registry
    <3>2. CASE ~Remove(p)
      <4>1. pc[p] # "remove"
        BY <2>1, <3>2 DEF Step, RemovalPCs, LockTarget, CheckCurrent, ReadIndex, LockHost,
           Drain, Cleanup, Close, ReadCount, SetGauge, Removed,
           AddTarget, LockNewHost, Resolve, Build, Register, Configure, UnlockNewHost,
           UnlockTarget, Recheck, StartProvider, ProviderStarted, StartListeners
      <4>2. Proxies[p] = None
        BY <1>5, <2>1, <4>1 DEF Reaping
      <4> QED BY <1>3, <2>3, <3>2, <4>2
    <3> QED BY <3>1, <3>2
  <2> QED BY <1>1, <1>2, <1>5, <2>2, <2>4, ReapingReaps
<1> QED BY <1>4, <1>5 DEF Procs

\* Every step does.
LEMMA NextReaping == IInv /\ Builders /\ Reaping /\ [Next]_vars => Reaping'
<1>1. SUFFICES ASSUME IInv, Builders, Reaping, [Next]_vars PROVE Reaping'
  OBVIOUS
<1>2. CASE UNCHANGED vars
  BY <1>1, <1>2 DEF Reaping, vars, registry, task
<1>3. ASSUME NEW p \in Workers, Enter(p) PROVE Reaping'
  <2>1. ASSUME NEW t \in Targets, NEW a \in {"start", "stop", "restart"},
               DispatchEvent(p, t, a)
        PROVE  Reaping'
    <3>1. /\ UNCHANGED <<shut, Proxies>> /\ shut \in {"up", "stopping"}
          /\ \A q \in Procs \ {p} : pc'[q] = pc[q] /\ host'[q] = host[q]
      BY <1>1, <2>1 DEF DispatchEvent, registry, Goto, IInv, TypeOK
    <3> QED BY <1>1, <3>1, ReapingWorks
  <2>2. ASSUME NEW h \in Hosts, RequestRestart(p, h) PROVE Reaping'
    <3>1. /\ UNCHANGED <<shut, Proxies>> /\ p \in Clients
          /\ \A q \in Procs \ {p} : pc'[q] = pc[q] /\ host'[q] = host[q]
      BY <1>1, <2>2 DEF RequestRestart, registry, Goto, IInv, TypeOK
    <3> QED BY <1>1, <3>1, ReapingWorks
  <2> QED BY <1>3, <2>1, <2>2 DEF Enter
<1>4. ASSUME NEW p \in Procs, Step(p) PROVE Reaping'
  BY <1>1, <1>4, ReapingStep
<1>5. ASSUME NEW i \in Insts, SetupDNS(i) \/ SetupEnds(i) PROVE Reaping'
  BY <1>1, <1>5 DEF SetupDNS, SetupEnds, Reaping, registry, task
<1>6. CASE StopAllProxies \/ WatchersGone
  BY <1>1, <1>6 DEF StopAllProxies, WatchersGone, Reaping, registry, task
<1>7. CASE ReapAll
  BY <1>1, <1>7, DisjointProcs
     DEF ReapAll, ReapSnapshot, Reaping, registry, Procs, Workers
<1>8. CASE AllStopped
  BY <1>1, <1>8 DEF AllStopped, Reaping, registry, task
<1> QED BY <1>1, <1>2, <1>3, <1>4, <1>5, <1>6, <1>7, <1>8 DEF Next, Shutdown

-----------------------------------------------------------------------------
(* Owners of proxies and of records. *)

Owners == Ownership /\ SetupOK /\ RecordOK /\ NoOrphanRecord

Handling == {"drain", "cleanup", "close", "register", "configure"}

\* A goroutine that neither holds a proxy before the step nor after it.
LEMMA OwnersElsewhere ==
  ASSUME IInv, Owners, NEW p \in Procs,
         UNCHANGED <<Proxies, life, hostname, setup, record, shut>>,
         \A q \in Procs \ {p} : /\ pc'[q] = pc[q] /\ inst'[q] = inst[q]
                                /\ old'[q] = old[q] /\ host'[q] = host[q],
         pc[p] \notin Handling, pc'[p] \notin Handling
  PROVE  Owners'
<1> USE DEF Owners, Ownership, Handling
<1>1. \A q \in Procs, i \in Insts :
        /\ TearingDown(q, i)' <=> TearingDown(q, i)
        /\ Registering(q, i)' <=> Registering(q, i)
        /\ Handles(q, i)' <=> Handles(q, i)
  BY DEF TearingDown, Registering, Handles
<1>2. \A i \in Insts : Live(i)' <=> Live(i)
  BY DEF Live
<1>3. RegisteredLive'
  BY DEF RegisteredLive, Live
<1>4. HandledLive'
  BY <1>1, <1>2 DEF HandledLive, TearingDown
<1>5. OneHandler'
  BY <1>1 DEF OneHandler
<1>6. Owned'
  BY <1>1, <1>2 DEF Owned
<1>7. OneLive'
  BY <1>1, <1>2 DEF OneLive, stopping
<1>8. SetupOK'
  BY DEF SetupOK
<1>9. RecordOK' /\ NoOrphanRecord'
  BY DEF RecordOK, NoOrphanRecord
<1> QED BY <1>3, <1>4, <1>5, <1>6, <1>7, <1>8, <1>9

\* Events, requests and locks.
LEMMA OwnersEnter ==
  ASSUME IInv, Owners, NEW p \in Procs,
         \/ \E t \in Targets, a \in {"start", "stop", "restart"} : DispatchEvent(p, t, a)
         \/ \E h \in Hosts : RequestRestart(p, h)
         \/ LockTarget(p) \/ CheckCurrent(p) \/ ReadIndex(p) \/ LockHost(p)
         \/ AddTarget(p) \/ LockNewHost(p) \/ Resolve(p)
  PROVE  Owners'
<1> USE DEF Goto, IInv, TypeOK, Handling, registry, proxy, domain, task
<1>1. /\ UNCHANGED <<Proxies, life, hostname, setup, record, shut>>
      /\ pc[p] \notin Handling
  BY DEF DispatchEvent, RequestRestart, LockTarget, CheckCurrent, ReadIndex, LockHost,
         AddTarget, LockNewHost, Resolve
<1>2. \A q \in Procs \ {p} : /\ pc'[q] = pc[q] /\ inst'[q] = inst[q]
                             /\ old'[q] = old[q] /\ host'[q] = host[q]
  BY DEF DispatchEvent, RequestRestart, LockTarget, CheckCurrent, ReadIndex, LockHost,
         AddTarget, LockNewHost, Resolve
<1>3. pc'[p] \notin Handling
  <2>1. CASE LockTarget(p)
    BY <2>1 DEF LockTarget, LocalOK
  <2>2. CASE ~LockTarget(p)
    BY <2>2 DEF DispatchEvent, RequestRestart, CheckCurrent, ReadIndex, LockHost,
                AddTarget, LockNewHost, Resolve, AfterStop
  <2> QED BY <2>1, <2>2
<1> QED BY <1>1, <1>2, <1>3, OwnersElsewhere

\* The metric, the return of a removal, and what follows newProxy.
LEMMA OwnersReturn ==
  ASSUME IInv, Owners, NEW p \in Procs,
         \/ ReadCount(p) \/ SetGauge(p) \/ Removed(p) \/ UnlockNewHost(p)
         \/ UnlockTarget(p) \/ Recheck(p) \/ StartListeners(p)
  PROVE  Owners'
<1> USE DEF Goto, IInv, TypeOK, Handling, registry, proxy, domain, task
<1>1. /\ UNCHANGED <<Proxies, life, hostname, setup, record, shut>>
      /\ pc[p] \notin Handling
  BY DEF ReadCount, SetGauge, Removed, UnlockNewHost, UnlockTarget, Recheck, StartListeners
<1>2. /\ \A q \in Procs \ {p} : /\ pc'[q] = pc[q] /\ inst'[q] = inst[q]
                                /\ old'[q] = old[q] /\ host'[q] = host[q]
      /\ pc'[p] \notin Handling
  <2>1. CASE ReadCount(p) \/ SetGauge(p)
    BY <2>1 DEF ReadCount, SetGauge
  <2>2. CASE Removed(p)
    BY <2>2 DEF Removed, Return, Finish, AfterStop
  <2>3. CASE UnlockNewHost(p) \/ UnlockTarget(p) \/ Recheck(p) \/ StartListeners(p)
    BY <2>3 DEF UnlockNewHost, UnlockTarget, Recheck, StartListeners, Finish
  <2> QED BY <2>1, <2>2, <2>3
<1> QED BY <1>1, <1>2, OwnersElsewhere

\* removeAndTeardown takes the proxy out of the registry.
LEMMA OwnersRemove ==
  ASSUME IInv, IInv', Builders, Owners, NEW p \in Procs, Remove(p)
  PROVE  Owners'
<1> USE DEF Owners, Ownership, IInv, TypeOK, Goto
<1>0. /\ pc[p] = "remove" /\ host[p] \in Hosts
      /\ UNCHANGED <<life, hostname, setup, record, shut, inst, host>>
  BY DEF Remove, LocalOK, RemovalPCs, proxy, domain
<1>1. CASE ~Matches(p, Proxies[host[p]])
  <2>1. /\ UNCHANGED <<Proxies, old>> /\ pc' = [pc EXCEPT ![p] = "removed"]
    BY <1>1 DEF Remove, registry
  <2> QED BY <1>0, <2>1, OwnersElsewhere DEF Handling
<1>2. CASE Matches(p, Proxies[host[p]])
  <2> DEFINE h == host[p]  i == Proxies[h]
  <2>1. /\ Proxies' = [Proxies EXCEPT ![h] = None]
        /\ old' = [old EXCEPT ![p] = i] /\ pc' = [pc EXCEPT ![p] = "drain"]
    BY <1>2 DEF Remove
  <2>2. i \in Insts /\ i # None /\ h \in Hosts /\ hostname[i] = h
    BY <1>0, <1>2 DEF Matches, RegisteredOK
  <2> HIDE DEF h, i
  <2>3. Live(i) /\ \A q \in Procs : ~Handles(q, i)
    BY <2>2 DEF RegisteredLive, HandledLive, h, i
  <2>4. \A q \in Procs, j \in Insts :
          /\ TearingDown(q, j)' <=> TearingDown(q, j) \/ (q = p /\ j = i)
          /\ Registering(q, j)' <=> Registering(q, j)
          /\ Handles(q, j)' <=> Handles(q, j) \/ (q = p /\ j = i)
    BY <1>0, <2>1, <2>2 DEF TearingDown, Registering, Handles
  <2>5. \A j \in Insts : Live(j)' <=> Live(j)
    BY <1>0 DEF Live
  <2>6. \A g \in Hosts : Proxies'[g] = IF g = h THEN None ELSE Proxies[g]
    BY <2>1, <2>2
  <2>7. RegisteredLive'
    BY <1>0, <2>6 DEF RegisteredLive, Live
  <2>8. HandledLive'
    <3>1. ASSUME NEW q \in Procs, NEW j \in Insts, TearingDown(q, j)
          PROVE  Live(j) /\ hostname[j] = host[q] /\ j # i
      BY <2>3, <3>1 DEF HandledLive, Handles
    <3>2. \A q \in Procs, j \in Insts : Handles(q, j)' => Proxies'[hostname'[j]] # j
      <4> SUFFICES ASSUME NEW q \in Procs, NEW j \in Insts, Handles(q, j)'
                   PROVE  Proxies'[hostname[j]] # j
        BY <1>0
      <4>1. CASE j = i
        BY <2>2, <2>6, <4>1
      <4>2. CASE j # i
        <5>1. Handles(q, j) /\ Live(j)
          BY <2>4, <4>2 DEF HandledLive, Handles, Live
        <5>2. hostname[j] \in Hosts /\ Proxies[hostname[j]] # j
          BY <5>1 DEF HandledLive, Owned
        <5> QED BY <2>6, <5>2, NoneFresh
      <4> QED BY <4>1, <4>2
    <3> QED BY <1>0, <2>2, <2>3, <2>4, <2>5, <3>1, <3>2 DEF HandledLive, h
  <2>9. OneHandler'
    <3> SUFFICES ASSUME NEW q \in Procs, NEW r \in Procs, NEW j \in Insts,
                        Handles(q, j)', Handles(r, j)'
                 PROVE  q = r
      BY DEF OneHandler
    <3>1. CASE j = i
      BY <2>3, <2>4, <3>1
    <3>2. CASE j # i
      BY <2>4, <3>2 DEF OneHandler
    <3> QED BY <3>1, <3>2
  <2>10. Owned'
    <3> SUFFICES ASSUME NEW j \in Insts, Live(j)
                 PROVE  /\ hostname[j] \in Hosts
                        /\ Proxies'[hostname[j]] = j \/ \E q \in Procs : Handles(q, j)'
      BY <1>0, <2>5 DEF Owned
    <3>1. CASE j = i
      BY <2>2, <2>4, <3>1
    <3>2. CASE j # i
      <4>1. hostname[j] \in Hosts
        BY DEF Owned
      <4>2. CASE Proxies[hostname[j]] = j
        <5>1. hostname[j] # h
          BY <3>2, <4>2 DEF i
        <5> QED BY <2>6, <4>1, <4>2, <5>1
      <4>3. CASE \E q \in Procs : Handles(q, j)
        BY <2>4, <4>1, <4>3
      <4> QED BY <4>2, <4>3 DEF Owned
    <3> QED BY <3>1, <3>2
  <2>11. OneLive'
    BY <1>0, <2>4, <2>5 DEF OneLive, stopping
  <2>12. SetupOK'
    <3>1. \A j \in Insts : setup[j] \in {"pending", "running", "written"} =>
            Proxies'[hostname[j]] = j \/ \E q \in Procs : old'[q] = j /\ pc'[q] = "drain"
      <4> SUFFICES ASSUME NEW j \in Insts, setup[j] \in {"pending", "running", "written"}
                   PROVE  Proxies'[hostname[j]] = j \/ \E q \in Procs : old'[q] = j /\ pc'[q] = "drain"
        OBVIOUS
      <4>1. CASE j = i
        BY <2>1, <4>1
      <4>2. CASE j # i
        <5>1. CASE Proxies[hostname[j]] = j
          BY <2>1, <2>2, <4>2, <5>1 DEF i, h
        <5>2. CASE \E q \in Procs : old[q] = j /\ pc[q] = "drain"
          BY <1>0, <2>1, <5>2
        <5> QED BY <5>1, <5>2 DEF SetupOK
      <4> QED BY <4>1, <4>2
    <3> QED BY <1>0, <2>1, <3>1 DEF SetupOK
  <2>13. RecordOK'
    BY <1>0 DEF RecordOK
  <2>14. NoOrphanRecord'
    <3> SUFFICES ASSUME NEW g \in Hosts, record[g] # None
                 PROVE  \/ Proxies'[g] = record[g]
                        \/ setup[record[g]] = "kept"
                        \/ \E q \in Procs : old'[q] = record[g] /\ pc'[q] \in {"drain", "cleanup"}
      BY <1>0 DEF NoOrphanRecord
    <3>1. CASE Proxies[g] = record[g]
      <4>1. CASE g = h
        BY <2>1, <3>1, <4>1 DEF i
      <4>2. CASE g # h
        BY <2>6, <3>1, <4>2
      <4> QED BY <4>1, <4>2
    <3>2. CASE \E q \in Procs : old[q] = record[g] /\ pc[q] \in {"drain", "cleanup"}
      BY <1>0, <2>1, <3>2
    <3>3. CASE setup[record[g]] = "kept"
      BY <3>3
    <3> QED BY <3>1, <3>2, <3>3 DEF NoOrphanRecord
  <2> QED BY <2>7, <2>8, <2>9, <2>10, <2>11, <2>12, <2>13, <2>14
<1> QED BY <1>1, <1>2

\* setupWg.Wait(), the clean-up of the record and Close, by the only goroutine
\* that tears the proxy down.
LEMMA OwnersTeardown ==
  ASSUME IInv, IInv', Builders, Owners, NEW p \in Procs,
         Drain(p) \/ Cleanup(p) \/ Close(p)
  PROVE  Owners'
<1> USE DEF Owners, Ownership, IInv, TypeOK, Goto
<1> DEFINE i == old[p]
<1>0. /\ pc[p] \in {"drain", "cleanup", "close"} /\ i \in Insts
      /\ TearingDown(p, i) /\ Live(i)
      /\ \A h \in Hosts : Proxies[h] # i
      /\ \A q \in Procs : Handles(q, i) => q = p
  <2>1. pc[p] \in {"drain", "cleanup", "close"}
    BY DEF Drain, Cleanup, Close
  <2>2. i \in Insts /\ TearingDown(p, i)
    BY <2>1 DEF TearingDown, Builders
  <2> HIDE DEF i
  <2>3. Handles(p, i)
    BY <2>2 DEF Handles
  <2>4. \A h \in Hosts : Proxies[h] # i
    BY <2>2, <2>3, NoneFresh, SMTT(30) DEF HandledLive, RegisteredOK
  <2> QED BY <2>1, <2>2, <2>3, <2>4 DEF HandledLive, OneHandler, i
<1>1. ASSUME UNCHANGED <<Proxies, life, hostname, shut, inst, old, host>>,
             pc' = [pc EXCEPT ![p] = pc'[p]], pc'[p] \in {"cleanup", "close"}
      PROVE  Ownership'
  <2>1. \A q \in Procs, j \in Insts :
          /\ TearingDown(q, j)' <=> TearingDown(q, j)
          /\ Registering(q, j)' <=> Registering(q, j)
          /\ Handles(q, j)' <=> Handles(q, j)
    BY <1>0, <1>1 DEF TearingDown, Registering, Handles
  <2>2. \A j \in Insts : Live(j)' <=> Live(j)
    BY <1>1 DEF Live
  <2>3. RegisteredLive'
    BY <1>1 DEF RegisteredLive, Live
  <2>4. HandledLive'
    BY <1>1, <2>1, <2>2 DEF HandledLive
  <2>5. OneHandler'
    BY <2>1 DEF OneHandler
  <2>6. Owned'
    BY <1>1, <2>1, <2>2 DEF Owned
  <2>7. OneLive'
    BY <1>1, <2>1, <2>2 DEF OneLive, stopping
  <2> QED BY <2>3, <2>4, <2>5, <2>6, <2>7
<1>2. CASE Drain(p)
  <2>1. /\ UNCHANGED <<Proxies, life, hostname, setup, shut, inst, old, host, record>>
        /\ pc' = [pc EXCEPT ![p] = "cleanup"] /\ pc[p] = "drain"
        /\ setup[i] \in {"none", "skipped", "done"}
    BY <1>2 DEF Drain, registry, proxy, domain, task
  <2>2. pc' = [pc EXCEPT ![p] = pc'[p]] /\ pc'[p] = "cleanup"
    BY <2>1
  <2>3. Ownership'
    BY <1>1, <2>1, <2>2
  <2>4. SetupOK'
    <3>1. \A j \in Insts : setup[j] \in {"pending", "running", "written"} =>
            Proxies[hostname[j]] = j \/ \E q \in Procs : old[q] = j /\ pc'[q] = "drain"
      BY <2>1 DEF SetupOK
    <3> QED BY <2>1, <3>1 DEF SetupOK
  <2>5. RecordOK' /\ NoOrphanRecord'
    BY <2>1 DEF RecordOK, NoOrphanRecord
  <2> QED BY <2>3, <2>4, <2>5
<1>3. CASE Cleanup(p)
  <2>1. /\ UNCHANGED <<Proxies, life, hostname, shut, inst, old, host>>
        /\ pc' = [pc EXCEPT ![p] = "close"] /\ pc[p] = "cleanup"
        /\ \/ setup[i] # "done" /\ setup' = setup /\ record' = record
           \/ /\ setup[i] = "done" /\ setup' = setup
              /\ record' = [record EXCEPT ![hostname[i]] = None]
           \/ /\ setup[i] = "done" /\ setup' = [setup EXCEPT ![i] = "kept"]
              /\ record' = record
    BY <1>3 DEF Cleanup, registry, proxy, domain, task
  <2>2. pc' = [pc EXCEPT ![p] = pc'[p]] /\ pc'[p] = "close"
    BY <2>1
  <2> HIDE DEF i
  <2>3. \A j \in Insts : j # i => setup'[j] = setup[j]
    BY <2>1
  <2>4. /\ setup[i] \in {"none", "skipped", "done"}
        /\ setup'[i] \in {"none", "skipped", "done", "kept"}
        /\ setup[i] = "none" => setup'[i] = "none"
    BY <1>0, <2>1 DEF SetupOK, i
  <2>5. Ownership'
    BY <1>1, <2>1, <2>2 DEF i
  <2>6. SetupOK'
    <3>1. \A j \in Insts :
            /\ setup'[j] \in {"pending", "running", "written"} =>
                 Proxies[hostname[j]] = j \/ \E q \in Procs : old[q] = j /\ pc'[q] = "drain"
            /\ life[j] = "unused" => setup'[j] = "none"
      BY <1>0, <2>1, <2>3, <2>4 DEF SetupOK, Live
    <3>2. \A q \in Procs : pc'[q] = "register" => inst[q] # i /\ setup'[inst[q]] = "none"
      <4> SUFFICES ASSUME NEW q \in Procs, pc'[q] = "register"
                   PROVE  inst[q] # i /\ setup'[inst[q]] = "none"
        OBVIOUS
      <4>1. q # p /\ pc[q] = "register" /\ inst[q] \in Insts
        BY <2>1 DEF RegisterReady
      <4>2. inst[q] # i
        BY <1>0, <4>1 DEF Handles, Registering
      <4> QED BY <2>3, <4>1, <4>2 DEF SetupOK
    <3>3. ASSUME NEW q \in Procs, pc'[q] = "configure"
          PROVE  setup'[inst[q]] = IF host[q] \in WithDomain THEN "pending" ELSE "none"
      <4>1. q # p /\ pc[q] = "configure" /\ inst[q] \in Insts
        BY <2>1, <3>3 DEF Builders
      <4>2. CASE setup[inst[q]] = "pending"
        BY <2>3, <2>4, <4>1, <4>2 DEF SetupOK
      <4>3. CASE setup[inst[q]] = "none"
        BY <2>3, <2>4, <4>1, <4>3 DEF SetupOK
      <4> QED BY <4>1, <4>2, <4>3 DEF SetupOK
    <3>4. ASSUME NEW q \in Procs, pc'[q] = "cleanup"
          PROVE  setup'[old[q]] \in {"none", "skipped", "done"}
      <4>1. q # p /\ pc[q] = "cleanup" /\ old[q] \in Insts
        BY <2>1, <3>4 DEF Builders
      <4>2. old[q] # i
        BY <1>0, <4>1 DEF Handles, TearingDown
      <4> QED BY <2>3, <4>1, <4>2 DEF SetupOK
    <3> QED BY <2>1, <3>1, <3>2, <3>3, <3>4 DEF SetupOK
  <2>7. \A h \in Hosts : record'[h] # None =>
          /\ record'[h] = record[h]
          /\ record[h] = i => setup'[i] = "kept"
    <3> SUFFICES ASSUME NEW h \in Hosts, record'[h] # None
                 PROVE  /\ record'[h] = record[h]
                        /\ record[h] = i => setup'[i] = "kept"
      OBVIOUS
    <3>1. record'[h] = record[h]
      BY <2>1
    <3>2. CASE record[h] = i
      BY <1>0, <2>1, <2>4, <3>1, <3>2 DEF RecordOK
    <3> QED BY <3>1, <3>2
  <2>8. RecordOK'
    BY <1>0, <2>1, <2>3, <2>7 DEF RecordOK
  <2>9. NoOrphanRecord'
    <3> SUFFICES ASSUME NEW h \in Hosts, record'[h] # None, record[h] # i
                 PROVE  \/ Proxies[h] = record[h]
                        \/ setup'[record[h]] = "kept"
                        \/ \E q \in Procs : old[q] = record[h] /\ pc'[q] \in {"drain", "cleanup"}
      BY <2>1, <2>7 DEF NoOrphanRecord
    <3> QED BY <2>1, <2>3, <2>7 DEF NoOrphanRecord, i
  <2> QED BY <2>5, <2>6, <2>8, <2>9
<1>4. CASE Close(p)
  <2>1. /\ UNCHANGED <<Proxies, hostname, setup, shut, inst, old, host, record>>
        /\ pc[p] = "close" /\ pc' = [pc EXCEPT ![p] = pc'[p]]
        /\ pc'[p] \in {"teardownCount", "removed"}
        /\ life' = [life EXCEPT ![i] = "closed"]
    BY <1>4 DEF Close, registry, domain, task
  <2> HIDE DEF i
  <2>2. \A q \in Procs, j \in Insts :
          /\ TearingDown(q, j)' <=> TearingDown(q, j) /\ q # p
          /\ Registering(q, j)' <=> Registering(q, j)
          /\ Handles(q, j)' <=> Handles(q, j) /\ q # p
    BY <2>1 DEF TearingDown, Registering, Handles
  <2>3. \A j \in Insts : /\ Live(j)' <=> Live(j) /\ j # i
                         /\ j # i => life'[j] = life[j]
    BY <2>1, <1>0 DEF Live
  <2>4. \A j \in Insts : Handles(p, j) => j = i
    BY <2>1 DEF Handles, TearingDown, Registering, i
  <2>5. RegisteredLive'
    <3> SUFFICES ASSUME NEW h \in Hosts, Proxies[h] # None PROVE Live(Proxies[h])'
      BY <2>1 DEF RegisteredLive, Live
    <3>1. Proxies[h] \in Insts /\ Live(Proxies[h]) /\ Proxies[h] # i
      BY <1>0 DEF RegisteredLive
    <3> QED BY <2>1, <3>1 DEF Live
  <2>6. HandledLive'
    <3> SUFFICES ASSUME NEW q \in Procs, NEW j \in Insts, Handles(q, j)'
                 PROVE  /\ TearingDown(q, j)' => Live(j)' /\ hostname[j] = host[q]
                        /\ Registering(q, j)' => life'[j] = "built"
                        /\ Proxies[hostname[j]] # j
      BY <2>1 DEF HandledLive, Handles
    <3>1. Handles(q, j) /\ q # p /\ j # i
      BY <1>0, <2>2
    <3> QED BY <2>2, <2>3, <3>1 DEF HandledLive
  <2>7. OneHandler'
    BY <2>2 DEF OneHandler
  <2>8. Owned'
    BY <2>1, <2>2, <2>3, <2>4 DEF Owned
  <2>9. OneLive'
    BY <2>1, <2>2, <2>3 DEF OneLive, stopping
  <2>10. SetupOK'
    BY <2>1, <2>3, <1>0 DEF SetupOK
  <2>11. RecordOK' /\ NoOrphanRecord'
    BY <2>1 DEF RecordOK, NoOrphanRecord
  <2> QED BY <2>5, <2>6, <2>7, <2>8, <2>9, <2>10, <2>11
<1> QED BY <1>2, <1>3, <1>4

\* buildProxy: while the manager is up, the hostname lock says that no other
\* proxy of the hostname is left.
LEMMA OwnersBuild ==
  ASSUME IInv, IInv', Builders, Reaping, Owners, NEW p \in Procs, Build(p)
  PROVE  Owners'
<1> USE DEF Owners, Ownership, IInv, TypeOK, Goto
<1>0. /\ pc[p] = "build" /\ host[p] \in Hosts
      /\ UNCHANGED <<Proxies, setup, record, shut, old, host>>
  BY DEF Build, LocalOK, registry, domain
<1>1. CASE pc' = [pc EXCEPT ![p] = "newUnlock"] /\ UNCHANGED <<proxy, inst>>
  BY <1>0, <1>1, OwnersElsewhere DEF Handling, proxy
<1>2. ASSUME NEW i \in Insts, life[i] = "unused",
             life' = [life EXCEPT ![i] = "built"],
             hostname' = [hostname EXCEPT ![i] = host[p]],
             inst' = [inst EXCEPT ![p] = i], pc' = [pc EXCEPT ![p] = "register"]
      PROVE  Owners'
  <2>1. \A j \in Insts : /\ Live(j)' <=> Live(j) \/ j = i
                         /\ j # i => life'[j] = life[j] /\ hostname'[j] = hostname[j]
                         /\ hostname'[i] = host[p] /\ life'[i] = "built"
    BY <1>2 DEF Live
  <2>2. ~Live(i) /\ \A q \in Procs : ~Handles(q, i)
    BY <1>2 DEF Live, HandledLive, Handles
  <2>3. \A q \in Procs, j \in Insts :
          /\ TearingDown(q, j)' <=> TearingDown(q, j)
          /\ Registering(q, j)' <=> Registering(q, j) \/ (q = p /\ j = i)
          /\ Handles(q, j)' <=> Handles(q, j) \/ (q = p /\ j = i)
    BY <1>0, <1>2 DEF TearingDown, Registering, Handles
  <2>4. \A h \in Hosts : Proxies[h] # None => Proxies[h] \in Insts /\ Proxies[h] # i
    BY <1>2 DEF RegisteredLive, Live
  <2>5. RegisteredLive'
    <3> SUFFICES ASSUME NEW h \in Hosts, Proxies[h] # None PROVE Live(Proxies[h])'
      BY <1>0 DEF RegisteredLive, Live
    <3> QED BY <1>0, <1>2, <2>4 DEF RegisteredLive, Live
  <2>6. HandledLive'
    <3> SUFFICES ASSUME NEW q \in Procs, NEW j \in Insts, Handles(q, j)'
                 PROVE  /\ TearingDown(q, j)' => Live(j)' /\ hostname'[j] = host[q]
                        /\ Registering(q, j)' => life'[j] = "built"
                        /\ Proxies[hostname'[j]] # j
      BY <1>0 DEF HandledLive, Handles
    <3>1. CASE j = i
      <4>1. q = p
        BY <2>2, <2>3, <3>1
      <4>2. ~TearingDown(q, j)'
        BY <2>2, <2>3, <3>1 DEF Handles
      <4>3. Proxies[hostname'[j]] # j
        BY <1>0, <2>1, <2>4, <3>1, NoneFresh
      <4> QED BY <2>1, <3>1, <4>2, <4>3
    <3>2. CASE j # i
      BY <2>1, <2>3, <3>2 DEF HandledLive
    <3> QED BY <3>1, <3>2
  <2>7. OneHandler'
    <3> SUFFICES ASSUME NEW q \in Procs, NEW r \in Procs, NEW j \in Insts,
                        Handles(q, j)', Handles(r, j)'
                 PROVE  q = r
      BY DEF OneHandler
    <3>1. CASE j = i
      BY <2>2, <2>3, <3>1
    <3>2. CASE j # i
      BY <2>3, <3>2 DEF OneHandler
    <3> QED BY <3>1, <3>2
  <2>8. Owned'
    <3> SUFFICES ASSUME NEW j \in Insts, Live(j)'
                 PROVE  /\ hostname'[j] \in Hosts
                        /\ Proxies[hostname'[j]] = j \/ \E q \in Procs : Handles(q, j)'
      BY <1>0 DEF Owned
    <3>1. CASE j = i
      BY <1>0, <2>1, <2>3, <3>1
    <3>2. CASE j # i
      BY <2>1, <2>3, <3>2 DEF Owned
    <3> QED BY <3>1, <3>2
  <2>9. OneLive'
    <3>1. ASSUME NEW j \in Insts, j # i, Live(j), hostname[j] = host[p]
          PROVE  stopping
      <4>1. Proxies[host[p]] = None
        BY <1>0 DEF Cleared
      <4>2. hostLocks[host[p]] = p
        BY <1>0 DEF HostLocked, OwnsHost
      <4>3. PICK q \in Procs : Handles(q, j)
        BY <3>1, <4>1, NoneFresh DEF Owned
      <4>4. host[q] = host[p]
        BY <3>1, <4>3 DEF HandledLive, Handles, Registering, RegisterReady
      <4>5. ~OwnsHost(q)
        <5>1. q # p
          BY <1>0, <4>3 DEF Handles, TearingDown, Registering
        <5> QED BY <4>2, <4>4, <5>1 DEF HostLocked
      <4>6. pc[q] \in RemovalPCs /\ from[q] = "reap"
        BY <4>3, <4>5 DEF OwnsHost, Handles, TearingDown, Registering, RemovalPCs
      <4>7. q \in Hosts /\ pc[q] # "idle"
        BY <4>6 DEF LocalOK, RemovalPCs
      <4> QED BY <4>7 DEF Reaping, stopping
    <3>2. Registering(p, i)'
      BY <2>3
    <3> SUFFICES ASSUME NEW j \in Insts, NEW k \in Insts, j # k,
                        hostname'[j] = hostname'[k], Live(j)', Live(k)'
                 PROVE  stopping /\ \E q \in Procs : Registering(q, j)' \/ Registering(q, k)'
      BY <1>0 DEF OneLive, stopping
    <3>3. CASE j = i
      BY <2>1, <3>1, <3>2, <3>3
    <3>4. CASE k = i
      BY <2>1, <3>1, <3>2, <3>4
    <3>5. CASE j # i /\ k # i
      BY <2>1, <2>3, <3>5 DEF OneLive
    <3> QED BY <3>3, <3>4, <3>5
  <2>10. SetupOK'
    <3>1. setup[i] = "none"
      BY <1>2 DEF SetupOK
    <3>2. \A j \in Insts : setup[j] \in {"pending", "running", "written"} =>
            \/ Proxies[hostname'[j]] = j
            \/ \E q \in Procs : old[q] = j /\ pc'[q] = "drain"
      BY <1>0, <1>2, <2>1, <3>1 DEF SetupOK
    <3> QED BY <1>0, <1>2, <3>1, <3>2 DEF SetupOK
  <2>11. RecordOK' /\ NoOrphanRecord'
    <3>1. \A h \in Hosts : record[h] # None => record[h] # i
      BY <1>2 DEF RecordOK, SetupOK
    <3> QED BY <1>0, <1>2, <2>1, <3>1 DEF RecordOK, NoOrphanRecord
  <2> QED BY <2>5, <2>6, <2>7, <2>8, <2>9, <2>10, <2>11
<1> QED BY <1>1, <1>2 DEF Build

\* registerProxy closes the proxy again when the shutdown has begun.
LEMMA OwnersRefuse ==
  ASSUME IInv, IInv', Builders, Owners, NEW p \in Procs, Register(p), stopping
  PROVE  Owners'
<1> USE DEF Owners, Ownership, IInv, TypeOK, Goto
<1> DEFINE i == inst[p]
<1>1. /\ pc[p] = "register" /\ pc' = [pc EXCEPT ![p] = "newUnlock"] /\ i \in Insts
      /\ UNCHANGED <<Proxies, hostname, setup, record, shut, old, host>>
      /\ life' = [life EXCEPT ![i] = "closed"] /\ inst' = [inst EXCEPT ![p] = None]
  BY DEF Register, Refuse, RegisterReady, registry
<1>2. Registering(p, i) /\ Handles(p, i)
  BY <1>1 DEF Registering, Handles
<1> HIDE DEF i
<1>3. /\ \A q \in Procs : Handles(q, i) => q = p
      /\ \A j \in Insts : Handles(p, j) => j = i
      /\ \A h \in Hosts : Proxies[h] # i
  <2>1. \A j \in Insts : Handles(p, j) => j = i
    BY <1>1 DEF Handles, TearingDown, Registering, i
  <2>2. \A h \in Hosts : Proxies[h] # i
    BY <1>1, <1>2, NoneFresh DEF HandledLive, RegisteredOK
  <2> QED BY <1>1, <1>2, <2>1, <2>2 DEF OneHandler
<1>4. \A q \in Procs, j \in Insts :
        /\ TearingDown(q, j)' <=> TearingDown(q, j)
        /\ Registering(q, j)' <=> Registering(q, j) /\ q # p
        /\ Handles(q, j)' <=> Handles(q, j) /\ q # p
  BY <1>1 DEF TearingDown, Registering, Handles
<1>5. \A j \in Insts : /\ Live(j)' <=> Live(j) /\ j # i
                       /\ j # i => life'[j] = life[j]
  BY <1>1 DEF Live
<1>6. RegisteredLive'
  <2> SUFFICES ASSUME NEW h \in Hosts, Proxies[h] # None PROVE Live(Proxies[h])'
    BY <1>1 DEF RegisteredLive, Live
  <2>1. Proxies[h] \in Insts /\ Live(Proxies[h]) /\ Proxies[h] # i
    BY <1>3 DEF RegisteredLive
  <2> QED BY <1>1, <2>1 DEF Live
<1>7. HandledLive'
  <2> SUFFICES ASSUME NEW q \in Procs, NEW j \in Insts, Handles(q, j)'
               PROVE  /\ TearingDown(q, j)' => Live(j)' /\ hostname[j] = host[q]
                      /\ Registering(q, j)' => life'[j] = "built"
                      /\ Proxies[hostname[j]] # j
    BY <1>1 DEF HandledLive, Handles
  <2>1. Handles(q, j) /\ q # p /\ j # i
    BY <1>3, <1>4
  <2> QED BY <1>4, <1>5, <2>1 DEF HandledLive
<1>8. OneHandler'
  BY <1>4 DEF OneHandler
<1>9. Owned'
  BY <1>1, <1>3, <1>4, <1>5 DEF Owned
<1>10. OneLive'
  <2> SUFFICES ASSUME NEW j \in Insts, NEW k \in Insts, j # k,
                      hostname[j] = hostname[k], Live(j)', Live(k)'
               PROVE  stopping /\ \E q \in Procs : Registering(q, j)' \/ Registering(q, k)'
    BY <1>1 DEF OneLive, stopping
  <2>1. Live(j) /\ Live(k) /\ j # i /\ k # i
    BY <1>5
  <2>2. PICK q \in Procs : Registering(q, j) \/ Registering(q, k)
    BY <2>1 DEF OneLive
  <2>3. q # p
    BY <2>1, <2>2 DEF Registering, i
  <2> QED BY <1>4, <2>2, <2>3
<1>11. SetupOK'
  BY <1>1 DEF SetupOK
<1>12. RecordOK' /\ NoOrphanRecord'
  BY <1>1 DEF RecordOK, NoOrphanRecord
<1> QED BY <1>6, <1>7, <1>8, <1>9, <1>10, <1>11, <1>12

\* registerProxy hands the proxy over to the registry.
LEMMA OwnersInsert ==
  ASSUME IInv, IInv', Builders, Owners, NEW p \in Procs, Register(p), ~stopping
  PROVE  Owners'
<1> USE DEF Owners, Ownership, IInv, TypeOK, Goto
<1> DEFINE i == inst[p]  h == host[p]
<1>1. /\ pc[p] = "register" /\ pc' = [pc EXCEPT ![p] = "configure"] /\ i \in Insts
      /\ UNCHANGED <<life, hostname, record, shut, inst, old, host>>
      /\ h \in Hosts /\ hostname[i] = h /\ Proxies[h] = None
      /\ Proxies' = [Proxies EXCEPT ![h] = i]
      /\ setup[i] = "none"
      /\ setup' = [setup EXCEPT ![i] = IF h \in WithDomain THEN "pending" ELSE @]
  BY DEF Register, Insert, RegisterReady, LocalOK, Cleared, SetupOK
<1>2. Registering(p, i) /\ Handles(p, i)
  BY <1>1 DEF Registering, Handles
<1>0. Builds(p)
  BY <1>1, NoneFresh DEF Builds
<1> HIDE DEF i, h
<1>3. /\ \A q \in Procs : Handles(q, i) => q = p
      /\ \A j \in Insts : Handles(p, j) => j = i
      /\ Live(i)
  <2>1. \A j \in Insts : Handles(p, j) => j = i
    BY <1>1 DEF Handles, TearingDown, Registering, i
  <2> QED BY <1>1, <1>2, <2>1 DEF OneHandler, HandledLive, Live
<1>4. \A q \in Procs, j \in Insts :
        /\ TearingDown(q, j)' <=> TearingDown(q, j)
        /\ Registering(q, j)' <=> Registering(q, j) /\ q # p
        /\ Handles(q, j)' <=> Handles(q, j) /\ q # p
  BY <1>1 DEF TearingDown, Registering, Handles
<1>5. \A j \in Insts : Live(j)' <=> Live(j)
  BY <1>1 DEF Live
<1>6. \A g \in Hosts : Proxies'[g] = IF g = h THEN i ELSE Proxies[g]
  BY <1>1
<1>7. RegisteredLive'
  <2> SUFFICES ASSUME NEW g \in Hosts, Proxies'[g] # None PROVE Live(Proxies'[g])
    BY <1>1 DEF RegisteredLive, Live
  <2> QED BY <1>3, <1>6 DEF RegisteredLive
<1>8. HandledLive'
  <2> SUFFICES ASSUME NEW q \in Procs, NEW j \in Insts, Handles(q, j)'
               PROVE  /\ TearingDown(q, j)' => Live(j)' /\ hostname[j] = host[q]
                      /\ Registering(q, j)' => life[j] = "built"
                      /\ Proxies'[hostname[j]] # j
    BY <1>1 DEF HandledLive, Handles
  <2>1. Handles(q, j) /\ q # p /\ j # i
    BY <1>3, <1>4
  <2>2. hostname[j] \in Hosts /\ Proxies[hostname[j]] # j
    BY <2>1 DEF HandledLive, Owned, Handles, Live
  <2> QED BY <1>4, <1>5, <1>6, <2>1, <2>2 DEF HandledLive
<1>9. OneHandler'
  BY <1>4 DEF OneHandler
<1>10. Owned'
  <2> SUFFICES ASSUME NEW j \in Insts, Live(j)
               PROVE  /\ hostname[j] \in Hosts
                      /\ Proxies'[hostname[j]] = j \/ \E q \in Procs : Handles(q, j)'
    BY <1>1, <1>5 DEF Owned
  <2>1. CASE j = i
    BY <1>1, <1>6, <2>1
  <2>2. CASE j # i
    <3>1. hostname[j] \in Hosts
      BY DEF Owned
    <3>2. CASE Proxies[hostname[j]] = j
      BY <1>1, <1>6, <3>1, <3>2, NoneFresh
    <3>3. CASE \E q \in Procs : Handles(q, j)
      BY <1>3, <1>4, <2>2, <3>1, <3>3
    <3> QED BY <3>2, <3>3 DEF Owned
  <2> QED BY <2>1, <2>2
<1>11. OneLive'
  BY <1>1, <1>4, <1>5 DEF OneLive, stopping
<1>12. SetupOK'
  <2>1. \A j \in Insts : /\ j # i => setup'[j] = setup[j]
                         /\ setup'[i] = IF h \in WithDomain THEN "pending" ELSE "none"
    BY <1>1
  <2>2. \A j \in Insts : setup'[j] \in {"pending", "running", "written"} =>
          Proxies'[hostname[j]] = j \/ \E q \in Procs : old[q] = j /\ pc'[q] = "drain"
    <3> SUFFICES ASSUME NEW j \in Insts, setup'[j] \in {"pending", "running", "written"}
                 PROVE  Proxies'[hostname[j]] = j \/ \E q \in Procs : old[q] = j /\ pc'[q] = "drain"
      OBVIOUS
    <3>1. CASE j = i
      BY <1>1, <1>6, <3>1
    <3>2. CASE j # i /\ Proxies[hostname[j]] = j
      BY <1>1, <3>2, NoneFresh
    <3>3. CASE \E q \in Procs : old[q] = j /\ pc[q] = "drain"
      BY <1>1, <3>3
    <3> QED BY <2>1, <3>1, <3>2, <3>3 DEF SetupOK
  <2>3. \A j \in Insts : life[j] = "unused" => setup'[j] = "none"
    BY <1>3, <2>1 DEF SetupOK, Live
  <2>4. ASSUME NEW q \in Procs
        PROVE  /\ pc'[q] = "register" => setup'[inst[q]] = "none"
               /\ pc'[q] = "configure" =>
                    setup'[inst[q]] = IF host[q] \in WithDomain THEN "pending" ELSE "none"
               /\ pc'[q] = "cleanup" => setup'[old[q]] \in {"none", "skipped", "done"}
    <3>1. CASE q = p
      BY <1>1, <2>1, <3>1 DEF i, h
    <3>2. CASE q # p /\ pc[q] = "register"
      <4>1. inst[q] \in Insts /\ Registering(q, inst[q])
        BY <3>2 DEF RegisterReady, Registering
      <4>2. inst[q] # i
        BY <1>3, <3>2, <4>1 DEF Handles
      <4> QED BY <1>1, <2>1, <3>2, <4>1, <4>2 DEF SetupOK
    <3>3. CASE q # p /\ pc[q] = "configure"
      <4>1. inst[q] \in Insts /\ Builds(q)
        BY <3>3 DEF Builders, Builds
      <4>2. inst[q] # i
        BY <1>0, <3>3, <4>1 DEF Builders, i
      <4> QED BY <1>1, <2>1, <3>3, <4>1, <4>2 DEF SetupOK
    <3>4. CASE q # p /\ pc[q] = "cleanup"
      <4>1. old[q] \in Insts /\ TearingDown(q, old[q])
        BY <3>4 DEF Builders, TearingDown
      <4>2. old[q] # i
        BY <1>3, <3>4, <4>1 DEF Handles
      <4> QED BY <1>1, <2>1, <3>4, <4>1, <4>2 DEF SetupOK
    <3> QED BY <1>1, <3>1, <3>2, <3>3, <3>4
  <2> QED BY <1>1, <2>2, <2>3, <2>4 DEF SetupOK
<1>13. RecordOK' /\ NoOrphanRecord'
  <2>1. \A g \in Hosts : record[g] # None => record[g] \in Insts /\ record[g] # i
    BY <1>1 DEF RecordOK
  <2>2. RecordOK'
    BY <1>1, <2>1 DEF RecordOK
  <2>3. NoOrphanRecord'
    BY <1>1, <1>6 DEF NoOrphanRecord
  <2> QED BY <2>2, <2>3
<1> QED BY <1>7, <1>8, <1>9, <1>10, <1>11, <1>12, <1>13

\* configureProxyDomain: the set-up of a registered proxy, or of one whose
\* teardown waits for it.
LEMMA OwnersConfigure ==
  ASSUME IInv, IInv', Builders, Owners, NEW p \in Procs, Configure(p)
  PROVE  Owners'
<1> USE DEF Owners, Ownership, IInv, TypeOK, Goto
<1> DEFINE i == inst[p]
<1>1. /\ pc[p] = "configure" /\ i \in Insts
      /\ pc' = [pc EXCEPT ![p] = pc'[p]] /\ pc'[p] \in {"count", "newUnlock"}
      /\ UNCHANGED <<Proxies, life, hostname, record, shut, inst, old, host>>
      /\ \/ UNCHANGED setup
         \/ /\ setup[i] = "pending"
            /\ \E s \in {"skipped", "running"} : setup' = [setup EXCEPT ![i] = s]
  BY DEF Configure, Builders, SetupOK, registry, proxy, task
<1>2. Builds(p)
  BY <1>1 DEF Builds, Builders
<1> HIDE DEF i
<1>3. \A q \in Procs, j \in Insts :
        /\ TearingDown(q, j)' <=> TearingDown(q, j)
        /\ Registering(q, j)' <=> Registering(q, j)
        /\ Handles(q, j)' <=> Handles(q, j)
  BY <1>1 DEF TearingDown, Registering, Handles
<1>4. \A j \in Insts : Live(j)' <=> Live(j)
  BY <1>1 DEF Live
<1>5. RegisteredLive' /\ HandledLive'
  <2>1. RegisteredLive'
    BY <1>1 DEF RegisteredLive, Live
  <2>2. HandledLive'
    BY <1>1, <1>3, <1>4 DEF HandledLive
  <2> QED BY <2>1, <2>2
<1>6. OneHandler'
  BY <1>3 DEF OneHandler
<1>7. Owned'
  BY <1>1, <1>3, <1>4 DEF Owned
<1>8. OneLive'
  BY <1>1, <1>3, <1>4 DEF OneLive, stopping
<1>9. SetupOK'
  <2>1. CASE UNCHANGED setup
    BY <1>1, <2>1 DEF SetupOK
  <2>2. ASSUME setup[i] = "pending", NEW s \in {"skipped", "running"},
               setup' = [setup EXCEPT ![i] = s]
        PROVE  SetupOK'
    <3>1. \A j \in Insts : j # i => setup'[j] = setup[j]
      BY <2>2
    <3>2. \A j \in Insts : setup'[j] \in {"pending", "running", "written"} =>
            setup[j] \in {"pending", "running", "written"}
      BY <2>2, <3>1
    <3>3. \A j \in Insts : setup'[j] \in {"pending", "running", "written"} =>
            Proxies[hostname[j]] = j \/ \E q \in Procs : old[q] = j /\ pc'[q] = "drain"
      BY <1>1, <3>2 DEF SetupOK
    <3>4. \A j \in Insts : life[j] = "unused" => setup'[j] = "none"
      BY <2>2, <3>1 DEF SetupOK
    <3>5. ASSUME NEW q \in Procs, q # p
          PROVE  /\ pc'[q] = "register" => setup'[inst[q]] = "none"
                 /\ pc'[q] = "configure" =>
                      setup'[inst[q]] = IF host[q] \in WithDomain THEN "pending" ELSE "none"
                 /\ pc'[q] = "cleanup" => setup'[old[q]] \in {"none", "skipped", "done"}
      <4>1. CASE pc[q] = "register"
        BY <1>1, <2>2, <3>1, <3>5, <4>1 DEF SetupOK, RegisterReady
      <4>2. CASE pc[q] = "configure"
        <5>1. inst[q] \in Insts /\ Builds(q)
          BY <4>2 DEF Builders, Builds
        <5>2. inst[q] # i
          BY <1>2, <3>5, <5>1 DEF Builders, i
        <5> QED BY <1>1, <3>1, <3>5, <4>2, <5>1, <5>2 DEF SetupOK
      <4>3. CASE pc[q] = "cleanup"
        <5>1. old[q] \in Insts
          BY <4>3 DEF Builders
        <5> QED BY <1>1, <2>2, <3>1, <3>5, <4>3, <5>1 DEF SetupOK
      <4> QED BY <1>1, <3>5, <4>1, <4>2, <4>3
    <3> QED BY <1>1, <3>3, <3>4, <3>5 DEF SetupOK
  <2> QED BY <1>1, <2>1, <2>2
<1>10. RecordOK' /\ NoOrphanRecord'
  <2>1. RecordOK'
    BY <1>1 DEF RecordOK
  <2>2. NoOrphanRecord'
    BY <1>1 DEF NoOrphanRecord
  <2> QED BY <2>1, <2>2
<1> QED BY <1>5, <1>6, <1>7, <1>8, <1>9, <1>10

\* Start, by the goroutine that built the proxy: nobody registers it any more,
\* and a proxy that was closed meanwhile does not come back as a live one.
LEMMA OwnersStart ==
  ASSUME IInv, IInv', Builders, Owners, NEW p \in Procs,
         StartProvider(p) \/ ProviderStarted(p)
  PROVE  Owners'
<1> USE DEF Owners, Ownership, IInv, TypeOK, Goto
<1> DEFINE i == inst[p]
<1>1. /\ pc[p] \in {"start", "starting"} /\ i \in Insts /\ i # None
      /\ pc' = [pc EXCEPT ![p] = pc'[p]] /\ pc'[p] \in {"starting", "listen", "failLock"}
      /\ UNCHANGED <<Proxies, hostname, setup, record, shut, inst, old, host>>
      /\ life' = [life EXCEPT ![i] = life'[i]]
      /\ life'[i] # "unused"
      /\ life[i] \in {"built", "starting", "started"}
           <=> life'[i] \in {"built", "starting", "started"}
  <2>1. CASE StartProvider(p)
    <3>1. i \in Insts /\ i # None /\ life[i] \in {"built", "closed"}
      BY <2>1, NoneFresh DEF StartProvider, Builders
    <3> QED BY <2>1, <3>1 DEF StartProvider, registry, domain, task
  <2>2. CASE ProviderStarted(p)
    <3>1. i \in Insts /\ i # None /\ life[i] \in {"starting", "reopening"}
      BY <2>2, NoneFresh DEF ProviderStarted, Builders
    <3> QED BY <2>2, <3>1 DEF ProviderStarted, registry, domain, task
  <2> QED BY <2>1, <2>2
<1>2. Builds(p)
  BY <1>1 DEF Builds
<1> HIDE DEF i
<1>3. \A q \in Procs, j \in Insts :
        /\ TearingDown(q, j)' <=> TearingDown(q, j)
        /\ Registering(q, j)' <=> Registering(q, j)
        /\ Handles(q, j)' <=> Handles(q, j)
  BY <1>1 DEF TearingDown, Registering, Handles
<1>4. \A j \in Insts : /\ Live(j)' <=> Live(j)
                       /\ j # i => life'[j] = life[j]
  BY <1>1 DEF Live
<1>5. \A q \in Procs : ~Registering(q, i)
  <2> SUFFICES ASSUME NEW q \in Procs, Registering(q, i) PROVE FALSE
    OBVIOUS
  <2>1. Builds(q) /\ inst[q] = i
    BY <1>1 DEF Registering, Builds
  <2>2. q = p
    BY <1>2, <2>1 DEF Builders, i
  <2> QED BY <1>1, <2>2 DEF Registering
<1>6. RegisteredLive' /\ HandledLive'
  <2>1. RegisteredLive'
    <3> SUFFICES ASSUME NEW h \in Hosts, Proxies[h] # None
                 PROVE  life'[Proxies[h]] \in {"built", "starting", "started"}
      BY <1>1 DEF RegisteredLive, Live
    <3>1. Proxies[h] \in Insts /\ Live(Proxies[h])
      BY DEF RegisteredLive
    <3> QED BY <1>1, <1>4, <3>1 DEF Live
  <2>2. HandledLive'
    BY <1>1, <1>3, <1>4, <1>5 DEF HandledLive
  <2> QED BY <2>1, <2>2
<1>7. OneHandler'
  BY <1>3 DEF OneHandler
<1>8. Owned'
  BY <1>1, <1>3, <1>4 DEF Owned
<1>9. OneLive'
  BY <1>1, <1>3, <1>4 DEF OneLive, stopping
<1>10. SetupOK'
  BY <1>1 DEF SetupOK
<1>11. RecordOK' /\ NoOrphanRecord'
  BY <1>1 DEF RecordOK, NoOrphanRecord
<1> QED BY <1>6, <1>7, <1>8, <1>9, <1>10, <1>11

\* The set-up goroutine writes and rolls back the record of its own proxy.
LEMMA OwnersSetup ==
  ASSUME IInv, IInv', Builders, Owners, NEW i \in Insts, SetupDNS(i) \/ SetupEnds(i)
  PROVE  Owners'
<1> USE DEF Owners, Ownership, IInv, TypeOK
<1>1. /\ UNCHANGED <<Proxies, life, hostname, shut, pc, inst, old, host>>
      /\ setup[i] \in {"running", "written"} /\ setup' = [setup EXCEPT ![i] = setup'[i]]
      /\ setup'[i] \in {"written", "done"}
  BY DEF SetupDNS, SetupEnds, registry, proxy, task
<1>2. /\ setup[i] = "written" => setup'[i] = "done"
      /\ \A h \in Hosts : \/ record'[h] \in {record[h], None}
                          \/ record'[h] = i /\ h = hostname[i] /\ setup'[i] = "written"
  BY DEF SetupDNS, SetupEnds
<1>3. Ownership'
  <2>1. \A q \in Procs, j \in Insts :
          /\ TearingDown(q, j)' <=> TearingDown(q, j)
          /\ Registering(q, j)' <=> Registering(q, j)
          /\ Handles(q, j)' <=> Handles(q, j)
    BY <1>1 DEF TearingDown, Registering, Handles
  <2>2. \A j \in Insts : Live(j)' <=> Live(j)
    BY <1>1 DEF Live
  <2>3. RegisteredLive'
    BY <1>1 DEF RegisteredLive, Live
  <2>4. HandledLive'
    BY <1>1, <2>1, <2>2 DEF HandledLive
  <2>5. OneHandler'
    BY <2>1 DEF OneHandler
  <2>6. Owned'
    BY <1>1, <2>1, <2>2 DEF Owned
  <2>7. OneLive'
    BY <1>1, <2>1, <2>2 DEF OneLive, stopping
  <2> QED BY <2>3, <2>4, <2>5, <2>6, <2>7
<1>4. \A j \in Insts : j # i => setup'[j] = setup[j]
  BY <1>1
<1>5. SetupOK'
  <2>1. \A j \in Insts : setup'[j] \in {"pending", "running", "written"} =>
          Proxies[hostname[j]] = j \/ \E q \in Procs : old[q] = j /\ pc[q] = "drain"
    BY <1>1, <1>4 DEF SetupOK
  <2>2. \A j \in Insts : life[j] = "unused" => setup'[j] = "none"
    BY <1>1, <1>4 DEF SetupOK
  <2>3. ASSUME NEW q \in Procs
        PROVE  /\ pc[q] = "register" => setup'[inst[q]] = "none"
               /\ pc[q] = "configure" =>
                    setup'[inst[q]] = IF host[q] \in WithDomain THEN "pending" ELSE "none"
               /\ pc[q] = "cleanup" => setup'[old[q]] \in {"none", "skipped", "done"}
    <3>1. CASE pc[q] = "register"
      BY <1>1, <1>4, <3>1 DEF SetupOK, RegisterReady
    <3>2. CASE pc[q] = "configure"
      <4>1. inst[q] \in Insts
        BY <3>2 DEF Builders
      <4> QED BY <1>1, <1>4, <3>2, <4>1 DEF SetupOK
    <3>3. CASE pc[q] = "cleanup"
      <4>1. old[q] \in Insts
        BY <3>3 DEF Builders
      <4> QED BY <1>1, <1>4, <3>3, <4>1 DEF SetupOK
    <3> QED BY <3>1, <3>2, <3>3
  <2> QED BY <1>1, <2>1, <2>2, <2>3 DEF SetupOK
<1>6. RecordOK' /\ NoOrphanRecord'
  <2>1. \A h \in Hosts : record[h] = i => setup'[i] = "done"
    BY <1>1, <1>2, NoneFresh DEF RecordOK
  <2>2. RecordOK'
    BY <1>1, <1>2, <1>4, <2>1 DEF RecordOK
  <2>3. Proxies[hostname[i]] = i \/ \E q \in Procs : old[q] = i /\ pc[q] = "drain"
    BY <1>1 DEF SetupOK
  <2>4. NoOrphanRecord'
    BY <1>1, <1>2, <2>3 DEF NoOrphanRecord
  <2> QED BY <2>2, <2>4
<1> QED BY <1>3, <1>5, <1>6

\* StopAllProxies itself touches no proxy; its goroutines start at rest.
LEMMA OwnersShutdown ==
  ASSUME IInv, Reaping, Owners, Shutdown
  PROVE  Owners'
<1> USE DEF Owners, Ownership, IInv, TypeOK
<1>1. /\ UNCHANGED <<Proxies, life, hostname, setup, record, inst, old>>
      /\ stopping'
      /\ \A q \in Procs : \/ pc'[q] = pc[q] /\ host'[q] = host[q]
                          \/ pc[q] = "idle" /\ pc'[q] = "remove"
  <2>1. CASE StopAllProxies \/ WatchersGone \/ AllStopped
    BY <2>1 DEF StopAllProxies, WatchersGone, AllStopped, stopping, registry, proxy,
                domain, task
  <2>2. CASE ReapAll
    <3>1. \A h \in Hosts : pc[h] = "idle"
      BY <2>2 DEF ReapAll, Reaping
    <3> QED BY <2>2, <3>1 DEF ReapAll, ReapSnapshot, stopping, registry, proxy, domain
  <2> QED BY <2>1, <2>2 DEF Shutdown
<1>2. \A q \in Procs, j \in Insts :
        /\ TearingDown(q, j)' <=> TearingDown(q, j)
        /\ Registering(q, j)' <=> Registering(q, j)
        /\ Handles(q, j)' <=> Handles(q, j)
  BY <1>1 DEF TearingDown, Registering, Handles
<1>3. \A j \in Insts : Live(j)' <=> Live(j)
  BY <1>1 DEF Live
<1>4. RegisteredLive' /\ HandledLive'
  <2>1. RegisteredLive'
    BY <1>1 DEF RegisteredLive, Live
  <2>2. HandledLive'
    BY <1>1, <1>2, <1>3 DEF HandledLive, TearingDown
  <2> QED BY <2>1, <2>2
<1>5. OneHandler'
  BY <1>2 DEF OneHandler
<1>6. Owned'
  BY <1>1, <1>2, <1>3 DEF Owned
<1>7. OneLive'
  BY <1>1, <1>2, <1>3 DEF OneLive
<1>8. SetupOK'
  <2>1. \A j \in Insts : (\E q \in Procs : old[q] = j /\ pc[q] = "drain")
          => \E q \in Procs : old[q] = j /\ pc'[q] = "drain"
    BY <1>1
  <2>2. \A q \in Procs : pc'[q] \in {"register", "configure", "cleanup"}
          => pc'[q] = pc[q] /\ host'[q] = host[q]
    BY <1>1
  <2> QED BY <1>1, <2>1, <2>2 DEF SetupOK
<1>9. RecordOK' /\ NoOrphanRecord'
  BY <1>1 DEF RecordOK, NoOrphanRecord
<1> QED BY <1>4, <1>5, <1>6, <1>7, <1>8, <1>9

\* Every step keeps who owns which record and which node.
LEMMA NextOwners ==
  IInv /\ IInv' /\ Builders /\ Reaping /\ Owners /\ [Next]_vars => Owners'
<1>1. SUFFICES ASSUME IInv, IInv', Builders, Reaping, Owners, [Next]_vars PROVE Owners'
  OBVIOUS
<1>2. CASE UNCHANGED vars
  <2> USE DEF vars, registry, proxy, domain, task
  <2>1. Ownership'
    BY <1>1, <1>2 DEF Owners, Ownership, RegisteredLive, HandledLive, OneHandler, Owned,
       OneLive, Live, Handles, TearingDown, Registering, stopping
  <2>2. SetupOK' /\ RecordOK' /\ NoOrphanRecord'
    BY <1>1, <1>2 DEF Owners, SetupOK, RecordOK, NoOrphanRecord
  <2> QED BY <2>1, <2>2 DEF Owners
<1>3. ASSUME NEW p \in Workers, Enter(p) PROVE Owners'
  BY <1>1, <1>3, OwnersEnter DEF Enter, Procs
<1>4. ASSUME NEW p \in Procs, Step(p) PROVE Owners'
  BY <1>1, <1>4, OwnersEnter, OwnersReturn, OwnersRemove, OwnersTeardown, OwnersBuild,
     OwnersRefuse, OwnersInsert, OwnersConfigure, OwnersStart DEF Step
<1>5. ASSUME NEW i \in Insts, SetupDNS(i) \/ SetupEnds(i) PROVE Owners'
  BY <1>1, <1>5, OwnersSetup
<1>6. CASE Shutdown
  BY <1>1, <1>6, OwnersShutdown
<1> QED BY <1>1, <1>2, <1>3, <1>4, <1>5, <1>6 DEF Next

\* The invariant of the teardown holds at first.
LEMMA InitDInv == Init => DInv
<1>1. SUFFICES ASSUME Init PROVE DInv
  OBVIOUS
<1> USE <1>1 DEF Init
<1>2. Builders
  BY DEF Builders, Builds, RemovalPCs
<1>3. Reaping
  BY DEF Reaping, Procs, Workers
<1>4. Ownership
  BY DEF Ownership, RegisteredLive, HandledLive, OneHandler, Owned, OneLive, Live, Handles,
     TearingDown, Registering
<1>5. SetupOK /\ RecordOK /\ NoOrphanRecord
  BY DEF SetupOK, RecordOK, NoOrphanRecord
<1> QED BY <1>2, <1>3, <1>4, <1>5 DEF DInv

\* The invariant of the teardown.
LEMMA DInvariance == Spec => [](IInv /\ DInv)
<1>1. DInv <=> Builders /\ Reaping /\ Owners
  BY DEF DInv, Owners
<1>2. DInv => HandledLive
  BY DEF DInv, Ownership
<1>3. IInv /\ IInv' /\ DInv /\ [Next]_vars => DInv'
  <2>1. SUFFICES ASSUME IInv, IInv', DInv, [Next]_vars PROVE DInv'
    OBVIOUS
  <2>2. Builders /\ Reaping /\ Owners /\ HandledLive
    BY <1>1, <1>2, <2>1
  <2>3. Builders' /\ Reaping' /\ Owners'
    BY <2>1, <2>2, NextBuilders, NextReaping, NextOwners
  <2> QED BY <2>3 DEF DInv, Owners
<1> QED BY <1>3, InitDInv, Invariance, PTL DEF Spec

-----------------------------------------------------------------------------
\* Of two nodes of one hostname that are up one was started after its Close, and
\* is not registered, for any number of goroutines, also while StopAllProxies
\* removes proxies without the hostname locks: newProxy starts nothing before the
\* old proxy is closed.
THEOREM OneNode == Spec => []OneNodePerHost
<1>1. IInv /\ DInv => OneNodePerHost
  <2> SUFFICES ASSUME IInv, DInv PROVE OneNodePerHost
    OBVIOUS
  <2> USE DEF DInv, Ownership, Up, Late, Live
  <2>1. ASSUME NEW i \in Insts, NEW j \in Insts, i # j, hostname[i] = hostname[j],
               Up(i), Up(j), ~Late(i), ~Late(j)
        PROVE  FALSE
    BY <2>1 DEF OneLive, HandledLive
  <2>2. \A h \in Hosts : Proxies[h] # None => ~Late(Proxies[h])
    BY DEF RegisteredLive
  <2> QED BY <2>1, <2>2 DEF OneNodePerHost
<1> QED BY <1>1, DInvariance, PTL

\* teardownProxy deletes the record of its own proxy, or one that an earlier
\* clean-up has left: while it is at work, no replacement can have published a
\* record for the hostname.
THEOREM OwnRecord == Spec => []CleansOwnRecord
<1>1. IInv /\ DInv => CleansOwnRecord
  <2> SUFFICES ASSUME IInv, DInv, NEW p \in Procs, pc[p] = "cleanup",
                      record[hostname[old[p]]] # None,
                      setup[record[hostname[old[p]]]] # "kept"
               PROVE  record[hostname[old[p]]] = old[p]
    BY DEF CleansOwnRecord
  <2> USE DEF IInv, TypeOK, DInv, Ownership
  <2> DEFINE o == old[p]  h == hostname[o]  r == record[h]
  <2>1. o \in Insts /\ TearingDown(p, o) /\ Live(o)
    BY DEF Builders, TearingDown, HandledLive
  <2>2. h \in Hosts /\ r \in Insts
    BY <2>1 DEF Owned
  <2>3. setup[r] \in {"written", "done"} /\ hostname[r] = h
    BY <2>2 DEF RecordOK
  <2>4. Live(r)
    <3>1. CASE Proxies[h] = r
      BY <2>2, <3>1 DEF RegisteredLive
    <3>2. CASE \E q \in Procs : old[q] = r /\ pc[q] \in {"drain", "cleanup"}
      BY <2>2, <3>2 DEF HandledLive, TearingDown
    <3> QED BY <2>2, <3>1, <3>2 DEF NoOrphanRecord
  <2> HIDE DEF o, h, r
  <2>5. ASSUME r # o PROVE FALSE
    <3>1. PICK q \in Procs : Registering(q, r) \/ Registering(q, o)
      BY <2>1, <2>2, <2>3, <2>4, <2>5 DEF OneLive, h
    <3>2. CASE Registering(q, r)
      BY <2>3, <3>2 DEF Registering, SetupOK
    <3>3. CASE Registering(q, o)
      <4>1. q = p
        BY <2>1, <3>3 DEF OneHandler, Handles
      <4> QED BY <3>3, <4>1 DEF Registering
    <3> QED BY <3>1, <3>2, <3>3
  <2> QED BY <2>5 DEF o, h, r
<1> QED BY <1>1, DInvariance, PTL

\* No path of errors, replacement or shutdown loses a proxy, tears one down
\* twice or leaves a DNS record behind; and when StopAllProxies has returned,
\* the maps are empty and what is not closed is in the hands of a dashboard
\* request.
THEOREM NoneLeftBehind == Spec => []NothingLeftBehind
<1>1. IInv /\ DInv => NothingLost
  <2> SUFFICES ASSUME IInv, DInv, NEW i \in Insts, Live(i)
               PROVE  Cardinality({p \in Procs : TearingDown(p, i) \/ Registering(p, i)})
                        = IF Proxies[hostname[i]] = i THEN 0 ELSE 1
    BY DEF NothingLost, Live
  <2> USE DEF DInv, Ownership, Handles
  <2>1. CASE Proxies[hostname[i]] = i
    <3>1. {p \in Procs : TearingDown(p, i) \/ Registering(p, i)} = {}
      BY <2>1 DEF HandledLive
    <3> QED BY <2>1, <3>1, FS_EmptySet
  <2>2. CASE Proxies[hostname[i]] # i
    <3>1. PICK q \in Procs : Handles(q, i)
      BY <2>2 DEF Owned
    <3>2. {p \in Procs : TearingDown(p, i) \/ Registering(p, i)} = {q}
      BY <3>1 DEF OneHandler
    <3> QED BY <2>2, <3>2, FS_Singleton
  <2> QED BY <2>1, <2>2
<1>2. IInv /\ DInv => ShutdownComplete
  <2> SUFFICES ASSUME IInv, DInv, shut = "done"
               PROVE  /\ \A h \in Hosts : Proxies[h] = None
                      /\ \A t \in Targets : targetIndex[t] = None
                      /\ \A i \in Insts : life[i] \in {"built", "starting", "started"} =>
                           \E c \in Clients : TearingDown(c, i) \/ inst[c] = i
    BY DEF ShutdownComplete
  <2> USE DEF DInv
  <2>1. \A h \in Hosts : Proxies[h] = None
    BY DEF Reaping
  <2>2. \A t \in Targets : targetIndex[t] = None
    BY <2>1 DEF IInv, TypeOK, IndexSound
  <2>3. ASSUME NEW i \in Insts, life[i] \in {"built", "starting", "started"}
        PROVE  \E c \in Clients : TearingDown(c, i) \/ inst[c] = i
    <3>1. PICK q \in Procs : Handles(q, i)
      BY <2>1, <2>3, NoneFresh DEF Ownership, Owned, Live
    <3>2. pc[q] # "idle"
      BY <3>1 DEF Handles, TearingDown, Registering
    <3>3. q \in Clients
      BY <3>2 DEF Procs, Workers, Reaping
    <3> QED BY <3>1, <3>3 DEF Handles, Registering
  <2> QED BY <2>1, <2>2, <2>3
<1>3. IInv /\ DInv => NothingLeftBehind
  BY <1>1, <1>2 DEF NothingLeftBehind, DInv
<1> QED BY <1>3, DInvariance, PTL
=============================================================================
