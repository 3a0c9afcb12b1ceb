--------------------------- MODULE LifecycleProofs ---------------------------
(***************************************************************************)
(* Proofs about one proxy from Start to Close (ProxyLifecycle): a paused   *)
(* and a closed proxy are quiet, and a Resume is never half done, for      *)
(* every set of ports, every configuration of them and any number of       *)
(* pauses.                                                                 *)
(*                                                                         *)
(* The invariant goes along the two orders that the code relies on: opMu   *)
(* keeps Start's first phase, Pause, Resume and Close apart, and what runs *)
(* without opMu (startListeners, the goroutines of the ports, the health   *)
(* check, the reader of events) finds handlers that are no longer live.    *)
(***************************************************************************)
EXTENDS ProxyLifecycle, SequenceTheorems, TLAPS

\* Who is where, and who holds opMu.
LPlaces ==
  /\ pc["start"] \in {"idle", "lifecycle", "expose", "listen", "returned", "failed"}
  /\ pc["admin"] \in {"idle", "health", "wait", "ports", "shut", "init", "listen"}
  /\ pc["close"] \in {"idle", "lock", "health", "wait", "ports", "shut", "drain", "returned"}
  /\ opMu = "start" <=> pc["start"] \in {"lifecycle", "expose"}
  /\ opMu = "admin" <=> pc["admin"] # "idle"
  /\ opMu = "close" <=> pc["close"] \notin {"idle", "lock", "returned"}
  /\ pc["close"] \notin {"idle", "lock"} =>
       pc["start"] \notin {"lifecycle", "expose"} /\ pc["admin"] = "idle"

\* Before the provider is up there is nothing to pause, to check or to serve.
LBefore ==
  /\ pc["start"] \in {"idle", "lifecycle", "expose"} => reader = "none"
  /\ pc["start"] \in {"listen", "returned"} => reader # "none"
  /\ reader = "none" =>
       /\ ~started /\ ~paused /\ pc["admin"] = "idle" /\ status \notin {"Running", "Paused"}
       /\ gen = 1 /\ \A g \in Gens : checker[g] = "none"
       /\ \A p \in Ports, g \in Gens : jobs[<<p, g>>] = 0 /\ serving[<<p, g>>] = 0
  /\ reader # "none" => started \/ pc["close"] \in {"drain", "returned"}

\* The pause flag and the status.
LFlags ==
  /\ pc["admin"] \in {"health", "wait", "ports", "shut"} => paused
  /\ pc["admin"] \in {"init", "listen"} => ~paused
  /\ pc["admin"] = "init" => gen < MaxGen
  /\ paused \/ pc["admin"] # "idle" => started
  /\ status = "Paused" => paused \/ pc["admin"] \in {"init", "listen"}
  /\ pc["close"] \notin {"idle", "lock"} => ~paused
  /\ pc["close"] \in {"drain", "returned"} => ~started
  /\ pc["close"] = "returned" => status # "Running" /\ reader # "reading"

\* A resume or a pause has left the checker: none is alive.
NoChecker ==
  \/ paused /\ pc["admin"] = "idle"
  \/ pc["admin"] \in {"ports", "shut", "init", "listen"}
  \/ pc["close"] \in {"ports", "shut", "drain", "returned"}

\* The health checkers and their metric.
LChecks ==
  /\ \A g \in Gens : Alive(g) => g = health
  /\ NoChecker => \A g \in Gens : ~Alive(g)
  /\ (paused /\ pc["admin"] = "idle") \/ pc["admin"] \in {"init", "listen"} => up = "unknown"
  /\ gen > 1 /\ ~paused /\ pc["admin"] = "idle" /\ pc["close"] \in {"idle", "lock"} =>
       checker[gen] = "running"

\* The handlers that are live are those of the last initPorts, while the proxy
\* is not paused; others can only belong to ports that never get a listener.
LHandlers ==
  /\ ports = 0 \/ ports = gen
  /\ pc["admin"] \in {"health", "wait", "ports"} => ports # 0
  /\ ports = 0 => paused \/ pc["admin"] = "init" \/ pc["close"] \notin {"idle", "lock"}
  /\ \A p \in Ports, g \in Gens :
       handler[<<p, g>>] = "live" => g = gen \/ p \in Unlistenable
  /\ pc["admin"] = "shut" => \A p \in Ports :
       handler[<<p, gen>>] = "live" => p \in todo["admin"] \/ p \in Unlistenable
  /\ (paused /\ pc["admin"] = "idle") \/ pc["admin"] = "init" =>
       \A p \in Ports, g \in Gens : handler[<<p, g>>] = "live" => p \in Unlistenable

\* A handler that is not live serves no open listener; a port that cannot be
\* listened on has no goroutine, and no other port fails in Resume.
LServing ==
  /\ \A p \in Ports, g \in Gens :
       serving[<<p, g>>] > 0 /\ handler[<<p, g>>] # "live" => listener[p] # "open"
  /\ \A p \in Unlistenable, g \in Gens : jobs[<<p, g>>] = 0 /\ serving[<<p, g>>] = 0
  /\ pc["admin"] = "listen" => failed["admin"] \subseteq Unlistenable

\* What is open belongs to a provider that is up or coming up.
LProvider ==
  /\ \A p \in Ports : listener[p] = "open" => started \/ pc["start"] = "expose"
  /\ node \in Backends => started \/ pc["start"] = "expose"

\* The node never reports a pause.
LEvents == queue \in Seq(Reported)

\* The inductive invariant.
LInv ==
  /\ TypeOK /\ LEvents /\ LPlaces /\ LBefore /\ LFlags
  /\ LChecks /\ LHandlers /\ LServing /\ LProvider

\* Where the three goroutines are after a step.
At(s, a, c) ==
  pc' \in [Procs -> PCs] /\ pc'["start"] = s /\ pc'["admin"] = a /\ pc'["close"] = c

\* One handler, listener or checker changes.
HandlerIs(p, g, v) ==
  /\ handler' \in [Handlers -> {"none", "live", "shut", "canceled"}]
  /\ \A r \in Ports, k \in Gens :
       handler'[<<r, k>>] = IF r = p /\ k = g THEN v ELSE handler[<<r, k>>]

JobsIs(p, g, n) ==
  /\ jobs' \in [Handlers -> Nat]
  /\ \A r \in Ports, k \in Gens : jobs'[<<r, k>>] = IF r = p /\ k = g THEN n ELSE jobs[<<r, k>>]

ServingIs(p, g, n) ==
  /\ serving' \in [Handlers -> Nat]
  /\ \A r \in Ports, k \in Gens :
       serving'[<<r, k>>] = IF r = p /\ k = g THEN n ELSE serving[<<r, k>>]

ListenerIs(p, v) ==
  /\ listener' \in [Ports -> {"none", "open", "closed"}]
  /\ \A r \in Ports : listener'[r] = IF r = p THEN v ELSE listener[r]

CheckerIs(g, v) ==
  /\ checker' \in [Gens -> {"none", "running", "canceled", "done"}]
  /\ \A k \in Gens : checker'[k] = IF k = g THEN v ELSE checker[k]

\* Another one's ports are left alone.
TodoBut(q) ==
  todo' \in [Procs -> SUBSET Ports] /\ (q # "admin" => todo'["admin"] = todo["admin"])

\* The names of the goroutines and of their places.
LEMMA Names ==
  /\ Procs = {"start", "close", "admin"}
  /\ "start" \in Procs /\ "close" \in Procs /\ "admin" \in Procs
  /\ PCs = {"idle", "lifecycle", "expose", "listen", "returned", "failed", "health", "wait",
            "ports", "shut", "drain", "init", "lock"}
  /\ Backends \subseteq Reported /\ "off" \notin Backends /\ "closed" \notin Backends
  BY BackendsType DEF Procs, PCs, Reported

\* Goto moves one goroutine.
LEMMA GotoAt ==
  ASSUME TypeOK
  PROVE  /\ \A l \in PCs : Goto("start", l) => At(l, pc["admin"], pc["close"])
         /\ \A l \in PCs : Goto("admin", l) => At(pc["start"], l, pc["close"])
         /\ \A l \in PCs : Goto("close", l) => At(pc["start"], pc["admin"], l)
  BY DEF TypeOK, Goto, At, Procs

\* What a loop over the ports does to the ports still to be done.
LEMMA LoopTodo ==
  ASSUME TypeOK, NEW q \in Procs
  PROVE  /\ \A S \in SUBSET Ports : todo' = [todo EXCEPT ![q] = S] => TodoBut(q) /\ todo'[q] = S
         /\ \A p \in Ports : todo' = [todo EXCEPT ![q] = @ \ {p}] =>
                             TodoBut(q) /\ todo'[q] = todo[q] \ {p}
  BY DEF TypeOK, TodoBut, Procs

\* Nothing is served that was not served, while the handlers, the listeners and
\* their goroutines are left alone.
LEMMA ServingKept ==
  ASSUME LInv, UNCHANGED <<kind, serving, handler, listener, jobs, failed>>,
         pc'["admin"] = "listen" => pc["admin"] = "listen"
  PROVE  LServing'
<1>1. Unlistenable' = Unlistenable
  BY DEF Unlistenable
<1> QED BY <1>1 DEF LInv, LServing

\* Every step keeps the invariant.
LEMMA LNextInv == LInv /\ [Next]_vars => LInv'
<1> SUFFICES ASSUME LInv, [Next]_vars PROVE LInv'
  OBVIOUS
<1> USE DEF LInv
<1>u. kind' = kind => Unlistenable' = Unlistenable
  BY DEF Unlistenable
<1>p. /\ Unlistenable \subseteq Ports /\ gen \in Gens /\ Gens \subseteq Nat /\ 1 \in Gens
      /\ \A h \in Handlers : h[1] \in Ports /\ h[2] \in Gens /\ h = <<h[1], h[2]>>
      /\ \A p \in Ports, g \in Gens : <<p, g>> \in Handlers /\ <<p, g>>[1] = p /\ <<p, g>>[2] = g
  BY BoundsNat DEF Unlistenable, TypeOK, Gens, Handlers
<1>1. CASE StartLock
  <2>1. /\ pc["start"] = "idle" /\ pc["close"] \in {"idle", "lock"}
        /\ opMu = None /\ opMu' = "start"
        /\ At("lifecycle", pc["admin"], pc["close"])
        /\ UNCHANGED <<kind, ctxDone, paused, status, urlReady, ports, gen, handler, jobs,
                       serving, checker, health, up, reader, queue, node, bridge, started,
                       listener, todo, failed>>
    BY <1>1, GotoAt, LoopTodo, Names
      DEF TypeOK, StartLock, op, flags, handlers, checks, events, provider
  <2>2. TypeOK'
    BY <2>1, Names, <1>p DEF TypeOK, Statuses, AfterSetStatus, At, TodoBut
  <2>3. LPlaces'
    BY <2>1, <1>u, <1>p, NoneFresh DEF TypeOK, LPlaces, LBefore, LFlags, At, TodoBut
  <2>4. LBefore'
    BY <2>1, <1>u, <1>p, NoneFresh
      DEF TypeOK, LPlaces, LBefore, LFlags, AfterSetStatus, At, TodoBut
  <2>5. LFlags'
    BY <2>1, <1>u, <1>p, NoneFresh
      DEF TypeOK, LPlaces, LBefore, LFlags, AfterSetStatus, At, TodoBut
  <2>6. LChecks'
    BY <2>1, <1>u, <1>p, NoneFresh
      DEF TypeOK, LPlaces, LBefore, LFlags, LChecks, NoChecker, Alive, At, TodoBut
  <2>7. LHandlers'
    BY <2>1, <1>u, <1>p, NoneFresh
      DEF TypeOK, LPlaces, LBefore, LFlags, LHandlers, LServing, At, TodoBut
  <2>8. LServing'
    BY <2>1, ServingKept DEF LPlaces, At
  <2>9. LProvider'
    BY <2>1, <1>u, <1>p, NoneFresh
      DEF TypeOK, LPlaces, LBefore, LFlags, LProvider, At, TodoBut
  <2>10. LEvents'
    BY <2>1 DEF LEvents
  <2> QED BY <2>2, <2>3, <2>4, <2>5, <2>6, <2>7, <2>8, <2>9, <2>10
<1>2. CASE LifecycleStart
  <2>1. /\ pc["start"] = "lifecycle" /\ TodoBut("start")
        /\ \/ /\ node' \in Backends /\ UNCHANGED opMu
              /\ At("expose", pc["admin"], pc["close"])
           \/ opMu' = None /\ UNCHANGED node /\ At("failed", pc["admin"], pc["close"])
        /\ UNCHANGED <<kind, ctxDone, paused, status, urlReady, ports, gen, handler, jobs,
                       serving, checker, health, up, reader, queue, bridge, started,
                       listener, failed>>
    BY <1>2, GotoAt, LoopTodo, Names
      DEF TypeOK, LifecycleStart, StartFails, Loop, op, flags, handlers, checks, events, provider
  <2>2. TypeOK'
    BY <2>1, Names, <1>p DEF TypeOK, Statuses, AfterSetStatus, At, TodoBut
  <2>3. LPlaces'
    BY <2>1, <1>u, <1>p, NoneFresh DEF TypeOK, LPlaces, LBefore, LFlags, At, TodoBut
  <2>4. LBefore'
    BY <2>1, <1>u, <1>p, NoneFresh
      DEF TypeOK, LPlaces, LBefore, LFlags, AfterSetStatus, At, TodoBut
  <2>5. LFlags'
    BY <2>1, <1>u, <1>p, NoneFresh
      DEF TypeOK, LPlaces, LBefore, LFlags, AfterSetStatus, At, TodoBut
  <2>6. LChecks'
    BY <2>1, <1>u, <1>p, NoneFresh
      DEF TypeOK, LPlaces, LBefore, LFlags, LChecks, NoChecker, Alive, At, TodoBut
  <2>7. LHandlers'
    BY <2>1, <1>u, <1>p, NoneFresh
      DEF TypeOK, LPlaces, LBefore, LFlags, LHandlers, LServing, At, TodoBut
  <2>8. LServing'
    BY <2>1, ServingKept DEF LPlaces, At
  <2>9. LProvider'
    BY <2>1, <1>u, <1>p, NoneFresh
      DEF TypeOK, LPlaces, LBefore, LFlags, LProvider, At, TodoBut
  <2>10. LEvents'
    BY <2>1 DEF LEvents
  <2> QED BY <2>2, <2>3, <2>4, <2>5, <2>6, <2>7, <2>8, <2>9, <2>10
<1>3. ASSUME NEW p \in Ports, Expose(p) PROVE LInv'
  <2>1. /\ pc["start"] = "expose" /\ TodoBut("start")
        /\ listener' \in [Ports -> {"none", "open", "closed"}]
        /\ \/ UNCHANGED <<opMu, node, pc>>
           \/ /\ \A r \in Ports : listener'[r] # "open"
              /\ node' = "closed" /\ opMu' = None /\ At("failed", pc["admin"], pc["close"])
        /\ UNCHANGED <<kind, ctxDone, paused, status, urlReady, ports, gen, handler, jobs,
                       serving, checker, health, up, reader, queue, bridge, started, failed>>
    <3>1. /\ pc["start"] = "expose"
          /\ UNCHANGED <<kind, ctxDone, paused, status, urlReady, ports, gen, handler, jobs,
                         serving, checker, health, up, reader, queue, bridge, started, failed>>
      BY <1>3 DEF Expose, flags, handlers, checks, events
    <3>2. CASE /\ listener' = [listener EXCEPT ![p] = "open"]
               /\ todo' = [todo EXCEPT !["start"] = @ \ {p}]
               /\ UNCHANGED <<opMu, node, pc>>
      BY <3>1, <3>2 DEF TypeOK, TodoBut, Procs
    <3>3. CASE /\ listener' = [q \in Ports |->
                                 IF listener[q] = "open" THEN "closed" ELSE listener[q]]
               /\ node' = "closed" /\ StartFails
      <4>1. /\ At("failed", pc["admin"], pc["close"])
            /\ opMu' = None /\ todo' = [todo EXCEPT !["start"] = {}]
        BY <3>3, GotoAt, Names DEF StartFails, Loop
      <4>2. TodoBut("start")
        BY <4>1 DEF TypeOK, TodoBut, Procs
      <4>3. /\ listener' \in [Ports -> {"none", "open", "closed"}]
            /\ \A r \in Ports : listener'[r] # "open"
        BY <3>3 DEF TypeOK
      <4> QED BY <3>1, <3>3, <4>1, <4>2, <4>3
    <3> QED BY <1>3, <3>2, <3>3 DEF Expose
  <2>2. TypeOK'
    BY <2>1, Names, <1>p DEF TypeOK, Statuses, AfterSetStatus, At, TodoBut
  <2>3. LPlaces'
    BY <2>1, <1>u, <1>p, NoneFresh DEF TypeOK, LPlaces, LBefore, LFlags, At, TodoBut
  <2>4. LBefore'
    BY <2>1, <1>u, <1>p, NoneFresh
      DEF TypeOK, LPlaces, LBefore, LFlags, AfterSetStatus, At, TodoBut
  <2>5. LFlags'
    BY <2>1, <1>u, <1>p, NoneFresh
      DEF TypeOK, LPlaces, LBefore, LFlags, AfterSetStatus, At, TodoBut
  <2>6. LChecks'
    BY <2>1, <1>u, <1>p, NoneFresh
      DEF TypeOK, LPlaces, LBefore, LFlags, LChecks, NoChecker, Alive, At, TodoBut
  <2>7. LHandlers'
    BY <2>1, <1>u, <1>p, NoneFresh
      DEF TypeOK, LPlaces, LBefore, LFlags, LHandlers, LServing, At, TodoBut
  <2>8. LServing'
    <3>1. ASSUME NEW r \in Ports, NEW k \in Gens,
                 serving'[<<r, k>>] > 0, handler'[<<r, k>>] # "live"
          PROVE  listener'[r] # "open"
      BY <2>1, <3>1 DEF TypeOK, LServing, LBefore, LPlaces
    <3>2. ASSUME NEW r \in Unlistenable, NEW k \in Gens
          PROVE  r \in Ports /\ jobs'[<<r, k>>] = 0 /\ serving'[<<r, k>>] = 0
      BY <2>1, <1>p DEF TypeOK, LServing
    <3>3. pc'["admin"] = "listen" => failed'["admin"] \subseteq Unlistenable
      BY <2>1 DEF LServing, LFlags, LPlaces, At
    <3> QED BY <2>1, <1>u, <3>1, <3>2, <3>3 DEF LServing
  <2>9. LProvider'
    BY <2>1, <1>u, <1>p, NoneFresh, Names
      DEF TypeOK, LPlaces, LBefore, LFlags, LProvider, At, TodoBut
  <2>10. LEvents'
    BY <2>1 DEF LEvents
  <2> QED BY <2>2, <2>3, <2>4, <2>5, <2>6, <2>7, <2>8, <2>9, <2>10
<1>4. CASE ProviderStarted
  <2>1. /\ pc["start"] = "expose" /\ started' = TRUE
        /\ health' = 1 /\ up' = "unknown" /\ reader' = "reading"
        /\ checker' = [checker EXCEPT ![1] = "running"]
        /\ opMu' = None /\ TodoBut("start")
        /\ At("listen", pc["admin"], pc["close"])
        /\ UNCHANGED <<kind, ctxDone, paused, status, urlReady, ports, gen, handler, jobs,
                       serving, queue, node, bridge, listener, failed>>
    BY <1>4, GotoAt, LoopTodo, Names
      DEF TypeOK, ProviderStarted, Loop, op, flags, handlers, checks, events, provider
  <2>c. CheckerIs(1, "running")
    BY <2>1, <1>p DEF TypeOK, CheckerIs, Handlers
  <2>2. TypeOK'
    BY <2>1, <2>c, Names, <1>p DEF TypeOK, Statuses, AfterSetStatus, At, TodoBut, CheckerIs
  <2>3. LPlaces'
    BY <2>1, <2>c, <1>u, <1>p, NoneFresh
      DEF TypeOK, LPlaces, LBefore, LFlags, At, TodoBut, CheckerIs
  <2>4. LBefore'
    BY <2>1, <2>c, <1>u, <1>p, NoneFresh
      DEF TypeOK, LPlaces, LBefore, LFlags, AfterSetStatus, At, TodoBut, CheckerIs
  <2>5. LFlags'
    BY <2>1, <2>c, <1>u, <1>p, NoneFresh
      DEF TypeOK, LPlaces, LBefore, LFlags, AfterSetStatus, At, TodoBut, CheckerIs
  <2>6. LChecks'
    BY <2>1, <2>c, <1>u, <1>p, NoneFresh
      DEF TypeOK, LPlaces, LBefore, LFlags, LChecks, NoChecker, Alive, At, TodoBut,
          CheckerIs
  <2>7. LHandlers'
    BY <2>1, <2>c, <1>u, <1>p, NoneFresh
      DEF TypeOK, LPlaces, LBefore, LFlags, LHandlers, LServing, At, TodoBut, CheckerIs
  <2>8. LServing'
    BY <2>1, ServingKept DEF LPlaces, At
  <2>9. LProvider'
    BY <2>1, <2>c, <1>u, <1>p, NoneFresh
      DEF TypeOK, LPlaces, LBefore, LFlags, LProvider, At, TodoBut, CheckerIs
  <2>10. LEvents'
    BY <2>1 DEF LEvents
  <2> QED BY <2>2, <2>3, <2>4, <2>5, <2>6, <2>7, <2>8, <2>9, <2>10
<1>5. ASSUME NEW p \in Ports, StartPort("start", p) PROVE LInv'
  <2>1. /\ pc["start"] = "listen" /\ TodoBut("start")
        /\ \/ /\ ~started \/ p \in Unlistenable
              /\ failed' \in [Procs -> SUBSET Ports] /\ failed'["admin"] = failed["admin"]
              /\ UNCHANGED <<jobs, listener>>
           \/ /\ started /\ p \notin Unlistenable /\ ports \in Gens
              /\ JobsIs(p, ports, jobs[<<p, ports>>] + 1) /\ UNCHANGED <<failed, listener>>
           \/ /\ UNCHANGED <<failed, jobs>>
              /\ listener' \in [Ports -> {"none", "open", "closed"}]
              /\ \A r \in Ports : listener'[r] = "open" => listener[r] = "open"
        /\ UNCHANGED <<kind, opMu, ctxDone, paused, status, urlReady, ports, gen, handler,
                       serving, checker, health, up, reader, queue, node, bridge, started,
                       pc>>
    <3>1. /\ pc["start"] = "listen" /\ todo' = [todo EXCEPT !["start"] = @ \ {p}]
          /\ UNCHANGED <<kind, opMu, ctxDone, paused, status, urlReady, ports, gen, handler,
                         serving, checker, health, up, reader, queue, node, bridge, started,
                         pc>>
      BY <1>5 DEF StartPort, flags, checks, events
    <3>2. TodoBut("start")
      BY <3>1 DEF TypeOK, TodoBut, Procs
    <3>3. CASE ~started \/ p \in Unlistenable
      <4>1. failed' = [failed EXCEPT !["start"] = @ \cup {p}] /\ UNCHANGED <<jobs, listener>>
        BY <1>5, <3>3 DEF StartPort
      <4>2. failed' \in [Procs -> SUBSET Ports] /\ failed'["admin"] = failed["admin"]
        BY <4>1 DEF TypeOK, Procs
      <4> QED BY <3>1, <3>2, <3>3, <4>1, <4>2
    <3>4. CASE started /\ p \notin Unlistenable /\ ports # 0
      <4>1. jobs' = [jobs EXCEPT ![<<p, ports>>] = @ + 1] /\ UNCHANGED <<failed, listener>>
        BY <1>5, <3>4 DEF StartPort
      <4>2. ports \in Gens
        BY <3>4 DEF TypeOK
      <4>3. JobsIs(p, ports, jobs[<<p, ports>>] + 1)
        BY <4>1, <4>2, <1>p, SMTT(30) DEF TypeOK, JobsIs, Handlers
      <4> QED BY <3>1, <3>2, <3>4, <4>1, <4>2, <4>3
    <3>5. CASE started /\ p \notin Unlistenable /\ ports = 0
      <4>1. /\ listener' = [listener EXCEPT ![p] = IF p \in UDPPorts THEN "closed" ELSE @]
            /\ UNCHANGED <<failed, jobs>>
        BY <1>5, <3>5 DEF StartPort
      <4>2. /\ listener' \in [Ports -> {"none", "open", "closed"}]
            /\ \A r \in Ports : listener'[r] = "open" => listener[r] = "open"
        BY <4>1 DEF TypeOK
      <4> QED BY <3>1, <3>2, <4>1, <4>2
    <3> QED BY <3>3, <3>4, <3>5
  <2>t1. failed' \in [Procs -> SUBSET Ports]
    BY <2>1, Names, BoundsNat DEF TypeOK, JobsIs
  <2>t2. jobs' \in [Handlers -> Nat]
    BY <2>1, Names, BoundsNat DEF TypeOK, JobsIs
  <2>t3. listener' \in [Ports -> {"none", "open", "closed"}]
    BY <2>1, Names, BoundsNat DEF TypeOK, JobsIs
  <2>2. TypeOK'
    BY <2>1, <2>t1, <2>t2, <2>t3 DEF TypeOK, At, TodoBut
  <2>3. LBefore'
    BY <2>1, <1>u, <1>p, NoneFresh
      DEF TypeOK, LPlaces, LBefore, LFlags, AfterSetStatus, At, TodoBut
  <2>4. LHandlers'
    BY <2>1, <1>u, <1>p, NoneFresh
      DEF TypeOK, LPlaces, LBefore, LFlags, LHandlers, LServing, At, TodoBut
  <2>5. LServing'
    <3>1. ASSUME NEW r \in Ports, NEW k \in Gens,
                 serving'[<<r, k>>] > 0, handler'[<<r, k>>] # "live"
          PROVE  listener'[r] # "open"
      BY <2>1, <3>1 DEF TypeOK, LServing, LBefore, LPlaces, JobsIs
    <3>2. ASSUME NEW r \in Unlistenable, NEW k \in Gens
          PROVE  r \in Ports /\ jobs'[<<r, k>>] = 0 /\ serving'[<<r, k>>] = 0
      BY <2>1, <1>p DEF LServing, JobsIs
    <3>3. pc'["admin"] = "listen" => failed'["admin"] \subseteq Unlistenable
      BY <2>1 DEF LServing, LFlags, LPlaces, At
    <3> QED BY <2>1, <1>u, <3>1, <3>2, <3>3 DEF LServing
  <2>6. LProvider'
    BY <2>1, <1>u, <1>p, NoneFresh
      DEF TypeOK, LPlaces, LBefore, LFlags, LProvider, At, TodoBut
  <2>7. LPlaces' /\ LFlags' /\ LChecks'
    BY <2>1, <1>u DEF LPlaces, LFlags, LChecks, NoChecker, Alive
  <2>8. LEvents'
    BY <2>1 DEF LEvents
  <2> QED BY <2>2, <2>3, <2>4, <2>5, <2>6, <2>7, <2>8
<1>6. ASSUME NEW p \in Ports, StartPort("admin", p) PROVE LInv'
  <2>1. /\ pc["admin"] = "listen" /\ TodoBut("admin")
        /\ \/ /\ ~started \/ p \in Unlistenable
              /\ failed' \in [Procs -> SUBSET Ports] /\ failed'["admin"] = failed["admin"] \cup {p}
              /\ UNCHANGED <<jobs, listener>>
           \/ /\ started /\ p \notin Unlistenable /\ ports \in Gens
              /\ JobsIs(p, ports, jobs[<<p, ports>>] + 1) /\ UNCHANGED <<failed, listener>>
           \/ /\ UNCHANGED <<failed, jobs>>
              /\ listener' \in [Ports -> {"none", "open", "closed"}]
              /\ \A r \in Ports : listener'[r] = "open" => listener[r] = "open"
        /\ UNCHANGED <<kind, opMu, ctxDone, paused, status, urlReady, ports, gen, handler,
                       serving, checker, health, up, reader, queue, node, bridge, started,
                       pc>>
    <3>1. /\ pc["admin"] = "listen" /\ todo' = [todo EXCEPT !["admin"] = @ \ {p}]
          /\ UNCHANGED <<kind, opMu, ctxDone, paused, status, urlReady, ports, gen, handler,
                         serving, checker, health, up, reader, queue, node, bridge, started,
                         pc>>
      BY <1>6 DEF StartPort, flags, checks, events
    <3>2. TodoBut("admin")
      BY <3>1 DEF TypeOK, TodoBut, Procs
    <3>3. CASE ~started \/ p \in Unlistenable
      <4>1. failed' = [failed EXCEPT !["admin"] = @ \cup {p}] /\ UNCHANGED <<jobs, listener>>
        BY <1>6, <3>3 DEF StartPort
      <4>2. failed' \in [Procs -> SUBSET Ports] /\ failed'["admin"] = failed["admin"] \cup {p}
        BY <4>1 DEF TypeOK, Procs
      <4> QED BY <3>1, <3>2, <3>3, <4>1, <4>2
    <3>4. CASE started /\ p \notin Unlistenable /\ ports # 0
      <4>1. jobs' = [jobs EXCEPT ![<<p, ports>>] = @ + 1] /\ UNCHANGED <<failed, listener>>
        BY <1>6, <3>4 DEF StartPort
      <4>2. ports \in Gens
        BY <3>4 DEF TypeOK
      <4>3. JobsIs(p, ports, jobs[<<p, ports>>] + 1)
        BY <4>1, <4>2, <1>p, SMTT(30) DEF TypeOK, JobsIs, Handlers
      <4> QED BY <3>1, <3>2, <3>4, <4>1, <4>2, <4>3
    <3>5. CASE started /\ p \notin Unlistenable /\ ports = 0
      <4>1. /\ listener' = [listener EXCEPT ![p] = IF p \in UDPPorts THEN "closed" ELSE @]
            /\ UNCHANGED <<failed, jobs>>
        BY <1>6, <3>5 DEF StartPort
      <4>2. /\ listener' \in [Ports -> {"none", "open", "closed"}]
            /\ \A r \in Ports : listener'[r] = "open" => listener[r] = "open"
        BY <4>1 DEF TypeOK
      <4> QED BY <3>1, <3>2, <4>1, <4>2
    <3> QED BY <3>3, <3>4, <3>5
  <2>t1. failed' \in [Procs -> SUBSET Ports]
    BY <2>1, Names, BoundsNat DEF TypeOK, JobsIs
  <2>t2. jobs' \in [Handlers -> Nat]
    BY <2>1, Names, BoundsNat DEF TypeOK, JobsIs
  <2>t3. listener' \in [Ports -> {"none", "open", "closed"}]
    BY <2>1, Names, BoundsNat DEF TypeOK, JobsIs
  <2>2. TypeOK'
    BY <2>1, <2>t1, <2>t2, <2>t3 DEF TypeOK, At, TodoBut
  <2>3. LBefore'
    BY <2>1, <1>u, <1>p, NoneFresh
      DEF TypeOK, LPlaces, LBefore, LFlags, AfterSetStatus, At, TodoBut
  <2>4. LHandlers'
    BY <2>1, <1>u, <1>p, NoneFresh
      DEF TypeOK, LPlaces, LBefore, LFlags, LHandlers, LServing, At, TodoBut
  <2>5. LServing'
    <3>1. ASSUME NEW r \in Ports, NEW k \in Gens,
                 serving'[<<r, k>>] > 0, handler'[<<r, k>>] # "live"
          PROVE  listener'[r] # "open"
      BY <2>1, <3>1 DEF TypeOK, LServing, LBefore, LPlaces, JobsIs
    <3>2. ASSUME NEW r \in Unlistenable, NEW k \in Gens
          PROVE  r \in Ports /\ jobs'[<<r, k>>] = 0 /\ serving'[<<r, k>>] = 0
      BY <2>1, <1>p DEF LServing, JobsIs
    <3>3. pc'["admin"] = "listen" => failed'["admin"] \subseteq Unlistenable
      BY <2>1 DEF LServing, LFlags, LPlaces, At
    <3> QED BY <2>1, <1>u, <3>1, <3>2, <3>3 DEF LServing
  <2>6. LProvider'
    BY <2>1, <1>u, <1>p, NoneFresh
      DEF TypeOK, LPlaces, LBefore, LFlags, LProvider, At, TodoBut
  <2>7. LPlaces' /\ LFlags' /\ LChecks'
    BY <2>1, <1>u DEF LPlaces, LFlags, LChecks, NoChecker, Alive
  <2>8. LEvents'
    BY <2>1 DEF LEvents
  <2> QED BY <2>2, <2>3, <2>4, <2>5, <2>6, <2>7, <2>8
<1>7. CASE StartReturns
  <2>1. /\ pc["start"] = "listen"
        /\ At("failed", pc["admin"], pc["close"]) \/ At("returned", pc["admin"], pc["close"])
        /\ UNCHANGED <<kind, opMu, ctxDone, paused, status, urlReady, ports, gen, handler,
                       jobs, serving, checker, health, up, reader, queue, node, bridge,
                       started, listener, todo, failed>>
    BY <1>7, GotoAt, LoopTodo, Names
      DEF TypeOK, StartReturns, op, flags, handlers, checks, events, provider
  <2>2. TypeOK'
    BY <2>1, Names, <1>p DEF TypeOK, Statuses, AfterSetStatus, At, TodoBut
  <2>3. LPlaces'
    BY <2>1, <1>u, <1>p, NoneFresh DEF TypeOK, LPlaces, LBefore, LFlags, At, TodoBut
  <2>4. LBefore'
    BY <2>1, <1>u, <1>p, NoneFresh
      DEF TypeOK, LPlaces, LBefore, LFlags, AfterSetStatus, At, TodoBut
  <2>5. LFlags'
    BY <2>1, <1>u, <1>p, NoneFresh
      DEF TypeOK, LPlaces, LBefore, LFlags, AfterSetStatus, At, TodoBut
  <2>6. LChecks'
    BY <2>1, <1>u, <1>p, NoneFresh
      DEF TypeOK, LPlaces, LBefore, LFlags, LChecks, NoChecker, Alive, At, TodoBut
  <2>7. LHandlers'
    BY <2>1, <1>u, <1>p, NoneFresh
      DEF TypeOK, LPlaces, LBefore, LFlags, LHandlers, LServing, At, TodoBut
  <2>8. LServing'
    BY <2>1, ServingKept DEF LPlaces, At
  <2>9. LProvider'
    BY <2>1, <1>u, <1>p, NoneFresh
      DEF TypeOK, LPlaces, LBefore, LFlags, LProvider, At, TodoBut
  <2>10. LEvents'
    BY <2>1 DEF LEvents
  <2> QED BY <2>2, <2>3, <2>4, <2>5, <2>6, <2>7, <2>8, <2>9, <2>10
<1>8. CASE PauseLock
  <2>1. /\ pc["admin"] = "idle" /\ opMu = None /\ ~paused /\ status = "Running"
        /\ opMu' = "admin" /\ paused' = TRUE
        /\ At(pc["start"], "health", pc["close"])
        /\ UNCHANGED <<kind, ctxDone, status, urlReady, ports, gen, handler, jobs, serving,
                       checker, health, up, reader, queue, node, bridge, started, listener,
                       todo, failed>>
    BY <1>8, GotoAt, LoopTodo, Names
      DEF TypeOK, PauseLock, op, flags, handlers, checks, events, provider
  <2>2. TypeOK'
    BY <2>1, Names, <1>p DEF TypeOK, Statuses, AfterSetStatus, At, TodoBut
  <2>3. LPlaces'
    BY <2>1, <1>u, <1>p, NoneFresh DEF TypeOK, LPlaces, LBefore, LFlags, At, TodoBut
  <2>4. LBefore'
    BY <2>1, <1>u, <1>p, NoneFresh
      DEF TypeOK, LPlaces, LBefore, LFlags, AfterSetStatus, At, TodoBut
  <2>5. LFlags'
    BY <2>1, <1>u, <1>p, NoneFresh
      DEF TypeOK, LPlaces, LBefore, LFlags, AfterSetStatus, At, TodoBut
  <2>6. LChecks'
    BY <2>1, <1>u, <1>p, NoneFresh
      DEF TypeOK, LPlaces, LBefore, LFlags, LChecks, NoChecker, Alive, At, TodoBut
  <2>7. LHandlers'
    BY <2>1, <1>u, <1>p, NoneFresh
      DEF TypeOK, LPlaces, LBefore, LFlags, LHandlers, LServing, At, TodoBut
  <2>8. LServing'
    BY <2>1, ServingKept DEF LPlaces, At
  <2>9. LProvider'
    BY <2>1, <1>u, <1>p, NoneFresh
      DEF TypeOK, LPlaces, LBefore, LFlags, LProvider, At, TodoBut
  <2>10. LEvents'
    BY <2>1 DEF LEvents
  <2> QED BY <2>2, <2>3, <2>4, <2>5, <2>6, <2>7, <2>8, <2>9, <2>10
<1>9. CASE StopHealthChecker("admin")
  <2>1. /\ pc["admin"] = "health"
        /\ checker' = [g \in Gens |-> IF g = health /\ checker[g] = "running" THEN "canceled"
                                      ELSE checker[g]]
        /\ At(pc["start"], "wait", pc["close"])
        /\ UNCHANGED <<kind, opMu, ctxDone, paused, status, urlReady, ports, gen, handler,
                       jobs, serving, health, up, reader, queue, node, bridge, started,
                       listener, todo, failed>>
    BY <1>9, GotoAt, LoopTodo, Names
      DEF TypeOK, StopHealthChecker, op, flags, handlers, checks, events, provider
  <2>2. TypeOK'
    BY <2>1, Names, <1>p DEF TypeOK, Statuses, AfterSetStatus, At, TodoBut
  <2>3. LPlaces'
    BY <2>1, <1>u, <1>p, NoneFresh DEF TypeOK, LPlaces, LBefore, LFlags, At, TodoBut
  <2>4. LBefore'
    BY <2>1, <1>u, <1>p, NoneFresh
      DEF TypeOK, LPlaces, LBefore, LFlags, AfterSetStatus, At, TodoBut
  <2>5. LFlags'
    BY <2>1, <1>u, <1>p, NoneFresh
      DEF TypeOK, LPlaces, LBefore, LFlags, AfterSetStatus, At, TodoBut
  <2>6. LChecks'
    BY <2>1, <1>u, <1>p, NoneFresh
      DEF TypeOK, LPlaces, LBefore, LFlags, LChecks, NoChecker, Alive, At, TodoBut
  <2>7. LHandlers'
    BY <2>1, <1>u, <1>p, NoneFresh
      DEF TypeOK, LPlaces, LBefore, LFlags, LHandlers, LServing, At, TodoBut
  <2>8. LServing'
    BY <2>1, ServingKept DEF LPlaces, At
  <2>9. LProvider'
    BY <2>1, <1>u, <1>p, NoneFresh
      DEF TypeOK, LPlaces, LBefore, LFlags, LProvider, At, TodoBut
  <2>10. LEvents'
    BY <2>1 DEF LEvents
  <2> QED BY <2>2, <2>3, <2>4, <2>5, <2>6, <2>7, <2>8, <2>9, <2>10
<1>10. CASE HealthCheckerStopped("admin")
  <2>1. /\ pc["admin"] = "wait" /\ \A g \in Gens : g = health => checker[g] = "done"
        /\ ctxDone' \in BOOLEAN
        /\ At(pc["start"], "ports", pc["close"])
        /\ UNCHANGED <<kind, opMu, paused, status, urlReady, ports, gen, handler, jobs,
                       serving, checker, health, up, reader, queue, node, bridge, started,
                       listener, todo, failed>>
    BY <1>10, GotoAt, LoopTodo, Names
      DEF TypeOK, HealthCheckerStopped, op, flags, handlers, checks, events, provider
  <2>2. TypeOK'
    BY <2>1, Names, <1>p DEF TypeOK, Statuses, AfterSetStatus, At, TodoBut
  <2>3. LPlaces'
    BY <2>1, <1>u, <1>p, NoneFresh DEF TypeOK, LPlaces, LBefore, LFlags, At, TodoBut
  <2>4. LBefore'
    BY <2>1, <1>u, <1>p, NoneFresh
      DEF TypeOK, LPlaces, LBefore, LFlags, AfterSetStatus, At, TodoBut
  <2>5. LFlags'
    BY <2>1, <1>u, <1>p, NoneFresh
      DEF TypeOK, LPlaces, LBefore, LFlags, AfterSetStatus, At, TodoBut
  <2>6. LChecks'
    BY <2>1, <1>u, <1>p, NoneFresh
      DEF TypeOK, LPlaces, LBefore, LFlags, LChecks, NoChecker, Alive, At, TodoBut
  <2>7. LHandlers'
    BY <2>1, <1>u, <1>p, NoneFresh
      DEF TypeOK, LPlaces, LBefore, LFlags, LHandlers, LServing, At, TodoBut
  <2>8. LServing'
    BY <2>1, ServingKept DEF LPlaces, At
  <2>9. LProvider'
    BY <2>1, <1>u, <1>p, NoneFresh
      DEF TypeOK, LPlaces, LBefore, LFlags, LProvider, At, TodoBut
  <2>10. LEvents'
    BY <2>1 DEF LEvents
  <2> QED BY <2>2, <2>3, <2>4, <2>5, <2>6, <2>7, <2>8, <2>9, <2>10
<1>11. CASE ClosePorts("admin")
  <2>1. /\ pc["admin"] = "ports" /\ ports' = 0
        /\ todo' \in [Procs -> SUBSET Ports] /\ (ports # 0 => todo'["admin"] = Ports)
        /\ At(pc["start"], "shut", pc["close"])
        /\ UNCHANGED <<kind, opMu, ctxDone, paused, status, urlReady, gen, handler, jobs,
                       serving, checker, health, up, reader, queue, node, bridge, started,
                       listener, failed>>
    BY <1>11, GotoAt, LoopTodo, Names
      DEF TypeOK, ClosePorts, Loop, op, flags, handlers, checks, events, provider
  <2>2. TypeOK'
    BY <2>1, Names, <1>p DEF TypeOK, Statuses, AfterSetStatus, At, TodoBut
  <2>3. LPlaces'
    BY <2>1, <1>u, <1>p, NoneFresh DEF TypeOK, LPlaces, LBefore, LFlags, At, TodoBut
  <2>4. LBefore'
    BY <2>1, <1>u, <1>p, NoneFresh
      DEF TypeOK, LPlaces, LBefore, LFlags, AfterSetStatus, At, TodoBut
  <2>5. LFlags'
    BY <2>1, <1>u, <1>p, NoneFresh
      DEF TypeOK, LPlaces, LBefore, LFlags, AfterSetStatus, At, TodoBut
  <2>6. LChecks'
    BY <2>1, <1>u, <1>p, NoneFresh
      DEF TypeOK, LPlaces, LBefore, LFlags, LChecks, NoChecker, Alive, At, TodoBut
  <2>7. LHandlers'
    BY <2>1, <1>u, <1>p, NoneFresh
      DEF TypeOK, LPlaces, LBefore, LFlags, LHandlers, LServing, At, TodoBut
  <2>8. LServing'
    BY <2>1, ServingKept DEF LPlaces, At
  <2>9. LProvider'
    BY <2>1, <1>u, <1>p, NoneFresh
      DEF TypeOK, LPlaces, LBefore, LFlags, LProvider, At, TodoBut
  <2>10. LEvents'
    BY <2>1 DEF LEvents
  <2> QED BY <2>2, <2>3, <2>4, <2>5, <2>6, <2>7, <2>8, <2>9, <2>10
<1>12. ASSUME NEW p \in Ports, ShutPort("admin", p) PROVE LInv'
  <2>1. /\ handler' = [handler EXCEPT ![<<p, gen>>] = "shut"]
        /\ listener' = [listener EXCEPT ![p] = IF serving[<<p, gen>>] > 0 THEN "closed" ELSE @]
        /\ UNCHANGED <<kind, opMu, ctxDone, paused, status, urlReady, ports, gen, jobs,
                       serving, checker, health, up, reader, queue, node, bridge, started,
                       pc, todo, failed>>
    BY <1>12, GotoAt, LoopTodo, Names
      DEF TypeOK, ShutPort, op, flags, handlers, checks, events, provider
  <2>h. HandlerIs(p, gen, "shut")
    BY <2>1, <1>p DEF TypeOK, HandlerIs, Handlers
  <2>l. ListenerIs(p, IF serving[<<p, gen>>] > 0 THEN "closed" ELSE listener[p])
    BY <2>1, <1>p DEF TypeOK, ListenerIs, Handlers
  <2>2. TypeOK'
    BY <2>1, <2>h, <2>l, Names, <1>p
      DEF TypeOK, Statuses, AfterSetStatus, At, TodoBut, HandlerIs, ListenerIs
  <2>3. LHandlers'
    BY <2>1, <2>h, <2>l, <1>u, <1>p, NoneFresh
      DEF TypeOK, LPlaces, LBefore, LFlags, LHandlers, LServing, At, TodoBut, HandlerIs,
          ListenerIs
  <2>4. LServing'
    <3>1. ASSUME NEW r \in Ports, NEW k \in Gens,
                 serving'[<<r, k>>] > 0, handler'[<<r, k>>] # "live"
          PROVE  listener'[r] # "open"
      <4>1. CASE r = p /\ k = gen
        BY <2>1, <2>h, <2>l, <3>1, <4>1 DEF LServing, HandlerIs, ListenerIs
      <4>2. CASE ~(r = p /\ k = gen)
        <5>1. serving[<<r, k>>] > 0 /\ handler[<<r, k>>] # "live"
          BY <2>1, <2>h, <2>l, <3>1, <4>2 DEF HandlerIs, ListenerIs
        <5>2. listener[r] # "open"
          BY <5>1 DEF LServing
        <5>3. listener'[r] = "open" => listener[r] = "open"
          BY <2>1, <2>h, <2>l DEF HandlerIs, ListenerIs
        <5> QED BY <5>2, <5>3
      <4> QED BY <4>1, <4>2
    <3>2. ASSUME NEW r \in Unlistenable, NEW k \in Gens
          PROVE  r \in Ports /\ jobs'[<<r, k>>] = 0 /\ serving'[<<r, k>>] = 0
      BY <2>1, <2>h, <2>l, <1>p DEF TypeOK, LServing, HandlerIs, ListenerIs
    <3>3. pc'["admin"] = "listen" => failed'["admin"] \subseteq Unlistenable
      BY <2>1 DEF LServing, LFlags, LPlaces, At
    <3> QED BY <2>1, <1>u, <3>1, <3>2, <3>3 DEF LServing
  <2>5. LProvider'
    BY <2>1, <2>h, <2>l, <1>u, <1>p, NoneFresh
      DEF TypeOK, LPlaces, LBefore, LFlags, LProvider, At, TodoBut, HandlerIs, ListenerIs
  <2>6. LPlaces' /\ LBefore' /\ LFlags' /\ LChecks'
    BY <2>1, <1>u DEF LPlaces, LBefore, LFlags, LChecks, NoChecker, Alive
  <2>7. LEvents'
    BY <2>1 DEF LEvents
  <2> QED BY <2>2, <2>3, <2>4, <2>5, <2>6, <2>7
<1>13. ASSUME NEW p \in Ports, CancelPort("admin", p) PROVE LInv'
  <2>1. /\ pc["admin"] = "shut" /\ handler[<<p, gen>>] = "shut"
        /\ handler' = [handler EXCEPT ![<<p, gen>>] = "canceled"]
        /\ todo' \in [Procs -> SUBSET Ports] /\ todo'["admin"] = todo["admin"] \ {p}
        /\ UNCHANGED <<kind, opMu, ctxDone, paused, status, urlReady, ports, gen, jobs,
                       serving, checker, health, up, reader, queue, node, bridge, started,
                       listener, pc, failed>>
    BY <1>13, GotoAt, LoopTodo, Names
      DEF TypeOK, CancelPort, op, flags, handlers, checks, events, provider
  <2>h. HandlerIs(p, gen, "canceled")
    BY <2>1, <1>p DEF TypeOK, HandlerIs, Handlers
  <2>2. TypeOK'
    BY <2>1, <2>h, Names, <1>p DEF TypeOK, Statuses, AfterSetStatus, At, TodoBut, HandlerIs
  <2>3. LHandlers'
    BY <2>1, <2>h, <1>u, <1>p, NoneFresh
      DEF TypeOK, LPlaces, LBefore, LFlags, LHandlers, LServing, At, TodoBut, HandlerIs
  <2>4. LServing'
    <3>1. ASSUME NEW r \in Ports, NEW k \in Gens,
                 serving'[<<r, k>>] > 0, handler'[<<r, k>>] # "live"
          PROVE  listener'[r] # "open"
      <4>1. CASE r = p /\ k = gen
        BY <2>1, <2>h, <3>1, <4>1 DEF LServing, HandlerIs
      <4>2. CASE ~(r = p /\ k = gen)
        <5>1. serving[<<r, k>>] > 0 /\ handler[<<r, k>>] # "live"
          BY <2>1, <2>h, <3>1, <4>2 DEF HandlerIs
        <5>2. listener[r] # "open"
          BY <5>1 DEF LServing
        <5>3. listener'[r] = "open" => listener[r] = "open"
          BY <2>1, <2>h DEF HandlerIs
        <5> QED BY <5>2, <5>3
      <4> QED BY <4>1, <4>2
    <3>2. ASSUME NEW r \in Unlistenable, NEW k \in Gens
          PROVE  r \in Ports /\ jobs'[<<r, k>>] = 0 /\ serving'[<<r, k>>] = 0
      BY <2>1, <2>h, <1>p DEF TypeOK, LServing, HandlerIs
    <3>3. pc'["admin"] = "listen" => failed'["admin"] \subseteq Unlistenable
      BY <2>1 DEF LServing, LFlags, LPlaces, At
    <3> QED BY <2>1, <1>u, <3>1, <3>2, <3>3 DEF LServing
  <2>5. LPlaces' /\ LBefore' /\ LFlags' /\ LChecks' /\ LProvider'
    BY <2>1, <1>u DEF LPlaces, LBefore, LFlags, LChecks, LProvider, NoChecker, Alive
  <2>6. LEvents'
    BY <2>1 DEF LEvents
  <2> QED BY <2>2, <2>3, <2>4, <2>5, <2>6
<1>14. CASE StopHealthChecker("close")
  <2>1. /\ pc["close"] = "health"
        /\ checker' = [g \in Gens |-> IF g = health /\ checker[g] = "running" THEN "canceled"
                                      ELSE checker[g]]
        /\ At(pc["start"], pc["admin"], "wait")
        /\ UNCHANGED <<kind, opMu, ctxDone, paused, status, urlReady, ports, gen, handler,
                       jobs, serving, health, up, reader, queue, node, bridge, started,
                       listener, todo, failed>>
    BY <1>14, GotoAt, LoopTodo, Names
      DEF TypeOK, StopHealthChecker, op, flags, handlers, checks, events, provider
  <2>2. TypeOK'
    BY <2>1, Names, <1>p DEF TypeOK, Statuses, AfterSetStatus, At, TodoBut
  <2>3. LPlaces'
    BY <2>1, <1>u, <1>p, NoneFresh DEF TypeOK, LPlaces, LBefore, LFlags, At, TodoBut
  <2>4. LBefore'
    BY <2>1, <1>u, <1>p, NoneFresh
      DEF TypeOK, LPlaces, LBefore, LFlags, AfterSetStatus, At, TodoBut
  <2>5. LFlags'
    BY <2>1, <1>u, <1>p, NoneFresh
      DEF TypeOK, LPlaces, LBefore, LFlags, AfterSetStatus, At, TodoBut
  <2>6. LChecks'
    BY <2>1, <1>u, <1>p, NoneFresh
      DEF TypeOK, LPlaces, LBefore, LFlags, LChecks, NoChecker, Alive, At, TodoBut
  <2>7. LHandlers'
    BY <2>1, <1>u, <1>p, NoneFresh
      DEF TypeOK, LPlaces, LBefore, LFlags, LHandlers, LServing, At, TodoBut
  <2>8. LServing'
    BY <2>1, ServingKept DEF LPlaces, At
  <2>9. LProvider'
    BY <2>1, <1>u, <1>p, NoneFresh
      DEF TypeOK, LPlaces, LBefore, LFlags, LProvider, At, TodoBut
  <2>10. LEvents'
    BY <2>1 DEF LEvents
  <2> QED BY <2>2, <2>3, <2>4, <2>5, <2>6, <2>7, <2>8, <2>9, <2>10
<1>15. CASE HealthCheckerStopped("close")
  <2>1. /\ pc["close"] = "wait" /\ \A g \in Gens : g = health => checker[g] = "done"
        /\ ctxDone' \in BOOLEAN
        /\ At(pc["start"], pc["admin"], "ports")
        /\ UNCHANGED <<kind, opMu, paused, status, urlReady, ports, gen, handler, jobs,
                       serving, checker, health, up, reader, queue, node, bridge, started,
                       listener, todo, failed>>
    BY <1>15, GotoAt, LoopTodo, Names
      DEF TypeOK, HealthCheckerStopped, op, flags, handlers, checks, events, provider
  <2>2. TypeOK'
    BY <2>1, Names, <1>p DEF TypeOK, Statuses, AfterSetStatus, At, TodoBut
  <2>3. LPlaces'
    BY <2>1, <1>u, <1>p, NoneFresh DEF TypeOK, LPlaces, LBefore, LFlags, At, TodoBut
  <2>4. LBefore'
    BY <2>1, <1>u, <1>p, NoneFresh
      DEF TypeOK, LPlaces, LBefore, LFlags, AfterSetStatus, At, TodoBut
  <2>5. LFlags'
    BY <2>1, <1>u, <1>p, NoneFresh
      DEF TypeOK, LPlaces, LBefore, LFlags, AfterSetStatus, At, TodoBut
  <2>6. LChecks'
    BY <2>1, <1>u, <1>p, NoneFresh
      DEF TypeOK, LPlaces, LBefore, LFlags, LChecks, NoChecker, Alive, At, TodoBut
  <2>7. LHandlers'
    BY <2>1, <1>u, <1>p, NoneFresh
      DEF TypeOK, LPlaces, LBefore, LFlags, LHandlers, LServing, At, TodoBut
  <2>8. LServing'
    BY <2>1, ServingKept DEF LPlaces, At
  <2>9. LProvider'
    BY <2>1, <1>u, <1>p, NoneFresh
      DEF TypeOK, LPlaces, LBefore, LFlags, LProvider, At, TodoBut
  <2>10. LEvents'
    BY <2>1 DEF LEvents
  <2> QED BY <2>2, <2>3, <2>4, <2>5, <2>6, <2>7, <2>8, <2>9, <2>10
<1>16. CASE ClosePorts("close")
  <2>1. /\ pc["close"] = "ports" /\ TodoBut("close")
        /\ At(pc["start"], pc["admin"], "shut")
        /\ UNCHANGED <<kind, opMu, ctxDone, paused, status, urlReady, ports, gen, handler,
                       jobs, serving, checker, health, up, reader, queue, node, bridge,
                       started, listener, failed>>
    <3>1. /\ pc["close"] = "ports" /\ Goto("close", "shut")
          /\ todo' = [todo EXCEPT !["close"] = IF ports = 0 THEN {} ELSE Ports]
          /\ UNCHANGED <<kind, opMu, ctxDone, paused, status, urlReady, ports, gen, handler,
                         jobs, serving, checker, health, up, reader, queue, node, bridge,
                         started, listener, failed>>
      BY <1>16 DEF ClosePorts, Loop, flags, checks, events, provider
    <3>2. TodoBut("close")
      BY <3>1 DEF TypeOK, TodoBut, Procs
    <3> QED BY <3>1, <3>2, GotoAt, Names
  <2>2. TypeOK'
    BY <2>1, Names, <1>p DEF TypeOK, Statuses, AfterSetStatus, At, TodoBut
  <2>3. LPlaces'
    BY <2>1, <1>u, <1>p, NoneFresh DEF TypeOK, LPlaces, LBefore, LFlags, At, TodoBut
  <2>4. LBefore'
    BY <2>1, <1>u, <1>p, NoneFresh
      DEF TypeOK, LPlaces, LBefore, LFlags, AfterSetStatus, At, TodoBut
  <2>5. LFlags'
    BY <2>1, <1>u, <1>p, NoneFresh
      DEF TypeOK, LPlaces, LBefore, LFlags, AfterSetStatus, At, TodoBut
  <2>6. LChecks'
    BY <2>1, <1>u, <1>p, NoneFresh
      DEF TypeOK, LPlaces, LBefore, LFlags, LChecks, NoChecker, Alive, At, TodoBut
  <2>7. LHandlers'
    BY <2>1, <1>u, <1>p, NoneFresh
      DEF TypeOK, LPlaces, LBefore, LFlags, LHandlers, LServing, At, TodoBut
  <2>8. LServing'
    BY <2>1, ServingKept DEF LPlaces, At
  <2>9. LProvider'
    BY <2>1, <1>u, <1>p, NoneFresh
      DEF TypeOK, LPlaces, LBefore, LFlags, LProvider, At, TodoBut
  <2>10. LEvents'
    BY <2>1 DEF LEvents
  <2> QED BY <2>2, <2>3, <2>4, <2>5, <2>6, <2>7, <2>8, <2>9, <2>10
<1>17. ASSUME NEW p \in Ports, ShutPort("close", p) PROVE LInv'
  <2>1. /\ handler' = [handler EXCEPT ![<<p, gen>>] = "shut"]
        /\ listener' = [listener EXCEPT ![p] = IF serving[<<p, gen>>] > 0 THEN "closed" ELSE @]
        /\ UNCHANGED <<kind, opMu, ctxDone, paused, status, urlReady, ports, gen, jobs,
                       serving, checker, health, up, reader, queue, node, bridge, started,
                       pc, todo, failed>>
    BY <1>17, GotoAt, LoopTodo, Names
      DEF TypeOK, ShutPort, op, flags, handlers, checks, events, provider
  <2>h. HandlerIs(p, gen, "shut")
    BY <2>1, <1>p DEF TypeOK, HandlerIs, Handlers
  <2>l. ListenerIs(p, IF serving[<<p, gen>>] > 0 THEN "closed" ELSE listener[p])
    BY <2>1, <1>p DEF TypeOK, ListenerIs, Handlers
  <2>2. TypeOK'
    BY <2>1, <2>h, <2>l, Names, <1>p
      DEF TypeOK, Statuses, AfterSetStatus, At, TodoBut, HandlerIs, ListenerIs
  <2>3. LHandlers'
    BY <2>1, <2>h, <2>l, <1>u, <1>p, NoneFresh
      DEF TypeOK, LPlaces, LBefore, LFlags, LHandlers, LServing, At, TodoBut, HandlerIs,
          ListenerIs
  <2>4. LServing'
    <3>1. ASSUME NEW r \in Ports, NEW k \in Gens,
                 serving'[<<r, k>>] > 0, handler'[<<r, k>>] # "live"
          PROVE  listener'[r] # "open"
      <4>1. CASE r = p /\ k = gen
        BY <2>1, <2>h, <2>l, <3>1, <4>1 DEF LServing, HandlerIs, ListenerIs
      <4>2. CASE ~(r = p /\ k = gen)
        <5>1. serving[<<r, k>>] > 0 /\ handler[<<r, k>>] # "live"
          BY <2>1, <2>h, <2>l, <3>1, <4>2 DEF HandlerIs, ListenerIs
        <5>2. listener[r] # "open"
          BY <5>1 DEF LServing
        <5>3. listener'[r] = "open" => listener[r] = "open"
          BY <2>1, <2>h, <2>l DEF HandlerIs, ListenerIs
        <5> QED BY <5>2, <5>3
      <4> QED BY <4>1, <4>2
    <3>2. ASSUME NEW r \in Unlistenable, NEW k \in Gens
          PROVE  r \in Ports /\ jobs'[<<r, k>>] = 0 /\ serving'[<<r, k>>] = 0
      BY <2>1, <2>h, <2>l, <1>p DEF TypeOK, LServing, HandlerIs, ListenerIs
    <3>3. pc'["admin"] = "listen" => failed'["admin"] \subseteq Unlistenable
      BY <2>1 DEF LServing, LFlags, LPlaces, At
    <3> QED BY <2>1, <1>u, <3>1, <3>2, <3>3 DEF LServing
  <2>5. LProvider'
    BY <2>1, <2>h, <2>l, <1>u, <1>p, NoneFresh
      DEF TypeOK, LPlaces, LBefore, LFlags, LProvider, At, TodoBut, HandlerIs, ListenerIs
  <2>6. LPlaces' /\ LBefore' /\ LFlags' /\ LChecks'
    BY <2>1, <1>u DEF LPlaces, LBefore, LFlags, LChecks, NoChecker, Alive
  <2>7. LEvents'
    BY <2>1 DEF LEvents
  <2> QED BY <2>2, <2>3, <2>4, <2>5, <2>6, <2>7
<1>18. ASSUME NEW p \in Ports, CancelPort("close", p) PROVE LInv'
  <2>1. /\ handler[<<p, gen>>] = "shut"
        /\ handler' = [handler EXCEPT ![<<p, gen>>] = "canceled"]
        /\ TodoBut("close")
        /\ UNCHANGED <<kind, opMu, ctxDone, paused, status, urlReady, ports, gen, jobs,
                       serving, checker, health, up, reader, queue, node, bridge, started,
                       listener, pc, failed>>
    BY <1>18, GotoAt, LoopTodo, Names
      DEF TypeOK, CancelPort, op, flags, handlers, checks, events, provider
  <2>h. HandlerIs(p, gen, "canceled")
    BY <2>1, <1>p DEF TypeOK, HandlerIs, Handlers
  <2>2. TypeOK'
    BY <2>1, <2>h, Names, <1>p DEF TypeOK, Statuses, AfterSetStatus, At, TodoBut, HandlerIs
  <2>3. LHandlers'
    BY <2>1, <2>h, <1>u, <1>p, NoneFresh
      DEF TypeOK, LPlaces, LBefore, LFlags, LHandlers, LServing, At, TodoBut, HandlerIs
  <2>4. LServing'
    <3>1. ASSUME NEW r \in Ports, NEW k \in Gens,
                 serving'[<<r, k>>] > 0, handler'[<<r, k>>] # "live"
          PROVE  listener'[r] # "open"
      <4>1. CASE r = p /\ k = gen
        BY <2>1, <2>h, <3>1, <4>1 DEF LServing, HandlerIs
      <4>2. CASE ~(r = p /\ k = gen)
        <5>1. serving[<<r, k>>] > 0 /\ handler[<<r, k>>] # "live"
          BY <2>1, <2>h, <3>1, <4>2 DEF HandlerIs
        <5>2. listener[r] # "open"
          BY <5>1 DEF LServing
        <5>3. listener'[r] = "open" => listener[r] = "open"
          BY <2>1, <2>h DEF HandlerIs
        <5> QED BY <5>2, <5>3
      <4> QED BY <4>1, <4>2
    <3>2. ASSUME NEW r \in Unlistenable, NEW k \in Gens
          PROVE  r \in Ports /\ jobs'[<<r, k>>] = 0 /\ serving'[<<r, k>>] = 0
      BY <2>1, <2>h, <1>p DEF TypeOK, LServing, HandlerIs
    <3>3. pc'["admin"] = "listen" => failed'["admin"] \subseteq Unlistenable
      BY <2>1 DEF LServing, LFlags, LPlaces, At
    <3> QED BY <2>1, <1>u, <3>1, <3>2, <3>3 DEF LServing
  <2>5. LPlaces' /\ LBefore' /\ LFlags' /\ LChecks' /\ LProvider'
    BY <2>1, <1>u DEF LPlaces, LBefore, LFlags, LChecks, LProvider, NoChecker, Alive
  <2>6. LEvents'
    BY <2>1 DEF LEvents
  <2> QED BY <2>2, <2>3, <2>4, <2>5, <2>6
<1>19. CASE Paused
  <2>1. /\ pc["admin"] = "shut" /\ todo["admin"] = {} /\ up' = "unknown" /\ status' = "Paused"
        /\ opMu' = None
        /\ At(pc["start"], "idle", pc["close"])
        /\ UNCHANGED <<kind, ctxDone, paused, urlReady, ports, gen, handler, jobs, serving,
                       checker, health, reader, queue, node, bridge, started, listener, todo,
                       failed>>
    BY <1>19, GotoAt, LoopTodo, Names
      DEF TypeOK, Paused, AfterSetStatus, op, flags, handlers, checks, events, provider
  <2>t1. up' \in {"unknown", "up", "down"}
    BY <2>1, Names, BoundsNat DEF TypeOK
  <2>t2. status' \in Statuses
    BY <2>1, Names, BoundsNat DEF TypeOK, Statuses, AfterSetStatus
  <2>t3. opMu' \in Procs \cup {None}
    BY <2>1, Names, BoundsNat DEF TypeOK
  <2>2. TypeOK'
    BY <2>1, <2>t1, <2>t2, <2>t3 DEF TypeOK, At, TodoBut
  <2>3. LPlaces'
    BY <2>1, <1>u, <1>p, NoneFresh DEF TypeOK, LPlaces, LBefore, LFlags, At, TodoBut
  <2>4. LBefore'
    BY <2>1, <1>u, <1>p, NoneFresh
      DEF TypeOK, LPlaces, LBefore, LFlags, AfterSetStatus, At, TodoBut
  <2>5. LFlags'
    BY <2>1, <1>u, <1>p, NoneFresh
      DEF TypeOK, LPlaces, LBefore, LFlags, AfterSetStatus, At, TodoBut
  <2>6. LChecks'
    BY <2>1, <1>u, <1>p, NoneFresh
      DEF TypeOK, LPlaces, LBefore, LFlags, LChecks, NoChecker, Alive, At, TodoBut
  <2>7. LHandlers'
    BY <2>1, <1>u, <1>p, NoneFresh
      DEF TypeOK, LPlaces, LBefore, LFlags, LHandlers, LServing, At, TodoBut
  <2>8. LServing'
    BY <2>1, ServingKept DEF LPlaces, At
  <2>9. LProvider'
    BY <2>1, <1>u, <1>p, NoneFresh
      DEF TypeOK, LPlaces, LBefore, LFlags, LProvider, At, TodoBut
  <2>10. LEvents'
    BY <2>1 DEF LEvents
  <2> QED BY <2>2, <2>3, <2>4, <2>5, <2>6, <2>7, <2>8, <2>9, <2>10
<1>20. CASE ResumeLock
  <2>1. /\ pc["admin"] = "idle" /\ opMu = None /\ paused /\ gen < MaxGen
        /\ opMu' = "admin" /\ paused' = FALSE
        /\ At(pc["start"], "init", pc["close"])
        /\ UNCHANGED <<kind, ctxDone, status, urlReady, ports, gen, handler, jobs, serving,
                       checker, health, up, reader, queue, node, bridge, started, listener,
                       todo, failed>>
    BY <1>20, GotoAt, LoopTodo, Names
      DEF TypeOK, ResumeLock, op, flags, handlers, checks, events, provider
  <2>t1. opMu' \in Procs \cup {None}
    BY <2>1, Names, BoundsNat DEF TypeOK
  <2>t2. paused' \in BOOLEAN
    BY <2>1, Names, BoundsNat DEF TypeOK
  <2>2. TypeOK'
    BY <2>1, <2>t1, <2>t2 DEF TypeOK, At, TodoBut
  <2>3. LPlaces'
    BY <2>1, <1>u, <1>p, NoneFresh DEF TypeOK, LPlaces, LBefore, LFlags, At, TodoBut
  <2>4. LBefore'
    BY <2>1, <1>u, <1>p, NoneFresh
      DEF TypeOK, LPlaces, LBefore, LFlags, AfterSetStatus, At, TodoBut
  <2>5. LFlags'
    BY <2>1, <1>u, <1>p, NoneFresh
      DEF TypeOK, LPlaces, LBefore, LFlags, AfterSetStatus, At, TodoBut
  <2>6. LChecks'
    BY <2>1, <1>u, <1>p, NoneFresh
      DEF TypeOK, LPlaces, LBefore, LFlags, LChecks, NoChecker, Alive, At, TodoBut
  <2>7. LHandlers'
    BY <2>1, <1>u, <1>p, NoneFresh
      DEF TypeOK, LPlaces, LBefore, LFlags, LHandlers, LServing, At, TodoBut
  <2>8. LServing'
    BY <2>1, ServingKept DEF LPlaces, At
  <2>9. LProvider'
    BY <2>1, <1>u, <1>p, NoneFresh
      DEF TypeOK, LPlaces, LBefore, LFlags, LProvider, At, TodoBut
  <2>10. LEvents'
    BY <2>1 DEF LEvents
  <2> QED BY <2>2, <2>3, <2>4, <2>5, <2>6, <2>7, <2>8, <2>9, <2>10
<1>21. CASE InitPorts
  <2>1. /\ pc["admin"] = "init" /\ gen' = gen + 1 /\ ports' = gen + 1
        /\ handler' \in [Handlers -> {"none", "live", "shut", "canceled"}]
        /\ \A r \in Ports, k \in Gens :
             handler'[<<r, k>>] = IF k = gen + 1 THEN "live" ELSE handler[<<r, k>>]
        /\ todo' \in [Procs -> SUBSET Ports]
        /\ failed' \in [Procs -> SUBSET Ports] /\ failed'["admin"] = {}
        /\ At(pc["start"], "listen", pc["close"])
        /\ UNCHANGED <<kind, opMu, ctxDone, paused, status, urlReady, jobs, serving, checker,
                       health, up, reader, queue, node, bridge, started, listener>>
    <3>1. /\ pc["admin"] = "init" /\ gen' = gen + 1 /\ ports' = gen + 1
          /\ handler' = [h \in Handlers |-> IF h[2] = gen + 1 THEN "live" ELSE handler[h]]
          /\ todo' = [todo EXCEPT !["admin"] = Ports] /\ failed' = [failed EXCEPT !["admin"] = {}]
          /\ Goto("admin", "listen")
          /\ UNCHANGED <<kind, opMu, ctxDone, paused, status, urlReady, jobs, serving, checker,
                         health, up, reader, queue, node, bridge, started, listener>>
      BY <1>21 DEF InitPorts, Loop, flags, checks, events, provider
    <3>2. /\ handler' \in [Handlers -> {"none", "live", "shut", "canceled"}]
          /\ \A r \in Ports, k \in Gens :
               handler'[<<r, k>>] = IF k = gen + 1 THEN "live" ELSE handler[<<r, k>>]
      BY <3>1, <1>p DEF TypeOK
    <3>3. /\ todo' \in [Procs -> SUBSET Ports]
          /\ failed' \in [Procs -> SUBSET Ports] /\ failed'["admin"] = {}
      BY <3>1 DEF TypeOK, Procs
    <3> QED BY <3>1, <3>2, <3>3, GotoAt, Names
  <2>t1. gen' \in Gens
    BY <2>1, Names, BoundsNat DEF TypeOK, LFlags, Gens
  <2>t2. ports' \in Gens \cup {0}
    BY <2>1, Names, BoundsNat DEF TypeOK, LFlags, Gens
  <2>t3. handler' \in [Handlers -> {"none", "live", "shut", "canceled"}]
    BY <2>1, Names, BoundsNat DEF TypeOK
  <2>t4. failed' \in [Procs -> SUBSET Ports]
    BY <2>1, Names, BoundsNat DEF TypeOK
  <2>2. TypeOK'
    BY <2>1, <2>t1, <2>t2, <2>t3, <2>t4 DEF TypeOK, At, TodoBut
  <2>3. LPlaces'
    BY <2>1, <1>u, <1>p, NoneFresh DEF TypeOK, LPlaces, LBefore, LFlags, At, TodoBut
  <2>4. LBefore'
    BY <2>1, <1>u, <1>p, NoneFresh
      DEF TypeOK, LPlaces, LBefore, LFlags, AfterSetStatus, At, TodoBut
  <2>5. LFlags'
    BY <2>1, <1>u, <1>p, NoneFresh
      DEF TypeOK, LPlaces, LBefore, LFlags, AfterSetStatus, At, TodoBut
  <2>6. LChecks'
    BY <2>1, <1>u, <1>p, NoneFresh
      DEF TypeOK, LPlaces, LBefore, LFlags, LChecks, NoChecker, Alive, At, TodoBut
  <2>7. LHandlers'
    BY <2>1, <1>u, <1>p, NoneFresh
      DEF TypeOK, LPlaces, LBefore, LFlags, LHandlers, LServing, At, TodoBut
  <2>8. LServing'
    <3>1. ASSUME NEW r \in Ports, NEW k \in Gens,
                 serving'[<<r, k>>] > 0, handler'[<<r, k>>] # "live"
          PROVE  listener'[r] # "open"
      BY <2>1, <3>1 DEF TypeOK, LServing, LBefore, LPlaces
    <3>2. ASSUME NEW r \in Unlistenable, NEW k \in Gens
          PROVE  r \in Ports /\ jobs'[<<r, k>>] = 0 /\ serving'[<<r, k>>] = 0
      BY <2>1, <1>p DEF TypeOK, LServing
    <3>3. pc'["admin"] = "listen" => failed'["admin"] \subseteq Unlistenable
      BY <2>1 DEF LServing, LFlags, LPlaces, At
    <3> QED BY <2>1, <1>u, <3>1, <3>2, <3>3 DEF LServing
  <2>9. LProvider'
    BY <2>1, <1>u, <1>p, NoneFresh
      DEF TypeOK, LPlaces, LBefore, LFlags, LProvider, At, TodoBut
  <2>10. LEvents'
    BY <2>1 DEF LEvents
  <2> QED BY <2>2, <2>3, <2>4, <2>5, <2>6, <2>7, <2>8, <2>9, <2>10
<1>22. CASE ResumeFails
  <2>1. /\ pc["admin"] = "listen" /\ failed["admin"] = Ports /\ paused' = TRUE /\ opMu' = None
        /\ At(pc["start"], "idle", pc["close"])
        /\ UNCHANGED <<kind, ctxDone, status, urlReady, ports, gen, handler, jobs, serving,
                       checker, health, up, reader, queue, node, bridge, started, listener,
                       todo, failed>>
    BY <1>22, GotoAt, LoopTodo, Names
      DEF TypeOK, ResumeFails, AllFailed, op, flags, handlers, checks, events, provider
  <2>2. TypeOK'
    BY <2>1, Names, <1>p DEF TypeOK, Statuses, AfterSetStatus, At, TodoBut
  <2>3. LPlaces'
    BY <2>1, <1>u, <1>p, NoneFresh DEF TypeOK, LPlaces, LBefore, LFlags, At, TodoBut
  <2>4. LBefore'
    BY <2>1, <1>u, <1>p, NoneFresh
      DEF TypeOK, LPlaces, LBefore, LFlags, AfterSetStatus, At, TodoBut
  <2>5. LFlags'
    BY <2>1, <1>u, <1>p, NoneFresh
      DEF TypeOK, LPlaces, LBefore, LFlags, AfterSetStatus, At, TodoBut
  <2>6. LChecks'
    BY <2>1, <1>u, <1>p, NoneFresh
      DEF TypeOK, LPlaces, LBefore, LFlags, LChecks, NoChecker, Alive, At, TodoBut
  <2>7. LHandlers'
    BY <2>1, <1>u, <1>p, NoneFresh
      DEF TypeOK, LPlaces, LBefore, LFlags, LHandlers, LServing, At, TodoBut
  <2>8. LServing'
    BY <2>1, ServingKept DEF LPlaces, At
  <2>9. LProvider'
    BY <2>1, <1>u, <1>p, NoneFresh
      DEF TypeOK, LPlaces, LBefore, LFlags, LProvider, At, TodoBut
  <2>10. LEvents'
    BY <2>1 DEF LEvents
  <2> QED BY <2>2, <2>3, <2>4, <2>5, <2>6, <2>7, <2>8, <2>9, <2>10
<1>23. CASE Resumed
  <2>1. /\ pc["admin"] = "listen" /\ checker' = [checker EXCEPT ![gen] = "running"] /\ health' = gen
        /\ up' = "unknown" /\ status' = AfterSetStatus("Running") /\ opMu' = None
        /\ At(pc["start"], "idle", pc["close"])
        /\ UNCHANGED <<kind, ctxDone, paused, urlReady, ports, gen, handler, jobs, serving,
                       reader, queue, node, bridge, started, listener, todo, failed>>
    BY <1>23, GotoAt, LoopTodo, Names
      DEF TypeOK, Resumed, op, flags, handlers, checks, events, provider
  <2>c. CheckerIs(gen, "running")
    BY <2>1, <1>p DEF TypeOK, CheckerIs, Handlers
  <2>t1. checker' \in [Gens -> {"none", "running", "canceled", "done"}]
    BY <2>1, <2>c, Names, BoundsNat DEF TypeOK, CheckerIs
  <2>t2. up' \in {"unknown", "up", "down"}
    BY <2>1, <2>c, Names, BoundsNat DEF TypeOK, CheckerIs
  <2>t3. status' \in Statuses
    BY <2>1, <2>c, Names, BoundsNat DEF TypeOK, Statuses, Reported, AfterSetStatus
  <2>t4. opMu' \in Procs \cup {None}
    BY <2>1, <2>c, Names, BoundsNat DEF TypeOK, CheckerIs
  <2>2. TypeOK'
    BY <2>1, <2>t1, <2>t2, <2>t3, <2>t4 DEF TypeOK, At, TodoBut
  <2>3. LPlaces'
    BY <2>1, <2>c, <1>u, <1>p, NoneFresh
      DEF TypeOK, LPlaces, LBefore, LFlags, At, TodoBut, CheckerIs
  <2>4. LBefore'
    BY <2>1, <2>c, <1>u, <1>p, NoneFresh
      DEF TypeOK, LPlaces, LBefore, LFlags, AfterSetStatus, At, TodoBut, CheckerIs
  <2>5. LFlags'
    BY <2>1, <2>c, <1>u, <1>p, NoneFresh
      DEF TypeOK, LPlaces, LBefore, LFlags, AfterSetStatus, At, TodoBut, CheckerIs
  <2>6. LChecks'
    BY <2>1, <2>c, <1>u, <1>p, NoneFresh
      DEF TypeOK, LPlaces, LBefore, LFlags, LChecks, NoChecker, Alive, At, TodoBut,
          CheckerIs
  <2>7. LHandlers'
    BY <2>1, <2>c, <1>u, <1>p, NoneFresh
      DEF TypeOK, LPlaces, LBefore, LFlags, LHandlers, LServing, At, TodoBut, CheckerIs
  <2>8. LServing'
    BY <2>1, ServingKept DEF LPlaces, At
  <2>9. LProvider'
    BY <2>1, <2>c, <1>u, <1>p, NoneFresh
      DEF TypeOK, LPlaces, LBefore, LFlags, LProvider, At, TodoBut, CheckerIs
  <2>10. LEvents'
    BY <2>1 DEF LEvents
  <2> QED BY <2>2, <2>3, <2>4, <2>5, <2>6, <2>7, <2>8, <2>9, <2>10
<1>24. CASE CancelCtx
  <2>1. /\ pc["close"] = "idle" /\ ctxDone' = TRUE
        /\ At(pc["start"], pc["admin"], "lock")
        /\ UNCHANGED <<kind, opMu, paused, status, urlReady, ports, gen, handler, jobs,
                       serving, checker, health, up, reader, queue, node, bridge, started,
                       listener, todo, failed>>
    BY <1>24, GotoAt, LoopTodo, Names
      DEF TypeOK, CancelCtx, op, flags, handlers, checks, events, provider
  <2>2. TypeOK'
    BY <2>1, Names, <1>p DEF TypeOK, Statuses, AfterSetStatus, At, TodoBut
  <2>3. LPlaces'
    BY <2>1, <1>u, <1>p, NoneFresh DEF TypeOK, LPlaces, LBefore, LFlags, At, TodoBut
  <2>4. LBefore'
    BY <2>1, <1>u, <1>p, NoneFresh
      DEF TypeOK, LPlaces, LBefore, LFlags, AfterSetStatus, At, TodoBut
  <2>5. LFlags'
    BY <2>1, <1>u, <1>p, NoneFresh
      DEF TypeOK, LPlaces, LBefore, LFlags, AfterSetStatus, At, TodoBut
  <2>6. LChecks'
    BY <2>1, <1>u, <1>p, NoneFresh
      DEF TypeOK, LPlaces, LBefore, LFlags, LChecks, NoChecker, Alive, At, TodoBut
  <2>7. LHandlers'
    BY <2>1, <1>u, <1>p, NoneFresh
      DEF TypeOK, LPlaces, LBefore, LFlags, LHandlers, LServing, At, TodoBut
  <2>8. LServing'
    BY <2>1, ServingKept DEF LPlaces, At
  <2>9. LProvider'
    BY <2>1, <1>u, <1>p, NoneFresh
      DEF TypeOK, LPlaces, LBefore, LFlags, LProvider, At, TodoBut
  <2>10. LEvents'
    BY <2>1 DEF LEvents
  <2> QED BY <2>2, <2>3, <2>4, <2>5, <2>6, <2>7, <2>8, <2>9, <2>10
<1>25. CASE CloseLock
  <2>1. /\ pc["close"] = "lock" /\ opMu = None /\ opMu' = "close" /\ paused' = FALSE
        /\ status' = "Stopping"
        /\ At(pc["start"], pc["admin"], "health")
        /\ UNCHANGED <<kind, ctxDone, urlReady, ports, gen, handler, jobs, serving, checker,
                       health, up, reader, queue, node, bridge, started, listener, todo,
                       failed>>
    BY <1>25, GotoAt, LoopTodo, Names
      DEF TypeOK, CloseLock, op, flags, handlers, checks, events, provider
  <2>t1. opMu' \in Procs \cup {None}
    BY <2>1, Names, BoundsNat DEF TypeOK
  <2>t2. paused' \in BOOLEAN
    BY <2>1, Names, BoundsNat DEF TypeOK
  <2>t3. status' \in Statuses
    BY <2>1, Names, BoundsNat DEF TypeOK, Statuses, AfterSetStatus
  <2>2. TypeOK'
    BY <2>1, <2>t1, <2>t2, <2>t3 DEF TypeOK, At, TodoBut
  <2>3. LPlaces'
    BY <2>1, <1>u, <1>p, NoneFresh DEF TypeOK, LPlaces, LBefore, LFlags, At, TodoBut
  <2>4. LBefore'
    BY <2>1, <1>u, <1>p, NoneFresh
      DEF TypeOK, LPlaces, LBefore, LFlags, AfterSetStatus, At, TodoBut
  <2>5. LFlags'
    BY <2>1, <1>u, <1>p, NoneFresh
      DEF TypeOK, LPlaces, LBefore, LFlags, AfterSetStatus, At, TodoBut
  <2>6. LChecks'
    BY <2>1, <1>u, <1>p, NoneFresh
      DEF TypeOK, LPlaces, LBefore, LFlags, LChecks, NoChecker, Alive, At, TodoBut
  <2>7. LHandlers'
    BY <2>1, <1>u, <1>p, NoneFresh
      DEF TypeOK, LPlaces, LBefore, LFlags, LHandlers, LServing, At, TodoBut
  <2>8. LServing'
    BY <2>1, ServingKept DEF LPlaces, At
  <2>9. LProvider'
    BY <2>1, <1>u, <1>p, NoneFresh
      DEF TypeOK, LPlaces, LBefore, LFlags, LProvider, At, TodoBut
  <2>10. LEvents'
    BY <2>1 DEF LEvents
  <2> QED BY <2>2, <2>3, <2>4, <2>5, <2>6, <2>7, <2>8, <2>9, <2>10
<1>26. CASE CloseProvider
  <2>1. /\ pc["close"] = "shut" /\ started' = FALSE
        /\ \/ started /\ listener' = [r \in Ports |-> "closed"] /\ node' = "closed"
           \/ ~started /\ UNCHANGED <<listener, node>>
        /\ At(pc["start"], pc["admin"], "drain")
        /\ UNCHANGED <<kind, opMu, ctxDone, paused, status, urlReady, ports, gen, handler,
                       jobs, serving, checker, health, up, reader, queue, bridge, todo,
                       failed>>
    BY <1>26, GotoAt, LoopTodo, Names
      DEF TypeOK, CloseProvider, op, flags, handlers, checks, events, provider
  <2>t1. listener' \in [Ports -> {"none", "open", "closed"}]
    BY <2>1, Names, BoundsNat DEF TypeOK
  <2>t2. node' \in Backends \cup {"off", "closed"}
    BY <2>1, Names, BoundsNat DEF TypeOK
  <2>t3. started' \in BOOLEAN
    BY <2>1, Names, BoundsNat DEF TypeOK
  <2>2. TypeOK'
    BY <2>1, <2>t1, <2>t2, <2>t3 DEF TypeOK, At, TodoBut
  <2>3. LPlaces'
    BY <2>1, <1>u, <1>p, NoneFresh DEF TypeOK, LPlaces, LBefore, LFlags, At, TodoBut
  <2>4. LBefore'
    BY <2>1, <1>u, <1>p, NoneFresh
      DEF TypeOK, LPlaces, LBefore, LFlags, AfterSetStatus, At, TodoBut
  <2>5. LFlags'
    BY <2>1, <1>u, <1>p, NoneFresh
      DEF TypeOK, LPlaces, LBefore, LFlags, AfterSetStatus, At, TodoBut
  <2>6. LChecks'
    BY <2>1, <1>u, <1>p, NoneFresh
      DEF TypeOK, LPlaces, LBefore, LFlags, LChecks, NoChecker, Alive, At, TodoBut
  <2>7. LHandlers'
    BY <2>1, <1>u, <1>p, NoneFresh
      DEF TypeOK, LPlaces, LBefore, LFlags, LHandlers, LServing, At, TodoBut
  <2>8. LServing'
    <3>1. ASSUME NEW r \in Ports, NEW k \in Gens,
                 serving'[<<r, k>>] > 0, handler'[<<r, k>>] # "live"
          PROVE  listener'[r] # "open"
      BY <2>1, <3>1 DEF TypeOK, LServing, LBefore, LPlaces
    <3>2. ASSUME NEW r \in Unlistenable, NEW k \in Gens
          PROVE  r \in Ports /\ jobs'[<<r, k>>] = 0 /\ serving'[<<r, k>>] = 0
      BY <2>1, <1>p DEF TypeOK, LServing
    <3>3. pc'["admin"] = "listen" => failed'["admin"] \subseteq Unlistenable
      BY <2>1 DEF LServing, LFlags, LPlaces, At
    <3> QED BY <2>1, <1>u, <3>1, <3>2, <3>3 DEF LServing
  <2>9. LProvider'
    BY <2>1, <1>u, <1>p, NoneFresh, Names
      DEF TypeOK, LPlaces, LBefore, LFlags, LProvider, At, TodoBut
  <2>10. LEvents'
    BY <2>1 DEF LEvents
  <2> QED BY <2>2, <2>3, <2>4, <2>5, <2>6, <2>7, <2>8, <2>9, <2>10
<1>27. CASE Closed
  <2>1. /\ pc["close"] = "drain" /\ reader # "reading" /\ opMu' = None
        /\ status' = AfterSetStatus("Stopped")
        /\ At(pc["start"], pc["admin"], "returned")
        /\ UNCHANGED <<kind, ctxDone, paused, urlReady, ports, gen, handler, jobs, serving,
                       checker, health, up, reader, queue, node, bridge, started, listener,
                       todo, failed>>
    BY <1>27, GotoAt, LoopTodo, Names
      DEF TypeOK, Closed, op, flags, handlers, checks, events, provider
  <2>t1. status' \in Statuses
    BY <2>1, Names, BoundsNat DEF TypeOK, Statuses, Reported, AfterSetStatus
  <2>t2. opMu' \in Procs \cup {None}
    BY <2>1, Names, BoundsNat DEF TypeOK
  <2>2. TypeOK'
    BY <2>1, <2>t1, <2>t2 DEF TypeOK, At, TodoBut
  <2>3. LPlaces'
    BY <2>1, <1>u, <1>p, NoneFresh DEF TypeOK, LPlaces, LBefore, LFlags, At, TodoBut
  <2>4. LBefore'
    BY <2>1, <1>u, <1>p, NoneFresh
      DEF TypeOK, LPlaces, LBefore, LFlags, AfterSetStatus, At, TodoBut
  <2>5. LFlags'
    BY <2>1, <1>u, <1>p, NoneFresh
      DEF TypeOK, LPlaces, LBefore, LFlags, AfterSetStatus, At, TodoBut
  <2>6. LChecks'
    BY <2>1, <1>u, <1>p, NoneFresh
      DEF TypeOK, LPlaces, LBefore, LFlags, LChecks, NoChecker, Alive, At, TodoBut
  <2>7. LHandlers'
    BY <2>1, <1>u, <1>p, NoneFresh
      DEF TypeOK, LPlaces, LBefore, LFlags, LHandlers, LServing, At, TodoBut
  <2>8. LServing'
    BY <2>1, ServingKept DEF LPlaces, At
  <2>9. LProvider'
    BY <2>1, <1>u, <1>p, NoneFresh
      DEF TypeOK, LPlaces, LBefore, LFlags, LProvider, At, TodoBut
  <2>10. LEvents'
    BY <2>1 DEF LEvents
  <2> QED BY <2>2, <2>3, <2>4, <2>5, <2>6, <2>7, <2>8, <2>9, <2>10
<1>28. ASSUME NEW p \in Ports, NEW g \in Gens, ServeRefused(<<p, g>>) PROVE LInv'
  <2>1. /\ jobs[<<p, g>>] > 0 /\ jobs' = [jobs EXCEPT ![<<p, g>>] = @ - 1]
        /\ listener' = [listener EXCEPT ![p] = "closed"] /\ status' = AfterSetStatus("Error")
        /\ UNCHANGED <<kind, opMu, ctxDone, paused, urlReady, ports, gen, handler, serving,
                       checker, health, up, reader, queue, node, bridge, started, pc, todo,
                       failed>>
    BY <1>28, GotoAt, LoopTodo, Names
      DEF TypeOK, ServeRefused, op, flags, handlers, checks, events, provider
  <2>j. JobsIs(p, g, jobs[<<p, g>>] - 1)
    BY <2>1, <1>p, SMTT(30) DEF TypeOK, JobsIs, Handlers
  <2>l. ListenerIs(p, "closed")
    BY <2>1, <1>p DEF TypeOK, ListenerIs, Handlers
  <2>t1. jobs' \in [Handlers -> Nat]
    BY <2>1, <2>j, <2>l, Names, BoundsNat DEF TypeOK, JobsIs, ListenerIs
  <2>t2. listener' \in [Ports -> {"none", "open", "closed"}]
    BY <2>1, <2>j, <2>l, Names, BoundsNat DEF TypeOK, JobsIs, ListenerIs
  <2>t3. status' \in Statuses
    BY <2>1, <2>j, <2>l, Names, BoundsNat DEF TypeOK, Statuses, Reported, AfterSetStatus
  <2>2. TypeOK'
    BY <2>1, <2>t1, <2>t2, <2>t3 DEF TypeOK, At, TodoBut
  <2>3. LBefore'
    BY <2>1, <2>j, <2>l, <1>u, <1>p, NoneFresh
      DEF TypeOK, LPlaces, LBefore, LFlags, AfterSetStatus, At, TodoBut, JobsIs, ListenerIs
  <2>4. LFlags'
    BY <2>1, <2>j, <2>l, <1>u, <1>p, NoneFresh
      DEF TypeOK, LPlaces, LBefore, LFlags, AfterSetStatus, At, TodoBut, JobsIs, ListenerIs
  <2>5. LServing'
    <3>1. ASSUME NEW r \in Ports, NEW k \in Gens,
                 serving'[<<r, k>>] > 0, handler'[<<r, k>>] # "live"
          PROVE  listener'[r] # "open"
      BY <2>1, <2>j, <2>l, <3>1 DEF TypeOK, LServing, LBefore, LPlaces, JobsIs, ListenerIs
    <3>2. ASSUME NEW r \in Unlistenable, NEW k \in Gens
          PROVE  r \in Ports /\ jobs'[<<r, k>>] = 0 /\ serving'[<<r, k>>] = 0
      BY <2>1, <2>j, <2>l, <1>p DEF TypeOK, LServing, JobsIs, ListenerIs
    <3>3. pc'["admin"] = "listen" => failed'["admin"] \subseteq Unlistenable
      BY <2>1 DEF LServing, LFlags, LPlaces, At
    <3> QED BY <2>1, <1>u, <3>1, <3>2, <3>3 DEF LServing
  <2>6. LProvider'
    BY <2>1, <2>j, <2>l, <1>u, <1>p, NoneFresh
      DEF TypeOK, LPlaces, LBefore, LFlags, LProvider, At, TodoBut, JobsIs, ListenerIs
  <2>7. LPlaces' /\ LChecks' /\ LHandlers'
    BY <2>1, <1>u DEF LPlaces, LChecks, LHandlers, NoChecker, Alive
  <2>8. LEvents'
    BY <2>1 DEF LEvents
  <2> QED BY <2>2, <2>3, <2>4, <2>5, <2>6, <2>7, <2>8
<1>29. ASSUME NEW p \in Ports, NEW g \in Gens, ServeEndsAtOnce(<<p, g>>) PROVE LInv'
  <2>1. /\ jobs[<<p, g>>] > 0 /\ jobs' = [jobs EXCEPT ![<<p, g>>] = @ - 1]
        /\ listener' = [listener EXCEPT ![p] = "closed"]
        /\ UNCHANGED <<kind, opMu, ctxDone, paused, status, urlReady, ports, gen, handler,
                       serving, checker, health, up, reader, queue, node, bridge, started,
                       pc, todo, failed>>
    BY <1>29, GotoAt, LoopTodo, Names
      DEF TypeOK, ServeEndsAtOnce, op, flags, handlers, checks, events, provider
  <2>j. JobsIs(p, g, jobs[<<p, g>>] - 1)
    BY <2>1, <1>p DEF TypeOK, JobsIs, Handlers
  <2>l. ListenerIs(p, "closed")
    BY <2>1, <1>p DEF TypeOK, ListenerIs, Handlers
  <2>t1. jobs' \in [Handlers -> Nat]
    BY <2>1, <2>j, <2>l, Names, BoundsNat DEF TypeOK, JobsIs, ListenerIs
  <2>t2. listener' \in [Ports -> {"none", "open", "closed"}]
    BY <2>1, <2>j, <2>l, Names, BoundsNat DEF TypeOK, JobsIs, ListenerIs
  <2>2. TypeOK'
    BY <2>1, <2>t1, <2>t2 DEF TypeOK, At, TodoBut
  <2>3. LBefore'
    BY <2>1, <2>j, <2>l, <1>u, <1>p, NoneFresh
      DEF TypeOK, LPlaces, LBefore, LFlags, AfterSetStatus, At, TodoBut, JobsIs, ListenerIs
  <2>4. LServing'
    <3>1. ASSUME NEW r \in Ports, NEW k \in Gens,
                 serving'[<<r, k>>] > 0, handler'[<<r, k>>] # "live"
          PROVE  listener'[r] # "open"
      BY <2>1, <2>j, <2>l, <3>1 DEF TypeOK, LServing, LBefore, LPlaces, JobsIs, ListenerIs
    <3>2. ASSUME NEW r \in Unlistenable, NEW k \in Gens
          PROVE  r \in Ports /\ jobs'[<<r, k>>] = 0 /\ serving'[<<r, k>>] = 0
      BY <2>1, <2>j, <2>l, <1>p DEF TypeOK, LServing, JobsIs, ListenerIs
    <3>3. pc'["admin"] = "listen" => failed'["admin"] \subseteq Unlistenable
      BY <2>1 DEF LServing, LFlags, LPlaces, At
    <3> QED BY <2>1, <1>u, <3>1, <3>2, <3>3 DEF LServing
  <2>5. LProvider'
    BY <2>1, <2>j, <2>l, <1>u, <1>p, NoneFresh
      DEF TypeOK, LPlaces, LBefore, LFlags, LProvider, At, TodoBut, JobsIs, ListenerIs
  <2>6. LPlaces' /\ LFlags' /\ LChecks' /\ LHandlers'
    BY <2>1, <1>u DEF LPlaces, LFlags, LChecks, LHandlers, NoChecker, Alive
  <2>7. LEvents'
    BY <2>1 DEF LEvents
  <2> QED BY <2>2, <2>3, <2>4, <2>5, <2>6, <2>7
<1>30. ASSUME NEW p \in Ports, NEW g \in Gens, Serve(<<p, g>>) PROVE LInv'
  <2>1. /\ jobs[<<p, g>>] > 0 /\ handler[<<p, g>>] = "live"
        /\ jobs' = [jobs EXCEPT ![<<p, g>>] = @ - 1]
        /\ serving' = [serving EXCEPT ![<<p, g>>] = @ + 1]
        /\ UNCHANGED <<kind, opMu, ctxDone, paused, status, urlReady, ports, gen, handler,
                       checker, health, up, reader, queue, node, bridge, started, listener,
                       pc, todo, failed>>
    BY <1>30, GotoAt, LoopTodo, Names
      DEF TypeOK, Serve, op, flags, handlers, checks, events, provider
  <2>j. JobsIs(p, g, jobs[<<p, g>>] - 1)
    BY <2>1, <1>p, SMTT(30) DEF TypeOK, JobsIs, Handlers
  <2>s. ServingIs(p, g, serving[<<p, g>>] + 1)
    BY <2>1, <1>p, SMTT(30) DEF TypeOK, ServingIs, Handlers
  <2>t1. jobs' \in [Handlers -> Nat]
    BY <2>1, <2>j, <2>s, Names, BoundsNat DEF TypeOK, JobsIs, ServingIs
  <2>t2. serving' \in [Handlers -> Nat]
    BY <2>1, <2>j, <2>s, Names, BoundsNat DEF TypeOK, JobsIs, ServingIs
  <2>2. TypeOK'
    BY <2>1, <2>t1, <2>t2 DEF TypeOK, At, TodoBut
  <2>3. LBefore'
    BY <2>1, <2>j, <2>s, <1>u, <1>p, NoneFresh
      DEF TypeOK, LPlaces, LBefore, LFlags, AfterSetStatus, At, TodoBut, JobsIs, ServingIs
  <2>4. LServing'
    <3>1. ASSUME NEW r \in Ports, NEW k \in Gens,
                 serving'[<<r, k>>] > 0, handler'[<<r, k>>] # "live"
          PROVE  listener'[r] # "open"
      <4>1. CASE r = p /\ k = g
        BY <2>1, <2>j, <2>s, <3>1, <4>1 DEF LServing, JobsIs, ServingIs
      <4>2. CASE ~(r = p /\ k = g)
        <5>1. serving[<<r, k>>] > 0 /\ handler[<<r, k>>] # "live"
          BY <2>1, <2>j, <2>s, <3>1, <4>2 DEF JobsIs, ServingIs
        <5>2. listener[r] # "open"
          BY <5>1 DEF LServing
        <5>3. listener'[r] = "open" => listener[r] = "open"
          BY <2>1, <2>j, <2>s DEF JobsIs, ServingIs
        <5> QED BY <5>2, <5>3
      <4> QED BY <4>1, <4>2
    <3>2. ASSUME NEW r \in Unlistenable, NEW k \in Gens
          PROVE  r \in Ports /\ jobs'[<<r, k>>] = 0 /\ serving'[<<r, k>>] = 0
      BY <2>1, <2>j, <2>s, <1>p DEF TypeOK, LServing, JobsIs, ServingIs
    <3>3. pc'["admin"] = "listen" => failed'["admin"] \subseteq Unlistenable
      BY <2>1 DEF LServing, LFlags, LPlaces, At
    <3> QED BY <2>1, <1>u, <3>1, <3>2, <3>3 DEF LServing
  <2>5. LPlaces' /\ LFlags' /\ LChecks' /\ LHandlers' /\ LProvider'
    BY <2>1, <1>u DEF LPlaces, LFlags, LChecks, LHandlers, LProvider, NoChecker, Alive
  <2>6. LEvents'
    BY <2>1 DEF LEvents
  <2> QED BY <2>2, <2>3, <2>4, <2>5, <2>6
<1>31. ASSUME NEW p \in Ports, NEW g \in Gens, ServeEnds(<<p, g>>) PROVE LInv'
  <2>1. /\ serving[<<p, g>>] > 0 /\ serving' = [serving EXCEPT ![<<p, g>>] = @ - 1]
        /\ status' = status \/ status' = AfterSetStatus("Error")
        /\ listener' \in [Ports -> {"none", "open", "closed"}]
        /\ \A r \in Ports : listener'[r] = "open" => listener[r] = "open"
        /\ UNCHANGED <<kind, opMu, ctxDone, paused, urlReady, ports, gen, handler, jobs,
                       checker, health, up, reader, queue, node, bridge, started, pc, todo,
                       failed>>
    <3>1. /\ serving[<<p, g>>] > 0 /\ serving' = [serving EXCEPT ![<<p, g>>] = @ - 1]
          /\ UNCHANGED <<kind, opMu, ctxDone, paused, urlReady, ports, gen, handler, jobs,
                         checker, health, up, reader, queue, node, bridge, started, pc, todo,
                         failed>>
      BY <1>31 DEF ServeEnds, checks, events, op
    <3>2. /\ status' = status \/ status' = AfterSetStatus("Error")
          /\ listener' = listener \/ listener' = [listener EXCEPT ![p] = "closed"]
      BY <1>31, <1>p DEF ServeEnds
    <3>3. /\ listener' \in [Ports -> {"none", "open", "closed"}]
          /\ \A r \in Ports : listener'[r] = "open" => listener[r] = "open"
      BY <3>2 DEF TypeOK
    <3> QED BY <3>1, <3>2, <3>3
  <2>s. ServingIs(p, g, serving[<<p, g>>] - 1)
    BY <2>1, <1>p DEF TypeOK, ServingIs, Handlers
  <2>t1. serving' \in [Handlers -> Nat]
    BY <2>1, <2>s, Names, BoundsNat DEF TypeOK, ServingIs
  <2>t2. listener' \in [Ports -> {"none", "open", "closed"}]
    BY <2>1, <2>s, Names, BoundsNat DEF TypeOK, ServingIs
  <2>t3. status' \in Statuses
    BY <2>1, <2>s, Names, BoundsNat DEF TypeOK, Statuses, Reported, AfterSetStatus
  <2>2. TypeOK'
    BY <2>1, <2>t1, <2>t2, <2>t3 DEF TypeOK, At, TodoBut
  <2>3. LBefore'
    BY <2>1, <2>s, <1>u, <1>p, NoneFresh
      DEF TypeOK, LPlaces, LBefore, LFlags, AfterSetStatus, At, TodoBut, ServingIs
  <2>4. LFlags'
    BY <2>1, <2>s, <1>u, <1>p, NoneFresh
      DEF TypeOK, LPlaces, LBefore, LFlags, AfterSetStatus, At, TodoBut, ServingIs
  <2>5. LServing'
    <3>1. ASSUME NEW r \in Ports, NEW k \in Gens,
                 serving'[<<r, k>>] > 0, handler'[<<r, k>>] # "live"
          PROVE  listener'[r] # "open"
      <4>1. CASE r = p /\ k = g
        BY <2>1, <2>s, <3>1, <4>1 DEF LServing, ServingIs
      <4>2. CASE ~(r = p /\ k = g)
        <5>1. serving[<<r, k>>] > 0 /\ handler[<<r, k>>] # "live"
          BY <2>1, <2>s, <3>1, <4>2 DEF ServingIs
        <5>2. listener[r] # "open"
          BY <5>1 DEF LServing
        <5>3. listener'[r] = "open" => listener[r] = "open"
          BY <2>1, <2>s DEF ServingIs
        <5> QED BY <5>2, <5>3
      <4> QED BY <4>1, <4>2
    <3>2. ASSUME NEW r \in Unlistenable, NEW k \in Gens
          PROVE  r \in Ports /\ jobs'[<<r, k>>] = 0 /\ serving'[<<r, k>>] = 0
      BY <2>1, <2>s, <1>p DEF TypeOK, LServing, ServingIs
    <3>3. pc'["admin"] = "listen" => failed'["admin"] \subseteq Unlistenable
      BY <2>1 DEF LServing, LFlags, LPlaces, At
    <3> QED BY <2>1, <1>u, <3>1, <3>2, <3>3 DEF LServing
  <2>6. LProvider'
    BY <2>1, <2>s, <1>u, <1>p, NoneFresh
      DEF TypeOK, LPlaces, LBefore, LFlags, LProvider, At, TodoBut, ServingIs
  <2>7. LPlaces' /\ LChecks' /\ LHandlers'
    BY <2>1, <1>u DEF LPlaces, LChecks, LHandlers, NoChecker, Alive
  <2>8. LEvents'
    BY <2>1 DEF LEvents
  <2> QED BY <2>2, <2>3, <2>4, <2>5, <2>6, <2>7, <2>8
<1>32. ASSUME NEW p \in Ports, NEW g \in Gens, ContextClosesListener(<<p, g>>) PROVE LInv'
  <2>1. /\ listener' = [listener EXCEPT ![p] = "closed"]
        /\ UNCHANGED <<kind, opMu, ctxDone, paused, status, urlReady, ports, gen, handler,
                       jobs, serving, checker, health, up, reader, queue, node, bridge,
                       started, pc, todo, failed>>
    BY <1>32, GotoAt, LoopTodo, Names
      DEF TypeOK, ContextClosesListener, op, flags, handlers, checks, events, provider
  <2>l. ListenerIs(p, "closed")
    BY <2>1, <1>p DEF TypeOK, ListenerIs, Handlers
  <2>2. TypeOK'
    BY <2>1, <2>l, Names, <1>p DEF TypeOK, Statuses, AfterSetStatus, At, TodoBut, ListenerIs
  <2>3. LServing'
    <3>1. ASSUME NEW r \in Ports, NEW k \in Gens,
                 serving'[<<r, k>>] > 0, handler'[<<r, k>>] # "live"
          PROVE  listener'[r] # "open"
      BY <2>1, <2>l, <3>1 DEF TypeOK, LServing, LBefore, LPlaces, ListenerIs
    <3>2. ASSUME NEW r \in Unlistenable, NEW k \in Gens
          PROVE  r \in Ports /\ jobs'[<<r, k>>] = 0 /\ serving'[<<r, k>>] = 0
      BY <2>1, <2>l, <1>p DEF TypeOK, LServing, ListenerIs
    <3>3. pc'["admin"] = "listen" => failed'["admin"] \subseteq Unlistenable
      BY <2>1 DEF LServing, LFlags, LPlaces, At
    <3> QED BY <2>1, <1>u, <3>1, <3>2, <3>3 DEF LServing
  <2>4. LProvider'
    BY <2>1, <2>l, <1>u, <1>p, NoneFresh
      DEF TypeOK, LPlaces, LBefore, LFlags, LProvider, At, TodoBut, ListenerIs
  <2>5. LPlaces' /\ LBefore' /\ LFlags' /\ LChecks' /\ LHandlers'
    BY <2>1, <1>u DEF LPlaces, LBefore, LFlags, LChecks, LHandlers, NoChecker, Alive
  <2>6. LEvents'
    BY <2>1 DEF LEvents
  <2> QED BY <2>2, <2>3, <2>4, <2>5, <2>6
<1>33. ASSUME NEW g \in Gens, Check(g) PROVE LInv'
  <2>1. /\ Alive(g) /\ up' \in {"up", "down"}
        /\ UNCHANGED <<kind, opMu, ctxDone, paused, status, urlReady, ports, gen, handler,
                       jobs, serving, checker, health, reader, queue, node, bridge, started,
                       listener, pc, todo, failed>>
    BY <1>33, GotoAt, LoopTodo, Names
      DEF TypeOK, Check, Alive, op, flags, handlers, checks, events, provider
  <2>2. TypeOK'
    BY <2>1, Names, <1>p DEF TypeOK, Statuses, AfterSetStatus, At, TodoBut
  <2>3. LChecks'
    BY <2>1, <1>u, <1>p, NoneFresh
      DEF TypeOK, LPlaces, LBefore, LFlags, LChecks, NoChecker, Alive, At, TodoBut
  <2>4. LPlaces' /\ LBefore' /\ LFlags' /\ LHandlers' /\ LServing' /\ LProvider'
    BY <2>1, <1>u DEF LPlaces, LBefore, LFlags, LHandlers, LServing, LProvider
  <2>5. LEvents'
    BY <2>1 DEF LEvents
  <2> QED BY <2>2, <2>3, <2>4, <2>5
<1>34. ASSUME NEW g \in Gens, CheckerEnds(g) PROVE LInv'
  <2>1. /\ checker[g] = "canceled" /\ checker' = [checker EXCEPT ![g] = "done"]
        /\ UNCHANGED <<kind, opMu, ctxDone, paused, status, urlReady, ports, gen, handler,
                       jobs, serving, health, up, reader, queue, node, bridge, started,
                       listener, pc, todo, failed>>
    BY <1>34, GotoAt, LoopTodo, Names
      DEF TypeOK, CheckerEnds, op, flags, handlers, checks, events, provider
  <2>c. CheckerIs(g, "done")
    BY <2>1, <1>p DEF TypeOK, CheckerIs, Handlers
  <2>2. TypeOK'
    BY <2>1, <2>c, Names, <1>p DEF TypeOK, Statuses, AfterSetStatus, At, TodoBut, CheckerIs
  <2>3. LBefore'
    BY <2>1, <2>c, <1>u, <1>p, NoneFresh
      DEF TypeOK, LPlaces, LBefore, LFlags, AfterSetStatus, At, TodoBut, CheckerIs
  <2>4. LChecks'
    BY <2>1, <2>c, <1>u, <1>p, NoneFresh
      DEF TypeOK, LPlaces, LBefore, LFlags, LChecks, NoChecker, Alive, At, TodoBut,
          CheckerIs
  <2>5. LPlaces' /\ LFlags' /\ LHandlers' /\ LServing' /\ LProvider'
    BY <2>1, <1>u DEF LPlaces, LFlags, LHandlers, LServing, LProvider
  <2>6. LEvents'
    BY <2>1 DEF LEvents
  <2> QED BY <2>2, <2>3, <2>4, <2>5, <2>6
<1>35. CASE NodeChanges
  <2>1. /\ node \in Backends /\ node' \in Backends
        /\ UNCHANGED <<kind, opMu, ctxDone, paused, status, urlReady, ports, gen, handler,
                       jobs, serving, checker, health, up, reader, queue, bridge, started,
                       listener, pc, todo, failed>>
    BY <1>35, GotoAt, LoopTodo, Names
      DEF TypeOK, NodeChanges, op, flags, handlers, checks, events, provider
  <2>2. TypeOK'
    BY <2>1, Names, <1>p DEF TypeOK, Statuses, AfterSetStatus, At, TodoBut
  <2>3. LProvider'
    BY <2>1, <1>u, <1>p, NoneFresh
      DEF TypeOK, LPlaces, LBefore, LFlags, LProvider, At, TodoBut
  <2>4. LPlaces' /\ LBefore' /\ LFlags' /\ LChecks' /\ LHandlers' /\ LServing'
    BY <2>1, <1>u
      DEF LPlaces, LBefore, LFlags, LChecks, LHandlers, LServing, NoChecker, Alive
  <2>5. LEvents'
    BY <2>1 DEF LEvents
  <2> QED BY <2>2, <2>3, <2>4, <2>5
<1>36. CASE BridgeEvents
  <2>1. /\ bridge' \in [status : Statuses, url : BOOLEAN, auth : BOOLEAN, lost : BOOLEAN]
        /\ queue' \in Seq(Statuses) /\ LEvents'
        /\ UNCHANGED <<kind, opMu, ctxDone, paused, status, urlReady, ports, gen, handler,
                       jobs, serving, checker, health, up, reader, node, started, listener,
                       pc, todo, failed>>
    <3>1. node \in Reported
      BY <1>36, BackendsType DEF BridgeEvents
    <3>2. queue' \in {queue, Append(queue, node)}
      BY <1>36 DEF BridgeEvents, Forward
    <3>3. LEvents'
      BY <3>1, <3>2, AppendProperties DEF LEvents
    <3>4. queue' \in Seq(Statuses)
      <4>1. queue \in Seq(Statuses) /\ node \in Statuses
        BY <3>1 DEF TypeOK, Statuses
      <4> QED BY <4>1, <3>2, AppendProperties
    <3>5. bridge' \in [status : Statuses, url : BOOLEAN, auth : BOOLEAN, lost : BOOLEAN]
      BY <3>1, <1>36 DEF BridgeEvents, Forward, HasURL, HasAuthURL, TypeOK, Statuses
    <3> QED BY <1>36, <3>3, <3>4, <3>5 DEF BridgeEvents, Forward, flags, handlers, checks, op
  <2>2. TypeOK'
    BY <2>1, Names, <1>p DEF TypeOK, Statuses, AfterSetStatus, At, TodoBut
  <2>3. LPlaces' /\ LBefore' /\ LFlags' /\ LChecks' /\ LHandlers' /\ LServing' /\ LProvider'
    BY <2>1, <1>u
      DEF LPlaces, LBefore, LFlags, LChecks, LHandlers, LServing, LProvider, NoChecker,
          Alive
  <2> QED BY <2>2, <2>3, <2>1
<1>37. CASE ReadEvent
  <2>1. /\ reader = "reading" /\ urlReady' \in BOOLEAN /\ queue' \in Seq(Statuses) /\ LEvents'
        /\ \E e \in Reported : status' = AfterSetStatus(e)
        /\ UNCHANGED <<kind, opMu, ctxDone, paused, ports, gen, handler, jobs, serving,
                       checker, health, up, reader, node, bridge, started, listener, pc,
                       todo, failed>>
    <3>1. reader = "reading" /\ queue # <<>> /\ queue' = Tail(queue)
      BY <1>37 DEF ReadEvent
    <3>2. Head(queue) \in Reported /\ LEvents'
      BY <3>1, HeadTailProperties DEF LEvents
    <3>3. queue' \in Seq(Statuses)
      BY <3>1, HeadTailProperties DEF TypeOK
    <3>4. urlReady' \in BOOLEAN
      BY <1>37 DEF ReadEvent
    <3> QED BY <1>37, <3>1, <3>2, <3>3, <3>4 DEF ReadEvent, handlers, checks, provider, op
  <2>2. TypeOK'
    BY <2>1, Names, <1>p DEF TypeOK, Statuses, AfterSetStatus, At, TodoBut
  <2>3. LBefore'
    BY <2>1, <1>u, <1>p, NoneFresh
      DEF TypeOK, LPlaces, LBefore, LFlags, AfterSetStatus, At, TodoBut
  <2>4. LFlags'
    BY <2>1, <1>u, <1>p, NoneFresh
      DEF TypeOK, LPlaces, LBefore, LFlags, AfterSetStatus, Reported, At, TodoBut
  <2>5. LPlaces' /\ LChecks' /\ LHandlers' /\ LServing' /\ LProvider'
    BY <2>1, <1>u DEF LPlaces, LChecks, LHandlers, LServing, LProvider, NoChecker, Alive
  <2> QED BY <2>2, <2>3, <2>4, <2>5, <2>1
<1>38. CASE ReaderLeaves
  <2>1. /\ reader = "reading" /\ reader' = "done"
        /\ UNCHANGED <<kind, opMu, ctxDone, paused, status, urlReady, ports, gen, handler,
                       jobs, serving, checker, health, up, queue, node, bridge, started,
                       listener, pc, todo, failed>>
    BY <1>38, GotoAt, LoopTodo, Names
      DEF TypeOK, ReaderLeaves, op, flags, handlers, checks, events, provider
  <2>2. TypeOK'
    BY <2>1, Names, <1>p DEF TypeOK, Statuses, AfterSetStatus, At, TodoBut
  <2>3. LBefore'
    BY <2>1, <1>u, <1>p, NoneFresh
      DEF TypeOK, LPlaces, LBefore, LFlags, AfterSetStatus, At, TodoBut
  <2>4. LFlags'
    BY <2>1, <1>u, <1>p, NoneFresh
      DEF TypeOK, LPlaces, LBefore, LFlags, AfterSetStatus, At, TodoBut
  <2>5. LPlaces' /\ LChecks' /\ LHandlers' /\ LServing' /\ LProvider'
    BY <2>1, <1>u DEF LPlaces, LChecks, LHandlers, LServing, LProvider, NoChecker, Alive
  <2>6. LEvents'
    BY <2>1 DEF LEvents
  <2> QED BY <2>2, <2>3, <2>4, <2>5, <2>6
<1>39. CASE UNCHANGED vars
  BY <1>39, <1>u
    DEF vars, op, flags, handlers, checks, events, provider, TypeOK, LEvents, LPlaces,
                 LBefore, LFlags, LChecks, LHandlers, LServing, LProvider, NoChecker, Alive
<1>a. ASSUME Step("admin") PROVE LInv'
  BY <1>a, <1>9, <1>10, <1>11, <1>12, <1>13, <1>6 DEF Step
<1>c. ASSUME Step("close") PROVE LInv'
  <2>1. pc["close"] # "listen"
    BY DEF LPlaces
  <2> QED BY <1>c, <2>1, <1>14, <1>15, <1>16, <1>17, <1>18 DEF Step, StartPort
<1>s. ASSUME Step("start") PROVE LInv'
  <2>1. pc["start"] \notin {"health", "wait", "ports", "shut"}
    BY DEF LPlaces
  <2> QED BY <1>s, <2>1, <1>5
      DEF Step, StopHealthChecker, HealthCheckerStopped, ClosePorts, ShutPort, CancelPort
<1>h. ASSUME NEW h \in Handlers, PortStep(h) PROVE LInv'
  <2>1. h[1] \in Ports /\ h[2] \in Gens /\ PortStep(<<h[1], h[2]>>)
    BY <1>h, <1>p
  <2> QED BY <2>1, <1>28, <1>29, <1>30, <1>31, <1>32 DEF PortStep
<1>q. ASSUME NEW q \in Procs, Step(q) PROVE LInv'
  BY <1>a, <1>c, <1>s, <1>q DEF Procs
<1> QED BY <1>h, <1>q, <1>1, <1>2, <1>3, <1>4, <1>7, <1>8, <1>19, <1>20, <1>21, <1>22,
           <1>23, <1>24, <1>25, <1>26, <1>27, <1>33, <1>34, <1>35, <1>36, <1>37, <1>38,
           <1>39
        DEF Next, Start, Admin, Close

\* The invariant holds of a proxy that NewProxy has just made.
LEMMA LInitInv == Init => LInv
<1> SUFFICES ASSUME Init PROVE LInv
  OBVIOUS
<1>p. /\ 1 \in Gens /\ Gens \subseteq Nat
      /\ \A p \in Ports, g \in Gens : <<p, g>> \in Handlers /\ <<p, g>>[1] = p /\ <<p, g>>[2] = g
      /\ \A h \in Handlers : h[2] \in Gens
  BY BoundsNat DEF Gens, Handlers
<1>1. kind \in [Ports -> Kinds]
  BY ConfigsType DEF Init
<1>2. /\ handler \in [Handlers -> {"none", "live", "shut", "canceled"}]
      /\ jobs \in [Handlers -> Nat] /\ serving \in [Handlers -> Nat]
      /\ checker \in [Gens -> {"none", "running", "canceled", "done"}]
      /\ listener \in [Ports -> {"none", "open", "closed"}]
  BY <1>p DEF Init
<1>3. /\ pc \in [Procs -> PCs]
      /\ todo \in [Procs -> SUBSET Ports] /\ failed \in [Procs -> SUBSET Ports]
  BY DEF Init, PCs
<1>4. queue \in Seq(Statuses) /\ LEvents
  BY DEF Init, LEvents
<1>5. bridge \in [status : Statuses, url : BOOLEAN, auth : BOOLEAN, lost : BOOLEAN]
  BY DEF Init, Statuses
<1>6. TypeOK
  BY <1>p, <1>1, <1>2, <1>3, <1>4, <1>5 DEF Init, TypeOK, Statuses
<1>7. LPlaces /\ LFlags
  BY NoneFresh DEF Init, LPlaces, LFlags, Procs
<1>8. LBefore
  BY <1>p DEF Init, LBefore, Procs
<1>9. LChecks
  BY <1>p DEF Init, LChecks, NoChecker, Alive, Procs
<1>10. LHandlers
  BY <1>p DEF Init, LHandlers, Procs
<1>11. LServing
  BY <1>p DEF Init, LServing, Procs, Unlistenable
<1>12. LProvider
  BY Names DEF Init, LProvider
<1> QED BY <1>4, <1>6, <1>7, <1>8, <1>9, <1>10, <1>11, <1>12 DEF LInv

\* Every state of a proxy's life satisfies the invariant.
THEOREM LifecycleInv == Spec => []LInv
BY LInitInv, LNextInv, PTL DEF Spec

\* A paused proxy serves nothing, checks nothing and reports nothing: neither
\* startListeners, which runs without opMu, nor a port goroutine or a health
\* check that was under way when Pause came revives it (proxy.go, Pause).
THEOREM PausedQuiet == Spec => []PausedIsQuiet
<1>1. LInv => PausedIsQuiet
  <2> SUFFICES ASSUME LInv, paused, opMu = None
               PROVE  /\ \A p \in Ports : ~Accepting(p)
                      /\ \A g \in Gens : ~Alive(g)
                      /\ up = "unknown"
    BY DEF PausedIsQuiet
  <2>1. pc["admin"] = "idle"
    BY NoneFresh DEF LInv, LPlaces
  <2>2. ASSUME NEW p \in Ports, Accepting(p) PROVE FALSE
    <3>1. PICK g \in Gens : listener[p] = "open" /\ serving[<<p, g>>] > 0
      BY <2>2 DEF Accepting
    <3>2. handler[<<p, g>>] = "live"
      BY <3>1 DEF LInv, LServing
    <3>3. p \in Unlistenable
      BY <2>1, <3>2 DEF LInv, LHandlers
    <3> QED BY <3>1, <3>3 DEF LInv, LServing
  <2>3. (\A g \in Gens : ~Alive(g)) /\ up = "unknown"
    BY <2>1 DEF LInv, LChecks, NoChecker
  <2> QED BY <2>2, <2>3
<1> QED BY <1>1, LifecycleInv, PTL

\* Of a closed proxy no listener, node, health check or reader of events is
\* left, whatever Start, Pause or Resume were doing when Close came (proxy.go,
\* closeInternal; tailscale/proxy.go, Close).
THEOREM ClosedQuiet == Spec => []ClosedIsQuiet
<1>1. LInv => ClosedIsQuiet
  <2> SUFFICES ASSUME LInv, pc["close"] = "returned" PROVE ClosedIsQuiet
    BY DEF ClosedIsQuiet
  <2>1. ~started /\ ~paused /\ reader # "reading"
    BY DEF LInv, LFlags
  <2>2. pc["start"] # "expose"
    BY DEF LInv, LPlaces
  <2>3. \A p \in Ports : listener[p] # "open"
    BY <2>1, <2>2 DEF LInv, LProvider
  <2>4. node \in {"off", "closed"}
    BY <2>1, <2>2 DEF LInv, LProvider, TypeOK
  <2>5. \A g \in Gens : ~Alive(g)
    BY DEF LInv, LChecks, NoChecker
  <2> QED BY <2>1, <2>3, <2>4, <2>5 DEF ClosedIsQuiet
<1> QED BY <1>1, LifecycleInv, PTL

\* A Resume that has returned leaves a paused proxy or one with a running
\* health checker, and the status says Paused only of a paused proxy, although
\* Resume clears the flag first and sets the status last (proxy.go, Resume).
THEOREM ResumeWhole == Spec => []NotHalfResumed
<1>1. LInv => NotHalfResumed
  <2> SUFFICES ASSUME LInv PROVE NotHalfResumed
    OBVIOUS
  <2>1. opMu = None => pc["admin"] = "idle"
    BY NoneFresh DEF LInv, LPlaces
  <2>2. gen > 1 /\ opMu = None /\ ~paused /\ pc["close"] \in {"idle", "lock"} =>
          checker[gen] = "running"
    BY <2>1 DEF LInv, LChecks
  <2>3. opMu = None /\ status = "Paused" => paused
    BY <2>1 DEF LInv, LFlags
  <2> QED BY <2>2, <2>3 DEF LInv, NotHalfResumed
<1> QED BY <1>1, LifecycleInv, PTL
=============================================================================
