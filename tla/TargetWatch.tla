----------------------------- MODULE TargetWatch -----------------------------
(***************************************************************************)
(* How the Docker and Incus target providers follow one target             *)
(* (targetproviders/docker/docker.go, incus/incus.go) for the manager's    *)
(* reconnect loop (WatchEvents in proxymanager/events.go).  WatchEvents    *)
(* subscribes first and then lists what runs: the goroutine of the stream  *)
(* and the one of the scan send to the same channel.  The events of a      *)
(* stream that is down are lost.  The handlers of the target get its lock  *)
(* in any order, one at a time.                                            *)
(***************************************************************************)
EXTENDS EventHandlers

CONSTANTS MaxWatchBackoff,  \* in units of the first backoff
          TMaxChanges,      \* bound: what happens to the target
          TMaxLinks         \* bound: how often the stream is opened

ASSUME TAssumption == MaxWatchBackoff \in Nat \ {0}

VARIABLES
  tKind,     \* "docker" or "incus"
  tInst,     \* the container or instance: state, enable flag, configuration
  tLink,     \* the stream: "wait" (backoff), "open", "up"
  tFeed,     \* its events that are not read yet
  tSend,     \* the event loop: an action it is sending, or "none"
  tScan,     \* startAllProxies: "none", "list" or "send"
  tBackoff,
  tQueue,    \* the actions whose handlers are not done
  tHeld,     \* the handler of the first of them has the target lock
  tAdd,      \* AddTarget: the configuration it has read, 0: it is not running
  tTracked,  \* the configuration in c.containers or c.instances, 0: no entry
  tProxy,    \* the configuration of the target's proxy, 0: there is none
  tLost,     \* newProxy or Start of the last proxy made has failed
  tOvertaken, \* a handler has got the lock before one that was dispatched earlier,
             \* since the stream was last opened with nothing left to handle
  tFailed,   \* since the target last changed a request to the server failed, or
             \* an update was compared with an entry whose stop was dispatched
  tChanges, tLinks

target == <<tKind, tInst, tChanges>>
stream == <<tLink, tFeed, tSend, tScan, tBackoff, tLinks>>
handling == <<tQueue, tHeld, tAdd, tTracked, tProxy, tLost>>
tgvars == <<target, stream, handling, tOvertaken, tFailed>>

TGInit ==
  /\ tKind \in {"docker", "incus"}
  /\ tInst = [st |-> "stopped", on |-> TRUE, cfg |-> 1]
  /\ tLink = "open" /\ tFeed = <<>> /\ tSend = "none" /\ tScan = "none" /\ tBackoff = 1
  /\ tQueue = <<>> /\ tHeld = FALSE /\ tAdd = 0 /\ tTracked = 0 /\ tProxy = 0
  /\ tLost = FALSE /\ tOvertaken = FALSE /\ tFailed = FALSE
  /\ tChanges = 0 /\ tLinks = 0

-----------------------------------------------------------------------------
(* The server.                                                             *)

\* The lifecycle events and the states they lead from and to.  Docker has no
\* others than start and die that its filter lets through, and the labels of
\* a container do not change.
Docker == {<<"start", "stopped", "running">>, <<"stop", "running", "stopped">>}
Incus == Docker \cup
  {<<"restart", "running", "running">>, <<"stop", "running", "frozen">>,
   <<"start", "frozen", "running">>, <<"delete", "stopped", "absent">>}

Happens(event, inst) ==
  /\ tChanges < TMaxChanges
  /\ tChanges' = tChanges + 1
  /\ tInst' = inst /\ tFailed' = FALSE
  /\ tFeed' = IF tLink = "up" THEN Append(tFeed, event) ELSE tFeed
  /\ UNCHANGED <<tKind, tLink, tSend, tScan, tBackoff, tLinks, handling, tOvertaken>>

TLifecycle ==
  \E c \in IF tKind = "docker" THEN Docker ELSE Incus :
    /\ tInst.st = c[2]
    /\ Happens(c[1], [tInst EXCEPT !.st = c[3]])

\* Only Incus: the instance is enabled or disabled, or another key is set.
TUpdated ==
  /\ tKind = "incus" /\ tInst.st # "absent"
  /\ \/ Happens("update", [tInst EXCEPT !.on = ~@])
     \/ Happens("update", [tInst EXCEPT !.cfg = @ + 1])

-----------------------------------------------------------------------------
(* WatchEvents of the manager and of the providers.                        *)

\* The stream is open when Events (GetEventsByType) has returned; the scan
\* starts after it.
TSubscribe ==
  /\ tLink = "open" /\ tLinks < TMaxLinks /\ tLinks' = tLinks + 1
  /\ tLink' = "up" /\ tFeed' = <<>> /\ tScan' = "list"
  /\ tOvertaken' = (tOvertaken /\ tQueue # <<>>)
  /\ UNCHANGED <<target, tSend, tBackoff, handling, tFailed>>

\* The stream ends, cannot be opened, or the list cannot be had: errChan, and
\* the manager cancels the context of both goroutines and waits.
TBreak ==
  /\ tLink \in {"open", "up"} /\ tLinks < TMaxLinks
  /\ tLink' = "wait" /\ tFeed' = <<>> /\ tSend' = "none" /\ tScan' = "none"
  /\ UNCHANGED <<target, tBackoff, tLinks, handling, tOvertaken, tFailed>>

\* reconnectBackoff.
TReconnect ==
  /\ tLink = "wait" /\ tLink' = "open"
  /\ tBackoff' = IF tBackoff * 2 > MaxWatchBackoff THEN MaxWatchBackoff ELSE tBackoff * 2
  /\ UNCHANGED <<target, tFeed, tSend, tScan, tLinks, handling, tOvertaken, tFailed>>

\* startAllProxies: the list holds what runs now, for Incus if it is enabled.
TList ==
  /\ tScan = "list"
  /\ tScan' = IF tInst.st = "running" /\ tInst.on THEN "send" ELSE "none"
  /\ UNCHANGED <<target, tLink, tFeed, tSend, tBackoff, tLinks, handling, tOvertaken,
                 tFailed>>

\* The manager takes an action and dispatches it: the backoff starts anew.
Dispatched(action) ==
  /\ tQueue' = Append(tQueue, action) /\ tBackoff' = 1
  /\ UNCHANGED <<tHeld, tAdd, tTracked, tProxy, tLost, tOvertaken, tFailed>>

TScanSend ==
  /\ tScan = "send" /\ tLink = "up" /\ tScan' = "none"
  /\ Dispatched("start")
  /\ UNCHANGED <<target, tLink, tFeed, tSend, tLinks>>

TDeliver ==
  /\ tSend # "none" /\ tLink = "up" /\ tSend' = "none"
  /\ Dispatched(tSend)
  /\ UNCHANGED <<target, tLink, tFeed, tScan, tLinks>>

\* Mutant of IncusAction: an update of an instance that is not tracked yet is
\* left to the start that is under way.
IncusActionTracked(event) ==
  IF event = "delete" THEN IF tTracked # 0 THEN "stop" ELSE "none"
  ELSE IF event # "update" THEN IF tInst.on THEN event ELSE "none"
  ELSE IF tTracked = 0 THEN "none"
  ELSE IF ~tInst.on THEN "stop"
  ELSE IF tTracked # tInst.cfg THEN "restart" ELSE "none"

\* handleEvent of Incus: the enable flag and the configuration are those of
\* now, which may be later than the event; a deleted instance has none.
IncusAction(event) ==
  IF event = "delete" THEN IF tTracked # 0 THEN "stop" ELSE "none"
  ELSE IF event # "update" THEN IF tInst.on THEN event ELSE "none"
  ELSE IF ~tInst.on THEN IF tTracked # 0 THEN "stop" ELSE "none"
  ELSE IF tTracked = 0 THEN "start"
  ELSE IF tTracked # tInst.cfg THEN "restart" ELSE "none"

\* A stop is dispatched and not handled: the entry is about to go.
Stopping == \E i \in 1 .. Len(tQueue) : tQueue[i] = "stop"

\* The event loop reads an event.  For Incus, the request for the instance
\* may fail, and does when it is gone.
TRead ==
  /\ tLink = "up" /\ tSend = "none" /\ tFeed # <<>>
  /\ tFeed' = Tail(tFeed)
  /\ \/ /\ tKind = "docker" /\ tSend' = Head(tFeed) /\ UNCHANGED tFailed
     \/ /\ tKind = "incus" /\ (tInst.st = "absent" => Head(tFeed) = "delete")
        /\ tSend' = IncusAction(Head(tFeed))
        /\ tFailed' = (tFailed \/ (Head(tFeed) = "update" /\ tTracked # 0 /\ Stopping))
     \/ /\ tKind = "incus" /\ Head(tFeed) # "delete"
        /\ tSend' = "none" /\ tFailed' = TRUE
  /\ UNCHANGED <<target, tLink, tScan, tBackoff, tLinks, handling, tOvertaken>>

-----------------------------------------------------------------------------
(* HandleProxyEvent: eventStop and eventStart with AddTarget.              *)

\* The target lock goes to any of the goroutines that wait for it.
TTake ==
  /\ ~tHeld /\ tHeld' = TRUE
  /\ \E i \in 1 .. Len(tQueue) :
       tQueue' = ToFront(tQueue, i) /\ tOvertaken' = (tOvertaken \/ i # 1)
  /\ UNCHANGED <<target, stream, tAdd, tTracked, tProxy, tLost, tFailed>>

\* The handler is done.
TDone == tQueue' = Tail(tQueue) /\ tHeld' = FALSE

\* eventStop, also as the first half of a restart: DeleteProxy forgets the
\* target.
TStop ==
  /\ tHeld /\ Head(tQueue) \in {"stop", "restart"}
  /\ \/ Head(tQueue) = "stop" /\ TDone
     \/ Head(tQueue) = "restart" /\ tQueue' = <<"start">> \o Tail(tQueue) /\ UNCHANGED tHeld
  /\ tTracked' = 0 /\ tProxy' = 0 /\ tLost' = FALSE
  /\ UNCHANGED <<target, stream, tAdd, tOvertaken, tFailed>>

\* buildProxyConfig: Docker takes a stopped container too.
Usable == IF tKind = "docker" THEN tInst.st # "absent" ELSE tInst.st = "running" /\ tInst.on

TInspect ==
  /\ tHeld /\ Head(tQueue) = "start" /\ tAdd = 0
  /\ \/ Usable /\ tAdd' = tInst.cfg /\ UNCHANGED <<tQueue, tHeld, tFailed>>
     \/ ~Usable /\ TDone /\ UNCHANGED <<tAdd, tFailed>>
     \/ TDone /\ tFailed' = TRUE /\ UNCHANGED tAdd
  /\ UNCHANGED <<target, stream, tTracked, tProxy, tLost, tOvertaken>>

\* addContainer (addInstance), and newProxy replaces the proxy.  It may fail
\* before it has removed the old one (resolveProxyProvider) or after it.
TAdded ==
  /\ tAdd # 0
  /\ tTracked' = tAdd /\ tAdd' = 0 /\ TDone
  /\ \/ tProxy' = tAdd /\ tLost' = FALSE
     \/ tProxy' \in {0, tProxy} /\ tLost' = TRUE
  /\ UNCHANGED <<target, stream, tOvertaken, tFailed>>

\* Start, which runs without the target lock and may wait for a login, fails:
\* closeProxyIfStillCurrent.
TStartFails ==
  /\ tProxy # 0 /\ tProxy' = 0 /\ tLost' = TRUE
  /\ UNCHANGED <<target, stream, tQueue, tHeld, tAdd, tTracked, tOvertaken, tFailed>>

TGNext == \/ TLifecycle \/ TUpdated \/ TSubscribe \/ TBreak \/ TReconnect \/ TList
          \/ TScanSend \/ TDeliver \/ TRead
          \/ TTake \/ TStop \/ TInspect \/ TAdded \/ TStartFails
TGSpec == TGInit /\ [][TGNext]_tgvars

-----------------------------------------------------------------------------
TAtRest == /\ tLink = "up" /\ tFeed = <<>> /\ tSend = "none" /\ tScan = "none"
           /\ tQueue = <<>>

\* However the stream breaks, the target changes, and the scan, the events and
\* the handlers overlap: once everything is handled, no request failed and no
\* handler overtook another, a target that runs and is enabled has a proxy with
\* its configuration of now, if that could be made and started (WatchEvents and
\* startAllProxies, handleInstanceUpdated).
WatchSafe ==
  /\ tBackoff \in 1 .. MaxWatchBackoff
  /\ (TAtRest /\ ~tFailed /\ ~tOvertaken /\ ~tLost /\ tInst.st = "running" /\ tInst.on)
       => tProxy = tInst.cfg
=============================================================================
