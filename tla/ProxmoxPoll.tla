----------------------------- MODULE ProxmoxPoll -----------------------------
(***************************************************************************)
(* How the Proxmox target provider follows one guest                       *)
(* (targetproviders/proxmox/proxmox.go): there are no events, so every     *)
(* poll compares the guest with the snapshot of the poll before and asks   *)
(* whether a proxy is tracked, while the manager's handlers of earlier     *)
(* polls may still be at work.  The handlers of the guest get its lock in  *)
(* any order, one at a time.                                               *)
(***************************************************************************)
EXTENDS EventHandlers

CONSTANTS QMaxChanges,  \* bound: what happens to the guest
          QMaxQueue     \* bound: dispatched actions that are not handled

VARIABLES
  qGuest,    \* the guest: state, enable flag and notes
  qPoll,     \* pollOnce: "idle", "listed", "send"
  qListed,   \* the guest in the list
  qAction,   \* the action pollOnce is sending, and the snapshot it will store
  qSeen,     \* c.states of the guest: known, status, notes (0: disabled or none)
  qResource, \* the snapshot holds the resource of a time when the guest ran
  qQueue,    \* the actions whose handlers are not done
  qHeld,     \* the handler of the first of them has the target lock
  qAdd,      \* AddTarget: the notes it has read, 0: it is not running
  qTracked,  \* the guest is in c.guests
  qProxy,    \* the notes of its proxy, 0: there is none
  qLost,     \* newProxy or Start of the last proxy made has failed
  qOvertaken, \* a handler has got the lock before one that was dispatched earlier
  qFailed,   \* AddTarget failed and no later one has succeeded
  qQuiet,    \* polls that began when nothing was left to be done
  qChanges

polling == <<qPoll, qListed, qAction, qSeen, qResource>>
guest == <<qGuest, qQuiet, qChanges>>
handlers == <<qQueue, qHeld, qAdd, qTracked, qProxy, qLost, qOvertaken, qFailed>>
qvars == <<guest, polling, handlers>>

Unknown == [known |-> FALSE, st |-> "none", notes |-> 0]

QInit ==
  /\ qGuest \in [st : {"running", "stopped"}, on : {TRUE}, cfg : {1}]
  /\ qPoll = "idle" /\ qListed = "none" /\ qAction = [do |-> "none", seen |-> Unknown]
  /\ qSeen = Unknown /\ qResource = FALSE
  /\ qQueue = <<>> /\ qHeld = FALSE /\ qAdd = 0 /\ qTracked = FALSE /\ qProxy = 0
  /\ qLost = FALSE /\ qOvertaken = FALSE /\ qFailed = FALSE /\ qQuiet = 0 /\ qChanges = 0

-----------------------------------------------------------------------------
\* The guest is started, stopped, deleted, made anew or its notes are edited.
QChange ==
  /\ qChanges < QMaxChanges /\ qChanges' = qChanges + 1
  /\ \/ qGuest.st # "absent" /\ qGuest' = [qGuest EXCEPT !.on = ~@]
     \/ qGuest.st # "absent" /\ qGuest' = [qGuest EXCEPT !.cfg = @ + 1]
     \/ qGuest.st = "stopped" /\ \E s \in {"running", "absent"} : qGuest' = [qGuest EXCEPT !.st = s]
     \/ qGuest.st \in {"running", "absent"} /\ qGuest' = [qGuest EXCEPT !.st = "stopped"]
  /\ qQuiet' = 0
  /\ UNCHANGED <<polling, handlers>>

\* ListGuests; when it fails, the snapshot is kept (or the first poll is made
\* anew by the manager): nothing changes.
QList ==
  /\ qPoll = "idle" /\ qPoll' = "listed"
  /\ qListed' = qGuest.st
  /\ qQuiet' = IF qQueue = <<>> /\ qAdd = 0 /\ qQuiet < 2 THEN qQuiet + 1 ELSE qQuiet
  /\ UNCHANGED <<qGuest, qChanges, qAction, qSeen, qResource, handlers>>

Notes == IF qGuest.on THEN qGuest.cfg ELSE 0

\* The switch of handleRunningGuest.
RunningAction ==
  IF ~qGuest.on THEN IF qTracked THEN "stop" ELSE "none"
  ELSE IF ~qSeen.known \/ qSeen.st # "running" \/ qSeen.notes = 0 THEN "start"
  ELSE IF qSeen.notes # Notes THEN IF qTracked THEN "restart" ELSE "start" ELSE "none"

\* handleStoppedGuest, handleRunningGuest and emitDeleted.  The list may be
\* older than the notes, which are fetched now; a guest whose notes cannot be
\* had (which in the end they can) keeps its snapshot.
QCompare ==
  /\ qPoll = "listed"
  /\ \/ /\ qListed = "stopped"
        /\ qAction' = [do |-> IF qTracked THEN "stop" ELSE "none",
                       seen |-> [known |-> TRUE, st |-> "stopped", notes |-> 0]]
        /\ UNCHANGED <<qSeen, qResource>>
     \/ /\ qListed = "running" /\ qGuest.st # "absent"
        /\ qAction' = [do |-> RunningAction,
                       seen |-> [known |-> TRUE, st |-> "running", notes |-> Notes]]
        /\ UNCHANGED <<qSeen, qResource>>
     \/ /\ qListed = "running" /\ (qGuest.st = "absent" \/ qQuiet < 2)
        /\ qAction' = [do |-> "none", seen |-> qSeen]
        /\ UNCHANGED <<qSeen, qResource>>
     \/ /\ qListed = "absent"
        /\ qAction' = [do |-> IF qSeen.known /\ qTracked THEN "stop" ELSE "none", seen |-> Unknown]
        /\ qSeen' = Unknown /\ qResource' = FALSE
  /\ qPoll' = "send"
  /\ UNCHANGED <<guest, qListed, handlers>>

\* The action is sent, and dispatched, before the snapshot is stored.
QSend ==
  /\ qPoll = "send" /\ Len(qQueue) < QMaxQueue
  /\ IF qAction.do = "none" THEN UNCHANGED qQueue ELSE qQueue' = Append(qQueue, qAction.do)
  /\ qPoll' = "store"
  /\ UNCHANGED <<guest, qListed, qAction, qSeen, qResource, qHeld, qAdd, qTracked, qProxy,
                 qLost, qOvertaken, qFailed>>

\* storeState keeps the resource of a guest that has stopped.
QStore ==
  /\ qPoll = "store" /\ qPoll' = "idle"
  /\ qSeen' = qAction.seen
  /\ qResource' = (qAction.seen.known /\ (qAction.seen.st = "running" \/ qResource))
  /\ qAction' = [do |-> "none", seen |-> Unknown] /\ qListed' = "none"
  /\ UNCHANGED <<guest, handlers>>

-----------------------------------------------------------------------------
(* The manager's handlers.                                                 *)

\* The target lock goes to any of the goroutines that wait for it.
QTake ==
  /\ ~qHeld /\ qHeld' = TRUE
  /\ \E i \in 1 .. Len(qQueue) :
       qQueue' = ToFront(qQueue, i) /\ qOvertaken' = (qOvertaken \/ i # 1)
  /\ UNCHANGED <<guest, polling, qAdd, qTracked, qProxy, qLost, qFailed>>

\* The handler is done.
QDone == qQueue' = Tail(qQueue) /\ qHeld' = FALSE

\* eventStop with DeleteProxy, also as the first half of a restart.
QStop ==
  /\ qHeld /\ Head(qQueue) \in {"stop", "restart"}
  /\ \/ Head(qQueue) = "stop" /\ QDone
     \/ Head(qQueue) = "restart" /\ qQueue' = <<"start">> \o Tail(qQueue) /\ UNCHANGED qHeld
  /\ qTracked' = FALSE /\ qProxy' = 0 /\ qLost' = FALSE
  /\ UNCHANGED <<guest, polling, qAdd, qOvertaken, qFailed>>

\* buildProxyConfig: findGuestResource takes the resource of the snapshot,
\* which says "running" whatever the guest does now; the notes are those of now.
QInspect ==
  /\ qHeld /\ Head(qQueue) = "start" /\ qAdd = 0
  /\ \/ /\ qGuest.st # "absent" /\ qGuest.on /\ (qResource \/ qGuest.st = "running")
        /\ qAdd' = qGuest.cfg /\ qFailed' = FALSE /\ UNCHANGED <<qQueue, qHeld>>
     \/ QDone /\ qFailed' = TRUE /\ UNCHANGED qAdd
  /\ UNCHANGED <<guest, polling, qTracked, qProxy, qLost, qOvertaken>>

\* AddTarget tracks the guest, and newProxy replaces the proxy.  It may fail
\* before it has removed the old one (resolveProxyProvider) or after it.
QAdded ==
  /\ qAdd # 0
  /\ qTracked' = TRUE /\ qAdd' = 0 /\ QDone
  /\ \/ qProxy' = qAdd /\ qLost' = FALSE
     \/ qProxy' \in {0, qProxy} /\ qLost' = TRUE
  /\ UNCHANGED <<guest, polling, qOvertaken, qFailed>>

\* Start, which runs without the target lock and may wait for a login, fails:
\* closeProxyIfStillCurrent.
QStartFails ==
  /\ qProxy # 0 /\ qProxy' = 0 /\ qLost' = TRUE
  /\ UNCHANGED <<guest, polling, qQueue, qHeld, qAdd, qTracked, qOvertaken, qFailed>>

QNext == \/ QChange \/ QList \/ QCompare \/ QSend \/ QStore
         \/ QTake \/ QStop \/ QInspect \/ QAdded \/ QStartFails
QSpec == QInit /\ [][QNext]_qvars

-----------------------------------------------------------------------------
QAtRest == qPoll = "idle" /\ qQueue = <<>> /\ qQuiet = 2

\* Polls overlap with handlers that are still starting or stopping what an
\* earlier poll saw; two polls after the guest came to rest, a guest that is
\* stopped or disabled has no proxy, whatever failed and whichever handler overtook
\* another; a running guest that is enabled has one with its notes of now, if no
\* handler overtook another and the proxy could be made and started (pollOnce).
PollSafe ==
  QAtRest =>
    /\ qGuest.st = "stopped" \/ (qGuest.st = "running" /\ ~qGuest.on) => qProxy = 0
    /\ qGuest.st = "running" /\ qGuest.on /\ ~qFailed /\ ~qOvertaken /\ ~qLost =>
         qProxy = qGuest.cfg
=============================================================================
