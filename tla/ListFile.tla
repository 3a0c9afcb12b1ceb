------------------------------- MODULE ListFile -------------------------------
(***************************************************************************)
(* The list target provider (targetproviders/list/list.go) and the file it *)
(* watches (config/configfile.go).  A change of the file arms a timer;     *)
(* onFileChange loads the file into the map the provider reads, compares   *)
(* it with the map before and sends one event per difference, outside the  *)
(* lock, so that a second reload may overtake the first.  The handlers of  *)
(* a name get its lock in any order, one at a time.                        *)
(* An entry is a number, 0 when it is absent.  yaml.v3 decodes the good    *)
(* entries of a file that has a bad one, and then reports the error.       *)
(***************************************************************************)
EXTENDS EventHandlers, FiniteSets

CONSTANTS FNames,       \* the names of the list
          FReloads,     \* the timers' goroutines that may run at a time
          FMaxChanges   \* bound: edits of the file

Bad == -1   \* an entry that is not of the right type

VARIABLES
  fFile,     \* the file: an entry per name
  fReadable, \* its syntax is right and all its keys are known
  fArmed,    \* the debounce timer runs
  fConfig,   \* c.configProxies
  fLoaded,   \* the last Load succeeded
  fSends,    \* of each goroutine: the events it has still to send
  fScan,     \* the names WatchEvents has still to start
  fQueue,    \* of each name: the actions whose handlers are not done
  fHeld,     \* the handler of the first of them has the target lock
  fAdd,      \* AddTarget: the entry it has read, 0: it is not running
  fProxy,    \* the entry the proxy was made from
  fLost,     \* newProxy or Start of the last proxy made has failed
  fCrossed,  \* a start was decided on while a stop was still to be sent, or a handler
             \* got the lock before one that was dispatched earlier, and no reload has
             \* decided on an event for the name since
  fTorn,     \* a Load that failed has left an entry that was not there, and no
             \* reload has decided on an event for the name since
  fChanges

file == <<fFile, fReadable, fArmed, fChanges>>
map == <<fConfig, fLoaded, fTorn>>
queues == <<fQueue, fHeld>>
proxies == <<fAdd, fProxy, fLost>>
fvars == <<file, map, fSends, fScan, queues, proxies, fCrossed>>

NoneListed == [n \in FNames |-> 0]
Never == [n \in FNames |-> FALSE]

\* New has loaded the file; a file that cannot be loaded makes no provider.
FInit ==
  /\ fFile \in [FNames -> {0, 1}] /\ fReadable = TRUE /\ fArmed = FALSE /\ fChanges = 0
  /\ fConfig = fFile /\ fLoaded = TRUE /\ fTorn = Never
  /\ fSends = [r \in 1 .. FReloads |-> {}]
  /\ fScan = {n \in FNames : fFile[n] # 0}
  /\ fQueue = [n \in FNames |-> <<>>] /\ fHeld = Never
  /\ fAdd = NoneListed /\ fProxy = NoneListed /\ fLost = Never /\ fCrossed = Never

-----------------------------------------------------------------------------
\* The file is written: handleEvent arms the timer anew.
FEdit ==
  /\ fChanges < FMaxChanges /\ fChanges' = fChanges + 1
  /\ \E n \in FNames, e \in {Bad, 0, fChanges + 2} : fFile' = [fFile EXCEPT ![n] = e]
  /\ fReadable' \in BOOLEAN /\ fArmed' = TRUE
  /\ UNCHANGED <<map, fSends, fScan, queues, proxies, fCrossed>>

\* The difference of two maps as events.
Diff(old, new) ==
  {<<n, "stop">> : n \in {n \in FNames : old[n] # 0 /\ new[n] = 0}}
    \cup {<<n, "start">> : n \in {n \in FNames : old[n] = 0 /\ new[n] # 0}}
    \cup {<<n, "restart">> : n \in {n \in FNames : old[n] # 0 /\ new[n] \notin {0, old[n]}}}

WellFormed == fReadable /\ \A n \in FNames : fFile[n] # Bad

\* Mutant of Reloaded: the map is not restored when Load fails.
ReloadedEmpty ==
  IF WellFormed THEN fFile
  ELSE [n \in FNames |-> IF fReadable /\ fFile[n] # Bad THEN fFile[n] ELSE 0]

\* onFileChange, under the lock: the map is cleared and loaded; after an error
\* the old entries are put back, and what a failed decode has added stays.
Reloaded ==
  IF WellFormed THEN fFile
  ELSE [n \in FNames |-> IF fConfig[n] # 0 THEN fConfig[n]
                         ELSE IF fReadable /\ fFile[n] # Bad THEN fFile[n] ELSE 0]

\* An event that is decided on and not sent.
Unsent(n, a) == \E r \in 1 .. FReloads : <<n, a>> \in fSends[r]

\* The names for which the reload sends an event.
Differing == {n \in FNames : WellFormed /\ fConfig[n] # fFile[n]}

\* The timer fires.  Stop of a timer that has fired does not stop its goroutine.
FReload(r) ==
  /\ fArmed /\ fSends[r] = {} /\ fArmed' = FALSE
  /\ fConfig' = Reloaded /\ fLoaded' = WellFormed
  /\ fSends' = [fSends EXCEPT ![r] = IF WellFormed THEN Diff(fConfig, fFile) ELSE {}]
  /\ fCrossed' = [n \in FNames |-> IF n \in Differing THEN fFile[n] # 0 /\ Unsent(n, "stop")
                                   ELSE fCrossed[n]]
  /\ fTorn' = [n \in FNames |-> IF WellFormed THEN fTorn[n] /\ n \notin Differing
                                ELSE fTorn[n] \/ (fConfig[n] = 0 /\ Reloaded[n] # 0)]
  /\ UNCHANGED <<fFile, fReadable, fChanges, fScan, queues, proxies>>

\* The manager dispatches an event.
FDispatch(n, a) == fQueue' = [fQueue EXCEPT ![n] = Append(@, a)] /\ UNCHANGED fHeld

\* trySendEvent.
FSend(r) ==
  /\ \E e \in fSends[r] :
       fSends' = [fSends EXCEPT ![r] = @ \ {e}] /\ FDispatch(e[1], e[2])
  /\ UNCHANGED <<file, map, fScan, proxies, fCrossed>>

\* The goroutine of WatchEvents, with the names it read at first.
FScan ==
  /\ \E n \in fScan : fScan' = fScan \ {n} /\ FDispatch(n, "start")
  /\ UNCHANGED <<file, map, fSends, proxies, fCrossed>>

-----------------------------------------------------------------------------
(* The manager's handlers of a name.                                       *)

\* The target lock goes to any of the goroutines that wait for it.
FTake(n) ==
  /\ ~fHeld[n] /\ fHeld' = [fHeld EXCEPT ![n] = TRUE]
  /\ \E i \in 1 .. Len(fQueue[n]) :
       /\ fQueue' = [fQueue EXCEPT ![n] = ToFront(@, i)]
       /\ fCrossed' = [fCrossed EXCEPT ![n] = @ \/ i # 1]
  /\ UNCHANGED <<file, map, fSends, fScan, proxies>>

\* The handler is done.
FDone(n) ==
  fQueue' = [fQueue EXCEPT ![n] = Tail(@)] /\ fHeld' = [fHeld EXCEPT ![n] = FALSE]

\* eventStop, also as the first half of a restart.
FStop(n) ==
  /\ fHeld[n] /\ Head(fQueue[n]) # "start"
  /\ \/ Head(fQueue[n]) = "stop" /\ FDone(n)
     \/ /\ Head(fQueue[n]) = "restart" /\ UNCHANGED fHeld
        /\ fQueue' = [fQueue EXCEPT ![n] = <<"start">> \o Tail(@)]
  /\ fProxy' = [fProxy EXCEPT ![n] = 0] /\ fLost' = [fLost EXCEPT ![n] = FALSE]
  /\ UNCHANGED <<file, map, fSends, fScan, fAdd, fCrossed>>

\* AddTarget reads the entry under the lock, or there is none.
FRead(n) ==
  /\ fHeld[n] /\ Head(fQueue[n]) = "start" /\ fAdd[n] = 0
  /\ \/ fConfig[n] = 0 /\ FDone(n) /\ UNCHANGED fAdd
     \/ fConfig[n] # 0 /\ fAdd' = [fAdd EXCEPT ![n] = fConfig[n]] /\ UNCHANGED queues
  /\ UNCHANGED <<file, map, fSends, fScan, fProxy, fLost, fCrossed>>

\* newProxy replaces the proxy.  The entry may be of no use, or newProxy fails
\* before it has removed the old one (resolveProxyProvider) or after it.
FAdded(n) ==
  /\ fAdd[n] # 0 /\ fAdd' = [fAdd EXCEPT ![n] = 0] /\ FDone(n)
  /\ \/ /\ fProxy' = [fProxy EXCEPT ![n] = fAdd[n]]
        /\ fLost' = [fLost EXCEPT ![n] = FALSE]
     \/ /\ \E p \in {0, fProxy[n]} : fProxy' = [fProxy EXCEPT ![n] = p]
        /\ fLost' = [fLost EXCEPT ![n] = TRUE]
  /\ UNCHANGED <<file, map, fSends, fScan, fCrossed>>

\* Start, which runs without the target lock and may wait for a login, fails:
\* closeProxyIfStillCurrent.
FStartFails(n) ==
  /\ fProxy[n] # 0
  /\ fProxy' = [fProxy EXCEPT ![n] = 0] /\ fLost' = [fLost EXCEPT ![n] = TRUE]
  /\ UNCHANGED <<file, map, fSends, fScan, queues, fAdd, fCrossed>>

FNext == \/ FEdit \/ FScan
         \/ \E r \in 1 .. FReloads : FReload(r) \/ FSend(r)
         \/ \E n \in FNames : FTake(n) \/ FStop(n) \/ FRead(n) \/ FAdded(n) \/ FStartFails(n)
FSpec == FInit /\ [][FNext]_fvars

-----------------------------------------------------------------------------
FAtRest(n) == /\ n \notin fScan /\ fQueue[n] = <<>>
              /\ \A a \in {"start", "stop", "restart"} : ~Unsent(n, a)

\* Whatever is edited while events are on their way, and whatever file fails to
\* load in between: once the events for a name are handled, a name that is not in
\* the map has no proxy, and one that is has a proxy with its entry, if that could
\* be made and started; the map is that of the last file that could be loaded
\* (onFileChange, AddTarget).  Names whose last event was overtaken, and entries
\* that a failed load has left behind, are excluded until the next event for the
\* name: see the README.
ListSafe ==
  /\ \A n \in FNames :
       FAtRest(n) /\ ~fCrossed[n] /\ ~fTorn[n] =>
         IF fConfig[n] = 0 THEN fProxy[n] = 0 ELSE fLost[n] \/ fProxy[n] = fConfig[n]
  /\ ~fArmed /\ fLoaded => fConfig = fFile
=============================================================================
