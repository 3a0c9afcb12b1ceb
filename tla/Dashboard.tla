------------------------------ MODULE Dashboard ------------------------------
(***************************************************************************)
(* The live dashboard (dashboard/stream.go) and the broadcast that feeds   *)
(* it (proxymanager/broadcast.go).  A status change is broadcast after the *)
(* status is set, and dropped when the dashboard's channel is full; one    *)
(* goroutine renders for every connected page into the page's bounded      *)
(* queue, and a new page gets its first list from a goroutine of its own.  *)
(* One proxy is watched, by pages whose filter shows it: its state is the  *)
(* number of its status (odd: Initializing), the number of its health, and *)
(* whether it is in the registry.                                          *)
(***************************************************************************)
EXTENDS Integers, Sequences, FiniteSets

CONSTANTS Pages,
          MaxPages,    \* maxSSEClients
          ChanSize,    \* statusSubChanBuf
          PageQueue,   \* chanSizeSSEQueue
          MaxStatus, MaxHealth,  \* bounds: changes of the status and the health
          MaxVisits    \* bound: how often a page connects

VARIABLES
  dState,    \* the proxy as the manager has it
  dUnsent,   \* status changes that are set and not yet broadcast
  dEvents,   \* the dashboard's subscription
  dLoop,     \* streamProxyUpdates: what it renders, for whom
  dSeen,     \* lastHealthState
  dPage,     \* each page: "out", "open", "refused"
  dQueue,    \* its queue of messages
  dView,     \* what it shows
  dFirst,    \* its first render: "none", "read" (the list is read), and the list
  dVisits,
  dStop      \* stopCh is closed

dvars == <<dState, dUnsent, dEvents, dLoop, dSeen, dPage, dQueue, dView, dFirst,
           dVisits, dStop>>

Nothing == [v |-> 0, h |-> 0, on |-> FALSE]
Resting == [pc |-> "select", full |-> FALSE, read |-> Nothing, for |-> {}]

\* What a page that is up to date shows of a state.
Look(s) == IF s.on THEN s ELSE Nothing
HealthOf(s) == <<s.on, Look(s).h>>

DInit ==
  /\ dState = Nothing /\ dUnsent = {} /\ dEvents = <<>> /\ dLoop = Resting /\ dSeen = HealthOf(Nothing)
  /\ dPage = [c \in Pages |-> "out"] /\ dQueue = [c \in Pages |-> <<>>]
  /\ dView = [c \in Pages |-> Nothing] /\ dFirst = [c \in Pages |-> [pc |-> "none", read |-> Nothing]]
  /\ dVisits = 0 /\ dStop = FALSE

Connected == {c \in Pages : dPage[c] = "open"}

-----------------------------------------------------------------------------
(* The proxy manager.                                                      *)

\* A status is set; a proxy that is not in the registry enters it.
DStatus ==
  /\ dState.v < MaxStatus
  /\ dState' = [dState EXCEPT !.v = @ + 1, !.on = TRUE] /\ dUnsent' = dUnsent \cup {dState.v + 1}
  /\ UNCHANGED <<dEvents, dLoop, dSeen, dPage, dQueue, dView, dFirst, dVisits, dStop>>

\* The proxy leaves the registry.  Its last status was broadcast before.
DRemove ==
  /\ dState.on
  /\ dState' = [dState EXCEPT !.on = FALSE]
  /\ UNCHANGED <<dUnsent, dEvents, dLoop, dSeen, dPage, dQueue, dView, dFirst, dVisits, dStop>>

DHealth ==
  /\ dState.on /\ dState.h < MaxHealth
  /\ dState' = [dState EXCEPT !.h = @ + 1]
  /\ UNCHANGED <<dUnsent, dEvents, dLoop, dSeen, dPage, dQueue, dView, dFirst, dVisits, dStop>>

\* broadcastStatusEvents: a full channel loses the event.
DBroadcast(v) ==
  /\ v \in dUnsent /\ dUnsent' = dUnsent \ {v}
  /\ dEvents' = IF Len(dEvents) < ChanSize THEN Append(dEvents, v) ELSE dEvents
  /\ UNCHANGED <<dState, dLoop, dSeen, dPage, dQueue, dView, dFirst, dVisits, dStop>>

-----------------------------------------------------------------------------
(* streamProxyUpdates.                                                     *)

\* sseClient.send.
Sent(q, msg) == IF Len(q) < PageQueue THEN Append(q, msg) ELSE q

\* A render of a list that was read before: whether the proxy is on it was
\* decided then, what its card says is read now.  A card is rendered at once.
ListMsg(read) == [full |-> TRUE, state |-> Look([dState EXCEPT !.on = read.on])]
CardMsg(read) == [full |-> FALSE, state |-> read]

\* handleStatusEvent: a proxy that has just been created or is gone needs the
\* whole list, and so does a page that is sorted, grouped or filtered by what
\* has changed (either way is possible for any page).
DEvent ==
  /\ dLoop.pc = "select" /\ ~dStop /\ dEvents # <<>>
  /\ dEvents' = Tail(dEvents)
  /\ \E sorted \in BOOLEAN :
       dLoop' = IF Connected = {} THEN Resting
                ELSE [pc |-> "send", read |-> dState, for |-> Connected,
                      full |-> sorted \/ ~dState.on \/ Head(dEvents) % 2 = 1]
  /\ UNCHANGED <<dState, dUnsent, dSeen, dPage, dQueue, dView, dFirst, dVisits, dStop>>

\* refreshClientCards, when the health differs from what it was.
DHealthTick ==
  /\ dLoop.pc = "select" /\ ~dStop
  /\ Connected # {} /\ dSeen # HealthOf(dState)
  /\ dSeen' = HealthOf(dState)
  /\ dLoop' = [pc |-> "send", full |-> TRUE, read |-> dState, for |-> Connected]
  /\ UNCHANGED <<dState, dUnsent, dEvents, dPage, dQueue, dView, dFirst, dVisits, dStop>>

\* Mutant of DResync: a page is rendered again only when the health differs.
DResyncChanged ==
  /\ dLoop.pc = "select" /\ ~dStop /\ Connected # {} /\ dSeen # HealthOf(dState)
  /\ dSeen' = HealthOf(dState)
  /\ dLoop' = [pc |-> "send", full |-> TRUE, read |-> dState, for |-> Connected]
  /\ UNCHANGED <<dState, dUnsent, dEvents, dPage, dQueue, dView, dFirst, dVisits, dStop>>

\* resyncAllClients.
DResync ==
  /\ dLoop.pc = "select" /\ ~dStop /\ Connected # {}
  /\ dLoop' = [pc |-> "send", full |-> TRUE, read |-> dState, for |-> Connected]
  /\ UNCHANGED <<dState, dUnsent, dEvents, dSeen, dPage, dQueue, dView, dFirst, dVisits, dStop>>

\* The messages of one page.  A page that has left may still be in the
\* snapshot; its queue is nobody's.
DSend(c) ==
  /\ dLoop.pc = "send" /\ c \in dLoop.for
  /\ dQueue' = [dQueue EXCEPT ![c] = IF dPage[c] # "open" THEN @
                  ELSE Sent(@, IF dLoop.full THEN ListMsg(dLoop.read) ELSE CardMsg(dLoop.read))]
  /\ dLoop' = IF dLoop.for = {c} THEN Resting ELSE [dLoop EXCEPT !.for = @ \ {c}]
  /\ UNCHANGED <<dState, dUnsent, dEvents, dSeen, dPage, dView, dFirst, dVisits, dStop>>

DLoopEnds ==
  /\ dLoop.pc = "select" /\ dStop
  /\ dLoop' = [Resting EXCEPT !.pc = "ended"]
  /\ UNCHANGED <<dState, dUnsent, dEvents, dSeen, dPage, dQueue, dView, dFirst, dVisits, dStop>>

DClose ==
  /\ ~dStop /\ dStop' = TRUE
  /\ UNCHANGED <<dState, dUnsent, dEvents, dLoop, dSeen, dPage, dQueue, dView, dFirst, dVisits>>

-----------------------------------------------------------------------------
(* streamHandler.                                                          *)

\* A page connects, after it was loaded with some earlier list, and the
\* goroutine that renders its first list starts.
DConnect(c) ==
  /\ dPage[c] = "out" /\ dVisits < MaxVisits /\ dVisits' = dVisits + 1
  /\ IF Cardinality(Connected) >= MaxPages
     THEN dPage' = [dPage EXCEPT ![c] = "refused"] /\ UNCHANGED <<dView, dFirst>>
     ELSE /\ dPage' = [dPage EXCEPT ![c] = "open"]
          /\ \E old \in {Nothing, Look(dState)} : dView' = [dView EXCEPT ![c] = old]
          /\ dFirst' = [dFirst EXCEPT ![c] = [pc |-> "read", read |-> dState]]
  /\ UNCHANGED <<dState, dUnsent, dEvents, dLoop, dSeen, dQueue, dStop>>

\* The first list is rendered and sent, perhaps long after it was read.
DFirst(c) ==
  /\ dFirst[c].pc = "read"
  /\ dFirst' = [dFirst EXCEPT ![c] = [pc |-> "none", read |-> Nothing]]
  /\ dQueue' = [dQueue EXCEPT ![c] = IF dPage[c] # "open" THEN @ ELSE Sent(@, ListMsg(dFirst[c].read))]
  /\ UNCHANGED <<dState, dUnsent, dEvents, dLoop, dSeen, dPage, dView, dVisits, dStop>>

\* A list replaces what the page shows; a card only a card that is there.
DWrite(c) ==
  /\ dPage[c] = "open" /\ dQueue[c] # <<>>
  /\ LET msg == Head(dQueue[c]) IN
     dView' = [dView EXCEPT ![c] = IF msg.full \/ @.on THEN msg.state ELSE @]
  /\ dQueue' = [dQueue EXCEPT ![c] = Tail(@)]
  /\ UNCHANGED <<dState, dUnsent, dEvents, dLoop, dSeen, dPage, dFirst, dVisits, dStop>>

\* The page is closed: removeSSEClient.
DLeave(c) ==
  /\ dPage[c] = "open" /\ dFirst[c].pc = "none"
  /\ dPage' = [dPage EXCEPT ![c] = "out"] /\ dQueue' = [dQueue EXCEPT ![c] = <<>>]
  /\ UNCHANGED <<dState, dUnsent, dEvents, dLoop, dSeen, dView, dFirst, dVisits, dStop>>

DNext ==
  \/ DStatus \/ DRemove \/ DHealth \/ \E v \in dUnsent : DBroadcast(v)
  \/ DEvent \/ DHealthTick \/ DResync \/ DLoopEnds \/ DClose
  \/ \E c \in Pages : DSend(c) \/ DConnect(c) \/ DFirst(c) \/ DWrite(c) \/ DLeave(c)

\* The goroutine of the loop runs and its resync ticker is served (select is
\* fair), the goroutines of a page run and its connection takes what is written.
DFair ==
  /\ WF_dvars(DEvent) /\ WF_dvars(DHealthTick) /\ SF_dvars(DResync)
  /\ \A c \in Pages : WF_dvars(DSend(c)) /\ WF_dvars(DFirst(c)) /\ WF_dvars(DWrite(c))

DSpec == DInit /\ [][DNext]_dvars /\ DFair

-----------------------------------------------------------------------------
\* Events and messages may be lost, come late or in the wrong order; still a
\* page that stays open comes to show the state of the proxy, once it rests.
PagesCatchUp ==
  \A c \in Pages : <>[](dStop \/ dPage[c] # "open" \/ dView[c] = Look(dState))
                   \/ []<>(dPage[c] # "open")

=============================================================================
