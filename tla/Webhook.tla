------------------------------- MODULE Webhook -------------------------------
(***************************************************************************)
(* The webhook sender (core/webhook/webhook.go): Send puts a job per       *)
(* configured webhook into a bounded queue without waiting, workers        *)
(* deliver with retries, and Close waits for them while it holds closeMu.  *)
(* A job is a pair <<event, webhook>>.                                     *)
(***************************************************************************)
EXTENDS Integers, Sequences, FiniteSets, FiniteSetsExt, SequencesExt

CONSTANTS Events, Hooks,
          Matches,      \* the pairs that eventMatchesFilter lets through
          Workers,
          QueueSize, MaxRetries

ASSUME VAssumption ==
  /\ QueueSize \in Nat \ {0} /\ MaxRetries \in Nat \ {0} /\ Workers # {}
  /\ Events \cap {"free", "close"} = {}

VARIABLES
  vQueue,    \* s.queue
  vOpen,     \* s.queue is not closed
  vClosed,   \* s.closed
  vMu,       \* holder of closeMu: "free", an event (its Send), or "close"
  vSend,     \* each Send: "new", "locked", "refused", "returned"
  vTodo,     \* the hooks that the Send with the lock has left
  vWorker,   \* each worker: its job, the attempt, and whether it waits
  vClose,    \* Close
  vDone,     \* history: attempts and outcome of each job that has ended
  vDropped,  \* history: jobs that found the queue full
  vPanic     \* a send on the closed queue

vvars == <<vQueue, vOpen, vClosed, vMu, vSend, vTodo, vWorker, vClose, vDone,
           vDropped, vPanic>>

Free == [pc |-> "free", job |-> <<>>, attempt |-> 0]

VInit ==
  /\ vQueue = <<>> /\ vOpen = TRUE /\ vClosed = FALSE /\ vMu = "free"
  /\ vSend = [e \in Events |-> "new"] /\ vTodo = {} /\ vWorker = [w \in Workers |-> Free]
  /\ vClose = "idle" /\ vDone = {} /\ vDropped = {} /\ vPanic = FALSE

VTypeOK ==
  /\ Len(vQueue) <= QueueSize
  /\ vSend \in [Events -> {"new", "locked", "refused", "returned"}]
  /\ \A w \in Workers : vWorker[w].pc \in {"free", "send", "backoff", "ended"}
  /\ vClose \in {"idle", "wait", "returned"} /\ ~vPanic

Wanted(e) == {h \in Hooks : <<e, h>> \in Matches}

\* Send takes closeMu; a closed sender does nothing.
VLock(e) ==
  /\ vSend[e] = "new" /\ vMu = "free"
  /\ IF vClosed
     THEN vSend' = [vSend EXCEPT ![e] = "refused"] /\ UNCHANGED <<vMu, vTodo>>
     ELSE vMu' = e /\ vSend' = [vSend EXCEPT ![e] = "locked"] /\ vTodo' = Wanted(e)
  /\ UNCHANGED <<vQueue, vOpen, vClosed, vWorker, vClose, vDone, vDropped, vPanic>>

\* Each hook whose filter matches gets a job, unless the queue is full.
VEnqueue(e, h) ==
  /\ vSend[e] = "locked" /\ h \in vTodo
  /\ vTodo' = vTodo \ {h} /\ vPanic' = ~vOpen
  /\ IF Len(vQueue) < QueueSize
     THEN vQueue' = Append(vQueue, <<e, h>>) /\ UNCHANGED vDropped
     ELSE vDropped' = vDropped \cup {<<e, h>>} /\ UNCHANGED vQueue
  /\ UNCHANGED <<vOpen, vClosed, vMu, vSend, vWorker, vClose, vDone>>

VUnlock(e) ==
  /\ vSend[e] = "locked" /\ vTodo = {}
  /\ vSend' = [vSend EXCEPT ![e] = "returned"] /\ vMu' = "free"
  /\ UNCHANGED <<vTodo, vQueue, vOpen, vClosed, vWorker, vClose, vDone, vDropped, vPanic>>

\* worker: the next job; the loop ends when the queue is closed and empty.
VTake(w) ==
  /\ vWorker[w].pc = "free" /\ vQueue # <<>>
  /\ vWorker' = [vWorker EXCEPT ![w] = [pc |-> "send", job |-> Head(vQueue), attempt |-> 1]]
  /\ vQueue' = Tail(vQueue)
  /\ UNCHANGED <<vOpen, vClosed, vMu, vSend, vTodo, vClose, vDone, vDropped, vPanic>>

VWorkerEnds(w) ==
  /\ vWorker[w].pc = "free" /\ vQueue = <<>> /\ ~vOpen
  /\ vWorker' = [vWorker EXCEPT ![w].pc = "ended"]
  /\ UNCHANGED <<vQueue, vOpen, vClosed, vMu, vSend, vTodo, vClose, vDone, vDropped, vPanic>>

Outcome(w, ok) == [job |-> vWorker[w].job, attempts |-> vWorker[w].attempt, ok |-> ok]

\* sendWithRetry: sendOne succeeds, or fails and is tried again after the
\* backoff, or has failed maxRetries times.
VAttempt(w) ==
  /\ vWorker[w].pc = "send"
  /\ \/ vWorker' = [vWorker EXCEPT ![w] = Free] /\ vDone' = vDone \cup {Outcome(w, TRUE)}
     \/ IF vWorker[w].attempt < MaxRetries
        THEN vWorker' = [vWorker EXCEPT ![w].pc = "backoff"] /\ UNCHANGED vDone
        ELSE vWorker' = [vWorker EXCEPT ![w] = Free] /\ vDone' = vDone \cup {Outcome(w, FALSE)}
  /\ UNCHANGED <<vQueue, vOpen, vClosed, vMu, vSend, vTodo, vClose, vDropped, vPanic>>

VBackoff(w) ==
  /\ vWorker[w].pc = "backoff"
  /\ vWorker' = [vWorker EXCEPT ![w].pc = "send", ![w].attempt = @ + 1]
  /\ UNCHANGED <<vQueue, vOpen, vClosed, vMu, vSend, vTodo, vClose, vDone, vDropped, vPanic>>

\* Mutant of VClose: the queue is closed without the lock.
VCloseUnlocked ==
  /\ vClose = "idle"
  /\ vClosed' = TRUE /\ vOpen' = FALSE /\ vClose' = "wait"
  /\ UNCHANGED <<vMu, vQueue, vSend, vTodo, vWorker, vDone, vDropped, vPanic>>

\* Close: the queue is closed under closeMu, which stays held (and every Send
\* blocked) until the workers have ended; only then is the context canceled.
VClose ==
  /\ vClose = "idle" /\ vMu = "free"
  /\ vMu' = "close" /\ vClosed' = TRUE /\ vOpen' = FALSE /\ vClose' = "wait"
  /\ UNCHANGED <<vQueue, vSend, vTodo, vWorker, vDone, vDropped, vPanic>>

VCloseReturns ==
  /\ vClose = "wait" /\ \A w \in Workers : vWorker[w].pc = "ended"
  /\ vMu' = "free" /\ vClose' = "returned"
  /\ UNCHANGED <<vQueue, vOpen, vClosed, vSend, vTodo, vWorker, vDone, vDropped, vPanic>>

VNext ==
  \/ VClose \/ VCloseReturns
  \/ \E e \in Events : VLock(e) \/ VUnlock(e) \/ \E h \in Hooks : VEnqueue(e, h)
  \/ \E w \in Workers : VTake(w) \/ VWorkerEnds(w) \/ VAttempt(w) \/ VBackoff(w)

VSpec == VInit /\ [][VNext]_vvars

-----------------------------------------------------------------------------
Ended == {o.job : o \in vDone}
Busy == {w \in Workers : vWorker[w].pc \in {"send", "backoff"}}
Working == {vWorker[w].job : w \in Busy}

\* Every job accepted is in one place at most, once: the queue, a worker, or
\* ended; it ends once, delivered or after exactly MaxRetries attempts.
JobsConserved ==
  /\ \A i, j \in 1 .. Len(vQueue) : vQueue[i] = vQueue[j] => i = j
  /\ \A v, w \in Busy : vWorker[v].job = vWorker[w].job => v = w
  /\ \A o, p \in vDone : o.job = p.job => o = p
  /\ ToSet(vQueue) \cap Working = {} /\ (ToSet(vQueue) \cup Working) \cap Ended = {}
  /\ \A o \in vDone : o.attempts <= MaxRetries /\ (~o.ok => o.attempts = MaxRetries)
  /\ \A w \in Workers : vWorker[w].attempt <= MaxRetries

\* An event whose Send was not refused has a job in one of these places,
\* or dropped at a full queue, for every hook that wants it; and when Close has
\* returned, no job is left behind.
NothingSkipped ==
  /\ \A e \in Events, h \in Hooks :
       (vSend[e] = "returned" /\ <<e, h>> \in Matches) =>
         <<e, h>> \in ToSet(vQueue) \cup Working \cup Ended \cup vDropped
  /\ vClose = "returned" => vQueue = <<>> /\ Working = {}

\* Notifications are neither lost between queue and workers nor sent to a
\* closed queue, and shutting down delivers what was accepted
\* (webhook.go, Send, worker, Close).
WebhookSafe == VTypeOK /\ JobsConserved /\ NothingSkipped
=============================================================================
