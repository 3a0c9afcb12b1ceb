------------------------------- MODULE TCPPort -------------------------------
(***************************************************************************)
(* A TCP port of a proxy (proxymanager/port_tcp.go): the accept loop, a    *)
(* goroutine per connection, and close, which may come before, during or   *)
(* after startWithListener.                                                *)
(***************************************************************************)
EXTENDS Integers, FiniteSets

CONSTANTS TConns,      \* connections that clients open
          TMaxConns,   \* capacity of p.sem
          TMaxRetries  \* maxTCPAcceptRetries

\* The loop makes a second try at least once.
ASSUME TMaxConnsAssumption == TMaxConns \in Nat /\ TMaxRetries \in Nat \ {0}

VARIABLES
  tCtx,      \* p.ctx is canceled
  tListener, \* the listener: "given" until start has taken it
  tStarted,  \* p.started
  tServe,    \* startWithListener
  tRetries,
  tSem,      \* slots of p.sem in use
  tConn,     \* handleConn of each connection
  tClose     \* close

tvars == <<tCtx, tListener, tStarted, tServe, tRetries, tSem, tConn, tClose>>

TInit ==
  /\ tCtx = FALSE /\ tListener = "given" /\ tStarted = FALSE
  /\ tServe = "new" /\ tRetries = 0 /\ tSem = 0
  /\ tConn = [c \in TConns |-> "none"]
  /\ tClose = "idle"

TTypeOK ==
  /\ tListener \in {"given", "open", "closed"}
  /\ tServe \in {"new", "accept", "sleep", "drain", "ended"}
  /\ tRetries \in 0 .. TMaxRetries
  /\ tConn \in [TConns -> {"none", "rejected", "dial", "copy", "half", "closed"}]
  /\ tClose \in {"idle", "cancel", "started", "wait", "returned"}

\* portStartLock and what follows under p.mtx.
TStart ==
  /\ tServe = "new"
  /\ tStarted' = TRUE
  /\ IF tCtx THEN tListener' = "closed" /\ tServe' = "ended"
             ELSE tListener' = "open" /\ tServe' = "accept"
  /\ UNCHANGED <<tCtx, tRetries, tSem, tConn, tClose>>

\* A connection takes a slot or is rejected; the loop's own increment follows
\* the reset of retries.
TAccept(c) ==
  /\ tServe = "accept" /\ tListener = "open" /\ tConn[c] = "none"
  /\ IF tSem < TMaxConns
     THEN tConn' = [tConn EXCEPT ![c] = "dial"] /\ tSem' = tSem + 1
     ELSE tConn' = [tConn EXCEPT ![c] = "rejected"] /\ UNCHANGED tSem
  /\ tRetries' = 1
  /\ UNCHANGED <<tCtx, tListener, tStarted, tServe, tClose>>

\* Accept fails: the listener is closed, or it is worth another try, or not.
TAcceptFails ==
  /\ tServe = "accept"
  /\ \/ tListener = "closed" /\ tServe' = "drain" /\ UNCHANGED <<tListener, tRetries>>
     \/ /\ tListener = "open" /\ tRetries < TMaxRetries
        /\ tServe' = "sleep" /\ UNCHANGED <<tListener, tRetries>>
     \/ /\ tListener = "open" /\ tRetries = TMaxRetries
        /\ tServe' = "drain" /\ tListener' = "closed" /\ UNCHANGED tRetries
  /\ UNCHANGED <<tCtx, tStarted, tSem, tConn, tClose>>

TSleepEnds ==
  /\ tServe = "sleep"
  /\ \/ tServe' = "accept" /\ tRetries' = tRetries + 1
     \/ tCtx /\ tServe' = "drain" /\ UNCHANGED tRetries
  /\ UNCHANGED <<tCtx, tListener, tStarted, tSem, tConn, tClose>>

\* The goroutine that waits for the context closes the listener.
TContextCloses ==
  /\ tCtx /\ tListener = "open"
  /\ tListener' = "closed"
  /\ UNCHANGED <<tCtx, tStarted, tServe, tRetries, tSem, tConn, tClose>>

\* handleConn: the backend is dialled, which the context ends too.
TDial(c) ==
  /\ tConn[c] = "dial"
  /\ \/ ~tCtx /\ tConn' = [tConn EXCEPT ![c] = "copy"] /\ UNCHANGED tSem
     \/ tConn' = [tConn EXCEPT ![c] = "closed"] /\ tSem' = tSem - 1
  /\ UNCHANGED <<tCtx, tListener, tStarted, tServe, tRetries, tClose>>

\* The first direction ends (of itself, after tcpIdleTimeout, or because the
\* context has closed both ends): both are closed.
TFirstEnds(c) ==
  /\ tConn[c] = "copy"
  /\ tConn' = [tConn EXCEPT ![c] = "half"]
  /\ UNCHANGED <<tCtx, tListener, tStarted, tServe, tRetries, tSem, tClose>>

\* Then the other, and the slot is given back.
TSecondEnds(c) ==
  /\ tConn[c] = "half"
  /\ tConn' = [tConn EXCEPT ![c] = "closed"]
  /\ tSem' = tSem - 1
  /\ UNCHANGED <<tCtx, tListener, tStarted, tServe, tRetries, tClose>>

Handled == {c \in TConns : tConn[c] \in {"dial", "copy", "half"}}

\* Mutant of TServeEnds: wg is not waited for.
TServeEndsEarly ==
  /\ tServe = "drain"
  /\ tServe' = "ended"
  /\ UNCHANGED <<tCtx, tListener, tStarted, tRetries, tSem, tConn, tClose>>

\* The deferred calls: wg.Wait, then acceptWg.Done.
TServeEnds ==
  /\ tServe = "drain" /\ Handled = {}
  /\ tServe' = "ended"
  /\ UNCHANGED <<tCtx, tListener, tStarted, tRetries, tSem, tConn, tClose>>

\* close: the listener under p.mtx, then the context, then started.
TCloseListener ==
  /\ tClose = "idle"
  /\ tClose' = "cancel"
  /\ tListener' = IF tListener = "open" THEN "closed" ELSE tListener
  /\ UNCHANGED <<tCtx, tStarted, tServe, tRetries, tSem, tConn>>

TCancel ==
  /\ tClose = "cancel"
  /\ tCtx' = TRUE /\ tClose' = "started"
  /\ UNCHANGED <<tListener, tStarted, tServe, tRetries, tSem, tConn>>

TCloseReturns ==
  /\ \/ tClose = "started" /\ tClose' = IF tStarted THEN "wait" ELSE "returned"
     \/ tClose = "wait" /\ tServe = "ended" /\ tClose' = "returned"
  /\ UNCHANGED <<tCtx, tListener, tStarted, tServe, tRetries, tSem, tConn>>

TNext ==
  \/ TStart \/ TAcceptFails \/ TSleepEnds \/ TContextCloses \/ TServeEnds
  \/ TCloseListener \/ TCancel \/ TCloseReturns
  \/ \E c \in TConns : TAccept(c) \/ TDial(c) \/ TFirstEnds(c) \/ TSecondEnds(c)

TSpec == TInit /\ [][TNext]_tvars

-----------------------------------------------------------------------------
(* Properties. *)

\* When close has returned nobody accepts and no connection is left, and a
\* start that was on its way does not change that.  (The listener may be closed
\* a moment later, by the goroutine that waits for the context.)
TClosedIsQuiet ==
  tClose = "returned" => tServe \in {"new", "ended"} /\ Handled = {}

\* Every slot belongs to a connection, and there are never more of them than
\* allowed.
TSlotsCounted == tSem = Cardinality(Handled) /\ tSem <= TMaxConns

\* Slots are counted exactly and a closed TCP port is quiet, whatever its
\* listener, its handlers and a late start do (port_tcp.go, serve, close).
TCPSafe == TTypeOK /\ TClosedIsQuiet /\ TSlotsCounted
=============================================================================
