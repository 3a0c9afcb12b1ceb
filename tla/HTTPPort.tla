------------------------------- MODULE HTTPPort -------------------------------
(***************************************************************************)
(* An HTTP port of a proxy (proxymanager/port_http.go): limitedListener    *)
(* gives every accepted connection one of MaxHTTPConns slots, Serve is the *)
(* http.Server's accept loop, and close races with both.                   *)
(* Serve, Shutdown and the connections are net/http's: Shutdown closes the *)
(* listeners that Serve has registered, waits for Serve without a time     *)
(* limit, and then up to shutdownTimeout for the connections.              *)
(***************************************************************************)
EXTENDS Integers, FiniteSets

CONSTANTS HConns,     \* connections of clients
          HMaxConns   \* MaxHTTPConns

ASSUME HMaxConnsAssumption == HMaxConns \in Nat \ {0}

VARIABLES
  hCtx,      \* p.ctx is canceled
  hListener, \* the net.Listener: "given" until start has taken it
  hDone,     \* limitedListener.done is closed
  hServe,    \* startWithListener and Serve
  hTaken,    \* the connection Accept has taken and not returned
  hConn,     \* "out", "taken", then as the server sees it
  hSem,      \* len(p.sem)
  hShut,     \* the server's inShutdown
  hTracked,  \* Serve has registered its listener
  hClose     \* close

hvars == <<hCtx, hListener, hDone, hServe, hTaken, hConn, hSem, hShut, hTracked, hClose>>

HInit ==
  /\ hCtx = FALSE /\ hListener = "given" /\ hDone = FALSE
  /\ hServe = "new" /\ hTaken = {} /\ hConn = [c \in HConns |-> "out"]
  /\ hSem = 0 /\ hShut = FALSE /\ hTracked = FALSE /\ hClose = "idle"

HTypeOK ==
  /\ hListener \in {"given", "open", "closed"}
  /\ hServe \in {"new", "serve", "accept", "slot", "close", "ended"}
  /\ hTaken \subseteq HConns /\ Cardinality(hTaken) <= 1
  /\ hConn \in [HConns -> {"out", "taken", "active", "idle", "half", "closed"}]
  /\ hSem \in 0 .. HMaxConns
  /\ hClose \in {"idle", "serve", "conns", "cancel", "returned"}

Holding == {c \in HConns : hConn[c] \in {"active", "idle"}}

\* portStartLock, and the listener is wrapped and kept under p.mtx.
HStart ==
  /\ hServe = "new"
  /\ IF hCtx THEN hListener' = "closed" /\ hServe' = "ended"
             ELSE hListener' = "open" /\ hServe' = "serve"
  /\ UNCHANGED <<hCtx, hDone, hTaken, hConn, hSem, hShut, hTracked, hClose>>

\* Serve registers the listener unless the server is shut down.
HServe ==
  /\ hServe = "serve"
  /\ IF hShut THEN hServe' = "close" /\ UNCHANGED hTracked
              ELSE hServe' = "accept" /\ hTracked' = TRUE
  /\ UNCHANGED <<hCtx, hListener, hDone, hTaken, hConn, hSem, hShut, hClose>>

\* Accept of the wrapped listener: a connection, or the listener is closed.
HAccept(c) ==
  /\ hServe = "accept"
  /\ \/ /\ hListener = "open" /\ hConn[c] = "out"
        /\ hConn' = [hConn EXCEPT ![c] = "taken"]
        /\ hTaken' = {c} /\ hServe' = "slot"
     \/ /\ hListener = "closed"
        /\ hServe' = "close" /\ UNCHANGED <<hConn, hTaken>>
  /\ UNCHANGED <<hCtx, hListener, hDone, hSem, hShut, hTracked, hClose>>

\* Then Accept waits for a slot or for done; when both are there either
\* branch of the select is taken.
HSlot ==
  /\ hServe = "slot"
  /\ \E c \in hTaken :
       \/ /\ hSem < HMaxConns
          /\ hSem' = hSem + 1 /\ hConn' = [hConn EXCEPT ![c] = "active"]
          /\ hServe' = "accept"
       \/ /\ hDone
          /\ hConn' = [hConn EXCEPT ![c] = "closed"]
          /\ hServe' = "close" /\ UNCHANGED hSem
  /\ hTaken' = {}
  /\ UNCHANGED <<hCtx, hListener, hDone, hShut, hTracked, hClose>>

\* Serve has returned: its deferred Close, and the one after it.
HServeReturns ==
  /\ hServe = "close"
  /\ hServe' = "ended" /\ hListener' = "closed" /\ hDone' = TRUE
  /\ hTracked' = FALSE
  /\ UNCHANGED <<hCtx, hTaken, hConn, hSem, hShut, hClose>>

\* A request begins or is answered.
HRequest(c) ==
  /\ hConn[c] \in {"active", "idle"}
  /\ hConn' = [hConn EXCEPT ![c] = IF @ = "idle" THEN "active" ELSE "idle"]
  /\ UNCHANGED <<hCtx, hListener, hDone, hServe, hTaken, hSem, hShut, hTracked, hClose>>

\* The first Close of a connection gives the slot back: by the server's
\* goroutine, by a hijacker, or by Shutdown when it is idle.
HConnClose(c) ==
  /\ c \in Holding
  /\ hConn' = [hConn EXCEPT ![c] = "half"] /\ hSem' = hSem - 1
  /\ UNCHANGED <<hCtx, hListener, hDone, hServe, hTaken, hShut, hTracked, hClose>>

\* The goroutine's own Close comes after another's.
HConnCloseAgain(c) ==
  /\ hConn[c] = "half"
  /\ hConn' = [hConn EXCEPT ![c] = "closed"]
  /\ UNCHANGED <<hCtx, hListener, hDone, hServe, hTaken, hSem, hShut, hTracked, hClose>>

\* Mutant of HShutdown: the wrapped listener is closed, done is not.
HShutdownMute ==
  /\ hClose = "idle"
  /\ hShut' = TRUE /\ hClose' = "serve"
  /\ hListener' = IF hTracked THEN "closed" ELSE hListener
  /\ UNCHANGED <<hCtx, hDone, hServe, hTaken, hConn, hSem, hTracked>>

\* close: Shutdown closes what Serve has registered (limitedListener.Close).
HShutdown ==
  /\ hClose = "idle"
  /\ hShut' = TRUE /\ hClose' = "serve"
  /\ hListener' = IF hTracked THEN "closed" ELSE hListener
  /\ hDone' = (hDone \/ hTracked)
  /\ UNCHANGED <<hCtx, hServe, hTaken, hConn, hSem, hTracked>>

\* Shutdown waits for Serve, however long it takes.
HServeGone ==
  /\ hClose = "serve" /\ ~hTracked
  /\ hClose' = "conns"
  /\ UNCHANGED <<hCtx, hListener, hDone, hServe, hTaken, hConn, hSem, hShut, hTracked>>

\* No connection is left, or shutdownTimeout is over.
HConnsGone ==
  /\ hClose = "conns"
  /\ hClose' = "cancel"
  /\ UNCHANGED <<hCtx, hListener, hDone, hServe, hTaken, hConn, hSem, hShut, hTracked>>

\* limiter.close and p.cancel.
HCancel ==
  /\ hClose = "cancel"
  /\ hClose' = "returned" /\ hCtx' = TRUE
  /\ UNCHANGED <<hListener, hDone, hServe, hTaken, hConn, hSem, hShut, hTracked>>

HNext ==
  \/ HStart \/ HServe \/ HSlot \/ HServeReturns
  \/ \E c \in HConns : HAccept(c) \/ HRequest(c) \/ HConnClose(c) \/ HConnCloseAgain(c)
  \/ HShutdown \/ HServeGone \/ HConnsGone \/ HCancel

HSpec == HInit /\ [][HNext]_hvars

-----------------------------------------------------------------------------
\* p.sem counts the connections that the server holds: the slot is taken
\* once and given back once, however often a connection is closed.
HSlotsCounted == hSem = Cardinality(Holding) /\ hSem <= HMaxConns

\* When close and startWithListener have both returned, in whatever order they
\* ran, the listener is closed and no connection is left without an owner.
HClosedIsQuiet ==
  (hClose = "returned" /\ hServe = "ended") => (hListener = "closed" /\ hTaken = {})

\* Shutdown never waits for an Accept that waits for a slot: done wakes it.
HWakes == (hClose = "serve" /\ hServe = "slot") => hDone

\* An HTTP port accounts for its connections, and its listener survives
\* neither order of start and close (port_http.go, limitedListener, close).
HTTPSafe == HTypeOK /\ HSlotsCounted /\ HClosedIsQuiet /\ HWakes
=============================================================================
