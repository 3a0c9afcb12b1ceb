------------------------------- MODULE UDPPort -------------------------------
(***************************************************************************)
(* A UDP port of a proxy (proxymanager/port_udp.go).  relayPackets is one  *)
(* goroutine; each client has a session: a socket to the backend and a     *)
(* goroutine that copies the answers.  A session is dialled without        *)
(* clientMapMtx, evicted at the limit, expires when it is idle, and races  *)
(* with close.  Sessions are numbered in the order they are dialled.       *)
(***************************************************************************)
EXTENDS Integers, Sequences, FiniteSets, SequencesExt

CONSTANTS Clients,
          UMaxClients,  \* udpMaxClients
          UMaxSessions  \* bound: how many sessions are ever dialled

ASSUME UAssumption == UMaxClients \in Nat /\ UMaxSessions \in Nat

Sessions == 1 .. UMaxSessions

VARIABLES
  uCtx,     \* p.ctx is canceled
  uSocket,  \* the PacketConn: "given" until start has taken it
  uStarted, \* p.started
  uServe,   \* startWithPacketConn and relayPackets
  uPacket,  \* the client whose packet is handled and the session dialled for it
  uMap,     \* p.clientMap: the session of each client, 0: none
  uSeen,    \* the clients of the map by lastSeen, oldest first
  uConn,    \* backend socket of each session
  uOwner,   \* its client
  uRelay,   \* relayBackendToClient of each session
  uWatch,   \* the goroutine that waits for the context
  uClose    \* close

uvars == <<uCtx, uSocket, uStarted, uServe, uPacket, uMap, uSeen, uConn, uOwner,
           uRelay, uWatch, uClose>>

NoPacket == [from |-> 0, session |-> 0]

UInit ==
  /\ uCtx = FALSE /\ uSocket = "given" /\ uStarted = FALSE
  /\ uServe = "new" /\ uPacket = NoPacket
  /\ uMap = [c \in Clients |-> 0] /\ uSeen = <<>>
  /\ uConn = [s \in Sessions |-> "none"] /\ uOwner = [s \in Sessions |-> 0]
  /\ uRelay = [s \in Sessions |-> "none"]
  /\ uWatch = "none" /\ uClose = "idle"

UTypeOK ==
  /\ uSocket \in {"given", "open", "closed"}
  /\ uServe \in {"new", "read", "lookup", "dial", "install", "end", "ended"}
  /\ uMap \in [Clients -> 0 .. UMaxSessions]
  /\ uConn \in [Sessions -> {"none", "open", "closed"}]
  /\ uRelay \in [Sessions -> {"none", "run", "forget", "ended"}]
  /\ uClose \in {"idle", "clients", "cancel", "started", "wait", "returned"}

Known == {c \in Clients : uMap[c] # 0}
Unseen(c) == IF c \in ToSet(uSeen)
             THEN RemoveAt(uSeen, CHOOSE k \in DOMAIN uSeen : uSeen[k] = c)
             ELSE uSeen
Seen(c) == Append(Unseen(c), c)

\* portStartLock and what follows under p.mtx.
UStart ==
  /\ uServe = "new"
  /\ uStarted' = TRUE
  /\ \/ /\ ~uCtx
        /\ uSocket' = "open" /\ uServe' = "read" /\ uWatch' = "wait"
     \/ \* the context is canceled, or there is no target
        uSocket' = "closed" /\ uServe' = "ended" /\ UNCHANGED uWatch
  /\ UNCHANGED <<uCtx, uPacket, uMap, uSeen, uConn, uOwner, uRelay, uClose>>

UContextCloses ==
  /\ uWatch = "wait" /\ uCtx
  /\ uWatch' = "ended" /\ uSocket' = "closed"
  /\ UNCHANGED <<uCtx, uStarted, uServe, uPacket, uMap, uSeen, uConn, uOwner,
                 uRelay, uClose>>

\* A packet of a client; or the socket is closed or fails.
URead(c) ==
  /\ uServe = "read"
  /\ \/ /\ uSocket = "open"
        /\ uServe' = "lookup" /\ uPacket' = [NoPacket EXCEPT !.from = c]
     \/ uServe' = "end" /\ UNCHANGED uPacket
  /\ UNCHANGED <<uCtx, uSocket, uStarted, uMap, uSeen, uConn, uOwner, uRelay,
                 uWatch, uClose>>

\* Phase 1 of getOrCreateBackendConn: a known client's packet is written (or
\* rate limited).
ULookup ==
  /\ uServe = "lookup"
  /\ IF uPacket.from \in Known
     THEN /\ uServe' = "read" /\ uPacket' = NoPacket
          /\ uSeen' = Seen(uPacket.from)
     ELSE uServe' = "dial" /\ UNCHANGED <<uPacket, uSeen>>
  /\ UNCHANGED <<uCtx, uSocket, uStarted, uMap, uConn, uOwner, uRelay, uWatch,
                 uClose>>

\* Phase 2: no lock is held.
UDial ==
  /\ uServe = "dial"
  /\ \/ \E s \in Sessions :
          /\ uConn[s] = "none" /\ \A r \in 1 .. s - 1 : uConn[r] # "none"
          /\ uConn' = [uConn EXCEPT ![s] = "open"]
          /\ uOwner' = [uOwner EXCEPT ![s] = uPacket.from]
          /\ uPacket' = [uPacket EXCEPT !.session = s]
          /\ uServe' = "install"
     \/ uServe' = "read" /\ uPacket' = NoPacket /\ UNCHANGED <<uConn, uOwner>>
  /\ UNCHANGED <<uCtx, uSocket, uStarted, uMap, uSeen, uRelay, uWatch, uClose>>

\* Phase 3, under clientMapMtx: a canceled context is seen; otherwise the
\* session is entered, the oldest one evicted at the limit, and the copying
\* goroutine started.
UInstall ==
  /\ uServe = "install"
  /\ uServe' = "read" /\ uPacket' = NoPacket
  /\ LET c == uPacket.from  s == uPacket.session
         full == Cardinality(Known \cup {c}) >= UMaxClients
         old == Head(Seen(c))
     IN IF uCtx
        THEN uConn' = [uConn EXCEPT ![s] = "closed"] /\ UNCHANGED <<uMap, uSeen, uRelay>>
        ELSE /\ uRelay' = [uRelay EXCEPT ![s] = "run"]
             /\ uMap' = IF full THEN [uMap EXCEPT ![c] = s, ![old] = 0]
                                ELSE [uMap EXCEPT ![c] = s]
             /\ uSeen' = IF full THEN Tail(Seen(c)) ELSE Seen(c)
             /\ uConn' = IF full /\ old # c
                         THEN [uConn EXCEPT ![uMap[old]] = "closed"]
                         ELSE IF full THEN [uConn EXCEPT ![s] = "closed"] ELSE uConn
  /\ UNCHANGED <<uCtx, uSocket, uStarted, uOwner, uWatch, uClose>>

\* The copying goroutine ends: its socket is closed, it is idle for
\* udpIdleTimeout, or an error; entry.close comes first.
URelayEnds(s) ==
  /\ uRelay[s] = "run"
  /\ uRelay' = [uRelay EXCEPT ![s] = "forget"]
  /\ uConn' = [uConn EXCEPT ![s] = "closed"]
  /\ UNCHANGED <<uCtx, uSocket, uStarted, uServe, uPacket, uMap, uSeen, uOwner,
                 uWatch, uClose>>

\* Mutant of UForget: the entry is deleted whosoever it is.
UForgetAny(s) ==
  /\ uRelay[s] = "forget"
  /\ uRelay' = [uRelay EXCEPT ![s] = "ended"]
  /\ uMap' = [uMap EXCEPT ![uOwner[s]] = 0] /\ uSeen' = Unseen(uOwner[s])
  /\ UNCHANGED <<uCtx, uSocket, uStarted, uServe, uPacket, uConn, uOwner, uWatch,
                 uClose>>

\* Then, under the lock, the entry is deleted unless another has replaced it.
UForget(s) ==
  /\ uRelay[s] = "forget"
  /\ uRelay' = [uRelay EXCEPT ![s] = "ended"]
  /\ IF uMap[uOwner[s]] = s
     THEN uMap' = [uMap EXCEPT ![uOwner[s]] = 0] /\ uSeen' = Unseen(uOwner[s])
     ELSE UNCHANGED <<uMap, uSeen>>
  /\ UNCHANGED <<uCtx, uSocket, uStarted, uServe, uPacket, uConn, uOwner, uWatch,
                 uClose>>

CloseAll == uConn' = [s \in Sessions |->
   IF \E c \in Clients : uMap[c] = s THEN "closed" ELSE uConn[s]]

\* relayPackets returns: its deferred closeAllClients.
URelayPacketsEnds ==
  /\ uServe = "end"
  /\ uServe' = "ended" /\ CloseAll
  /\ UNCHANGED <<uCtx, uSocket, uStarted, uPacket, uMap, uSeen, uOwner, uRelay,
                 uWatch, uClose>>

\* close: the socket, the sessions known by now, the context, and the wait for
\* every goroutine of a started port.
UCloseSocket ==
  /\ uClose = "idle"
  /\ uSocket' = IF uSocket = "open" THEN "closed" ELSE uSocket
  /\ uClose' = "clients"
  /\ UNCHANGED <<uCtx, uStarted, uServe, uPacket, uMap, uSeen, uConn, uOwner,
                 uRelay, uWatch>>

UCloseClients ==
  /\ uClose = "clients"
  /\ CloseAll /\ uClose' = "cancel"
  /\ UNCHANGED <<uCtx, uSocket, uStarted, uServe, uPacket, uMap, uSeen, uOwner,
                 uRelay, uWatch>>

UCancel ==
  /\ uClose = "cancel"
  /\ uCtx' = TRUE /\ uClose' = "started"
  /\ UNCHANGED <<uSocket, uStarted, uServe, uPacket, uMap, uSeen, uConn, uOwner,
                 uRelay, uWatch>>

UCloseReturns ==
  /\ \/ uClose = "started" /\ uClose' = IF uStarted THEN "wait" ELSE "returned"
     \/ /\ uClose = "wait" /\ uServe = "ended" /\ uWatch # "wait"
        /\ \A s \in Sessions : uRelay[s] \in {"none", "ended"}
        /\ uClose' = "returned"
  /\ UNCHANGED <<uCtx, uSocket, uStarted, uServe, uPacket, uMap, uSeen, uConn,
                 uOwner, uRelay, uWatch>>

UNext ==
  \/ UStart \/ UContextCloses \/ ULookup \/ UDial \/ UInstall \/ URelayPacketsEnds
  \/ \E c \in Clients : URead(c)
  \/ \E s \in Sessions : URelayEnds(s) \/ UForget(s)
  \/ UCloseSocket \/ UCloseClients \/ UCancel \/ UCloseReturns

USpec == UInit /\ [][UNext]_uvars

-----------------------------------------------------------------------------
(* Properties. *)

\* When close has returned, every socket is closed and every session forgotten,
\* also one that was being dialled while close went over the sessions.
UClosedIsQuiet ==
  uClose = "returned" => /\ uServe \in {"new", "ended"} /\ uSocket # "open"
                         /\ \A s \in Sessions : uConn[s] # "open"
                         /\ Known = {}

\* An open backend socket is the one its client's packets go to (or has just
\* been dialled): eviction, expiry and redialling lose none and keep none.
NoLostSession ==
  \A s \in Sessions : uConn[s] = "open" =>
     uMap[uOwner[s]] = s \/ (uServe = "install" /\ uPacket.session = s)

\* The limit holds, and the clients by age are those of the map.
SessionsBounded ==
  /\ Cardinality(Known) <= UMaxClients
  /\ ToSet(uSeen) = Known /\ Len(uSeen) = Cardinality(Known)

\* UDP sessions are dialled without the lock: however packets, expiry, eviction
\* and close overlap, no backend connection is lost, the limit holds and a
\* closed port is quiet (port_udp.go, getOrCreateBackendConn, close).
UDPSafe == UTypeOK /\ UClosedIsQuiet /\ NoLostSession /\ SessionsBounded
=============================================================================
