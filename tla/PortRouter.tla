------------------------------ MODULE PortRouter ------------------------------
(***************************************************************************)
(* The routing of connections on a port of the shared node                 *)
(* (proxyproviders/tailscale: port_router.go, virtual_listener.go).  Each  *)
(* accepted connection has a goroutine that reads the host name out of its *)
(* first bytes, looks the name up and hands the connection to the virtual  *)
(* listener of that name, whose proxy accepts it.  Meanwhile names are     *)
(* registered and unregistered.                                            *)
(*                                                                         *)
(* A listener is the n-th one ever registered; the bytes of a connection   *)
(* are its positions 1 .. Bytes.                                           *)
(***************************************************************************)
EXTENDS Integers, Sequences, FiniteSets

CONSTANTS Domains, Conns,
          MaxListeners, \* bound: how many virtual listeners are ever made
          BufSize,      \* connBufferSize
          Bytes         \* bound: bytes sent by a client

ASSUME RAssumption == MaxListeners \in Nat /\ BufSize \in Nat /\ Bytes \in Nat

Ids == 1 .. MaxListeners

VARIABLES
  routes,  \* PortRouter.listeners: the listener of each domain, 0: none
  vl,      \* the virtual listeners
  closing, \* the listeners that Unregister or CloseAll, holding r.mu, waits for
  conn     \* handleConn of each connection

rvars == <<routes, vl, closing, conn>>

NoVL == [state |-> "none", domain |-> "", ch |-> <<>>, done |-> FALSE]
NoConn == [pc |-> "new", host |-> "", got |-> 0, taken |-> 0, to |-> 0,
           replayed |-> <<>>]

RInit ==
  /\ routes = [d \in Domains |-> 0]
  /\ vl = [i \in Ids |-> NoVL]
  /\ closing = {}
  /\ conn = [c \in Conns |-> NoConn]

RTypeOK ==
  /\ routes \in [Domains -> 0 .. MaxListeners]
  /\ \A i \in Ids : vl[i].state \in {"none", "open", "closed", "drained"}
                    /\ Len(vl[i].ch) <= BufSize
  /\ \A c \in Conns : conn[c].pc \in {"new", "sniff", "lookup", "dispatch",
                                      "queued", "accepted", "closed"}

Locked == closing # {}            \* r.mu is held for writing

\* Register.
Register(d) ==
  /\ ~Locked /\ routes[d] = 0
  /\ \E i \in Ids :
       /\ vl[i].state = "none" /\ \A j \in 1 .. i - 1 : vl[j].state # "none"
       /\ vl' = [vl EXCEPT ![i] = [NoVL EXCEPT !.state = "open", !.domain = d]]
       /\ routes' = [routes EXCEPT ![d] = i]
  /\ UNCHANGED <<closing, conn>>

\* Unregister and CloseAll: the listeners are closed one after the other before
\* r.mu is released.
Unregister(ds) ==
  /\ ~Locked
  /\ \E d \in ds : routes[d] # 0
  /\ closing' = {i \in Ids : vl[i].state # "drained" /\ \E d \in ds : routes[d] = i}
  /\ routes' = [d \in Domains |-> IF d \in ds THEN 0 ELSE routes[d]]
  /\ UNCHANGED <<vl, conn>>

\* VirtualListener.Close, called there or by the server that the proxy runs on
\* the listener, whichever is first; under vl.mu: nothing more is sent on the
\* channel.
CloseChannel(i) ==
  /\ vl[i].state = "open"
  /\ vl' = [vl EXCEPT ![i].state = "closed"]
  /\ UNCHANGED <<routes, closing, conn>>

\* close(vl.done), after vl.mu is released.
CloseDone(i) ==
  /\ vl[i].state = "closed" /\ ~vl[i].done
  /\ vl' = [vl EXCEPT ![i].done = TRUE]
  /\ UNCHANGED <<routes, closing, conn>>

\* The buffered connections are closed one by one, each unless an Accept takes
\* it first.
DrainChannel(i) ==
  /\ vl[i].state = "closed" /\ vl[i].done
  /\ IF vl[i].ch = <<>>
     THEN /\ vl' = [vl EXCEPT ![i].state = "drained"]
          /\ closing' = closing \ {i} /\ UNCHANGED conn
     ELSE /\ vl' = [vl EXCEPT ![i].ch = Tail(@)]
          /\ conn' = [conn EXCEPT ![Head(vl[i].ch)].pc = "closed"]
          /\ UNCHANGED closing
  /\ UNCHANGED routes

\* Serve accepts a connection, whose client asks for some host.
Serve(c, h) ==
  /\ conn[c].pc = "new"
  /\ conn' = [conn EXCEPT ![c].pc = "sniff", ![c].host = h]
  /\ UNCHANGED <<routes, vl, closing>>

\* clientHelloServerName peeks at the bytes it needs; httpHostHeader takes them
\* out of the reader.  Either way the reader may have got more than that, and
\* what it got is to be replayed.  No name, or one that is too long, ends it.
Sniff(c, sni) ==
  /\ conn[c].pc = "sniff"
  /\ IF conn[c].host = ""
     THEN conn' = [conn EXCEPT ![c].pc = "closed"]
     ELSE \E got \in 1 .. Bytes : \E taken \in (IF sni THEN {0} ELSE 1 .. got) :
            conn' = [conn EXCEPT ![c].pc = "lookup", ![c].got = got,
                       ![c].replayed = [k \in 1 .. taken |-> k]
                                       \o [k \in 1 .. got - taken |-> taken + k]]
  /\ UNCHANGED <<routes, vl, closing>>

\* The name is looked up under the read lock.
Lookup(c) ==
  /\ conn[c].pc = "lookup" /\ ~Locked
  /\ LET i == IF conn[c].host \in Domains THEN routes[conn[c].host] ELSE 0
     IN conn' = [conn EXCEPT ![c].pc = IF i = 0 THEN "closed" ELSE "dispatch",
                             ![c].to = i]
  /\ UNCHANGED <<routes, vl, closing>>

\* Mutant of Dispatch: vl.closed is not looked at, as if the channel were only
\* drained and never closed.
DispatchAnyway(c) ==
  /\ conn[c].pc = "dispatch"
  /\ IF Len(vl[conn[c].to].ch) = BufSize
     THEN conn' = [conn EXCEPT ![c].pc = "closed"] /\ UNCHANGED vl
     ELSE /\ conn' = [conn EXCEPT ![c].pc = "queued"]
          /\ vl' = [vl EXCEPT ![conn[c].to].ch = Append(@, c)]
  /\ UNCHANGED <<routes, closing>>

\* Dispatch, under vl.mu: a closed listener or a full buffer closes the
\* connection.
Dispatch(c) ==
  /\ conn[c].pc = "dispatch"
  /\ IF vl[conn[c].to].state # "open" \/ Len(vl[conn[c].to].ch) = BufSize
     THEN conn' = [conn EXCEPT ![c].pc = "closed"] /\ UNCHANGED vl
     ELSE /\ conn' = [conn EXCEPT ![c].pc = "queued"]
          /\ vl' = [vl EXCEPT ![conn[c].to].ch = Append(@, c)]
  /\ UNCHANGED <<routes, closing>>

\* Accept of the proxy; a closed channel still gives what is in it.
Accept(i) ==
  /\ vl[i].ch # <<>>
  /\ vl' = [vl EXCEPT ![i].ch = Tail(@)]
  /\ conn' = [conn EXCEPT ![Head(vl[i].ch)].pc = "accepted"]
  /\ UNCHANGED <<routes, closing>>

RNext ==
  \/ \E d \in Domains : Register(d) \/ Unregister({d})
  \/ Unregister(Domains)
  \/ \E i \in Ids : CloseChannel(i) \/ CloseDone(i) \/ DrainChannel(i) \/ Accept(i)
  \/ \E c \in Conns :
       \/ \E h \in Domains \cup {"", "unknown"} : Serve(c, h)
       \/ \E sni \in BOOLEAN : Sniff(c, sni)
       \/ Lookup(c) \/ Dispatch(c)

RSpec == RInit /\ [][RNext]_rvars

-----------------------------------------------------------------------------
(* Properties. *)

\* A connection handed over is in the buffer of the listener it was looked up
\* for, and of no other, until the proxy accepts it or closing the listener
\* closes it: a dispatch that races with Close leaves nothing behind.
NoneLeftBehind ==
  \A c \in Conns : conn[c].pc = "queued" <=>
     \E i \in Ids : /\ \E k \in 1 .. Len(vl[i].ch) : vl[i].ch[k] = c
                    /\ i = conn[c].to /\ vl[i].state # "drained"

\* The proxy that accepts a connection is the one registered under the host the
\* client asked for, and it reads every byte from the first, once.
RoutedWhole ==
  \A c \in Conns : conn[c].pc \in {"queued", "accepted"} =>
     /\ vl[conn[c].to].domain = conn[c].host
     /\ conn[c].replayed = [k \in 1 .. conn[c].got |-> k]

\* A connection is given whole to the listener of its host or closed, also when
\* that listener is unregistered or closed meanwhile (port_router.go,
\* handleConn; virtual_listener.go, Dispatch and Close).
RouterSafe == RTypeOK /\ NoneLeftBehind /\ RoutedWhole
=============================================================================
