----------------------------- MODULE PartsProofs -----------------------------
(***************************************************************************)
(* Proofs about the parts that stand by themselves: the port router, the   *)
(* webhook sender, the preferences, the way of a request and the whois     *)
(* cache, the health checker, the start of a node and the custom domain.   *)
(* Each part has its inductive invariant, what it rests on, and the        *)
(* theorem that every state of the part satisfies the property that its    *)
(* module states.                                                          *)
(***************************************************************************)
EXTENDS PortRouter, Webhook, Preferences, PeerIdentity, HealthChecker, NodeStart,
        DomainSetup, SequenceTheorems, FiniteSetTheorems, TLAPS

-----------------------------------------------------------------------------
(* The routing of connections. *)

Listeners == [state : {"none", "open", "closed", "drained"},
              domain : Domains \cup {""}, ch : Seq(Conns), done : BOOLEAN]
Handlers == [pc : {"new", "sniff", "lookup", "dispatch", "queued", "accepted", "closed"},
             host : Domains \cup {"", "unknown"}, got : Nat, taken : {0},
             to : 0 .. MaxListeners, replayed : Seq(Nat)]

\* What the variables hold.
RTyped ==
  /\ routes \in [Domains -> 0 .. MaxListeners]
  /\ vl \in [Ids -> Listeners]
  /\ conn \in [Conns -> Handlers]

\* The listener a name leads to was made for that name.
RRoutes == \A d \in Domains :
  routes[d] # 0 => vl[routes[d]].state # "none" /\ vl[routes[d]].domain = d

\* A buffer holds connections looked up for its listener, each once; it is
\* empty before the listener is made and once it is drained.
RBuffers == \A i \in Ids :
  /\ vl[i].state \in {"none", "drained"} => vl[i].ch = <<>>
  /\ Len(vl[i].ch) <= BufSize
  /\ \A k \in 1 .. Len(vl[i].ch) :
       conn[vl[i].ch[k]].pc = "queued" /\ conn[vl[i].ch[k]].to = i
  /\ \A j, k \in 1 .. Len(vl[i].ch) : vl[i].ch[j] = vl[i].ch[k] => j = k

\* A connection handed over is in the buffer of its listener.
RQueued == \A c \in Conns :
  conn[c].pc = "queued" =>
    \E k \in 1 .. Len(vl[conn[c].to].ch) : vl[conn[c].to].ch[k] = c

\* From the lookup on, a connection has a listener, made for its host.
RGoes == \A c \in Conns :
  conn[c].pc \in {"dispatch", "queued", "accepted"} =>
    /\ conn[c].to \in Ids /\ vl[conn[c].to].state # "none"
    /\ vl[conn[c].to].domain = conn[c].host

\* From the sniffing on, what is replayed is what was got.
RBytes == \A c \in Conns :
  conn[c].pc \in {"lookup", "dispatch", "queued", "accepted"} =>
    conn[c].replayed = [k \in 1 .. conn[c].got |-> k]

\* The inductive invariant.
RInv == RTyped /\ RRoutes /\ RBuffers /\ RQueued /\ RGoes /\ RBytes

\* The bytes taken and those left in the reader make up the bytes got.
LEMMA Replayed ==
  ASSUME NEW got \in Nat, NEW taken \in 0 .. got
  PROVE  /\ [k \in 1 .. taken |-> k] \o [k \in 1 .. got - taken |-> taken + k]
              = [k \in 1 .. got |-> k]
         /\ [k \in 1 .. got |-> k] \in Seq(Nat)
<1> DEFINE a == [k \in 1 .. taken |-> k]
           b == [k \in 1 .. got - taken |-> taken + k]
           r == [k \in 1 .. got |-> k]
<1>1. a \in Seq(Nat) /\ b \in Seq(Nat) /\ r \in Seq(Nat)
  OBVIOUS
<1>2. Len(a) = taken /\ Len(b) = got - taken /\ Len(r) = got
  OBVIOUS
<1>3. \A k \in 1 .. got : (a \o b)[k] = k
  BY <1>1, <1>2
<1>4. a \o b \in Seq(Nat) /\ Len(a \o b) = got
  BY <1>1, <1>2
<1> QED BY <1>1, <1>2, <1>3, <1>4, SeqEqual

\* The fields of a listener and of a handler.
LEMMA Fields ==
  ASSUME RTyped
  PROVE  /\ \A i \in Ids : /\ vl[i] \in Listeners /\ vl[i].ch \in Seq(Conns)
                          /\ vl[i].state \in {"none", "open", "closed", "drained"}
         /\ \A c \in Conns : /\ conn[c] \in Handlers /\ conn[c].to \in 0 .. MaxListeners
                            /\ conn[c].pc \in {"new", "sniff", "lookup", "dispatch",
                                              "queued", "accepted", "closed"}
<1>1. ASSUME NEW i \in Ids
      PROVE  /\ vl[i] \in Listeners /\ vl[i].ch \in Seq(Conns)
             /\ vl[i].state \in {"none", "open", "closed", "drained"}
  <2>1. vl[i] \in Listeners
    BY DEF RTyped
  <2> QED BY <2>1 DEF Listeners
<1>2. ASSUME NEW c \in Conns
      PROVE  /\ conn[c] \in Handlers /\ conn[c].to \in 0 .. MaxListeners
             /\ conn[c].pc \in {"new", "sniff", "lookup", "dispatch",
                               "queued", "accepted", "closed"}
  <2>1. conn[c] \in Handlers
    BY DEF RTyped
  <2> QED BY <2>1 DEF Handlers
<1> QED BY <1>1, <1>2

\* RInv gives RouterSafe.
LEMMA RInvSafe == RInv => RouterSafe
<1> SUFFICES ASSUME RInv PROVE RouterSafe
  OBVIOUS
<1> USE DEF RInv
<1>1. RTypeOK
  BY Fields DEF RTypeOK, RTyped, RBuffers
<1>2. NoneLeftBehind
  <2>1. ASSUME NEW c \in Conns, conn[c].pc = "queued"
        PROVE  \E i \in Ids : /\ \E k \in 1 .. Len(vl[i].ch) : vl[i].ch[k] = c
                              /\ i = conn[c].to /\ vl[i].state # "drained"
    <3>1. conn[c].to \in Ids
      BY <2>1 DEF RGoes
    <3>2. PICK k \in 1 .. Len(vl[conn[c].to].ch) : vl[conn[c].to].ch[k] = c
      BY <2>1 DEF RQueued
    <3>3. vl[conn[c].to].state # "drained"
      BY <3>1, <3>2 DEF RBuffers
    <3> QED BY <3>1, <3>2, <3>3
  <2>2. ASSUME NEW c \in Conns, NEW i \in Ids, NEW k \in 1 .. Len(vl[i].ch), vl[i].ch[k] = c
        PROVE  conn[c].pc = "queued"
    BY <2>2 DEF RBuffers
  <2> QED BY <2>1, <2>2 DEF NoneLeftBehind
<1>3. RoutedWhole
  BY DEF RoutedWhole, RGoes, RBytes
<1> QED BY <1>1, <1>2, <1>3 DEF RouterSafe

\* Taking the first connection out of a buffer, to accept or close it.
LEMMA TakeFirst ==
  ASSUME RInv, NEW i \in Ids, vl[i].ch # <<>>, NEW pc \in {"accepted", "closed"},
         routes' = routes,
         vl' = [vl EXCEPT ![i].ch = Tail(@)],
         conn' = [conn EXCEPT ![Head(vl[i].ch)].pc = pc]
  PROVE  RInv'
<1> DEFINE q == vl[i].ch
           c == Head(q)
<1> USE DEF RInv
<1>1. vl[i] \in Listeners /\ q \in Seq(Conns)
  BY DEF RTyped, Listeners
<1> HIDE DEF q
<1>2. /\ Len(q) \in Nat /\ Len(q) >= 1 /\ c = q[1] /\ c \in Conns /\ 1 \in 1 .. Len(q)
      /\ Tail(q) \in Seq(Conns) /\ Len(Tail(q)) = Len(q) - 1
      /\ \A k \in 1 .. Len(q) - 1 : Tail(q)[k] = q[k + 1]
  <2>1. q # <<>>
    BY DEF q
  <2> QED BY <1>1, <2>1, HeadTailProperties
<1>3. /\ conn[c].pc = "queued" /\ conn[c].to = i
      /\ \A k \in 1 .. Len(q) : q[k] = c => k = 1
      /\ vl[i].state \notin {"none", "drained"}
  BY <1>2 DEF RBuffers, q
<1> HIDE DEF c
<1>4. /\ vl' = [vl EXCEPT ![i] = [vl[i] EXCEPT !.ch = Tail(q)]]
      /\ vl'[i] = [vl[i] EXCEPT !.ch = Tail(q)]
      /\ \A j \in Ids : j # i => vl'[j] = vl[j]
      /\ \A j \in Ids : vl'[j].state = vl[j].state /\ vl'[j].domain = vl[j].domain
      /\ vl'[i].ch = Tail(q)
  BY <1>1 DEF RTyped, q, Listeners
<1>5. conn[c] \in Handlers
  BY <1>2 DEF RTyped
<1>6. /\ conn' = [conn EXCEPT ![c] = [conn[c] EXCEPT !.pc = pc]]
      /\ conn'[c] = [conn[c] EXCEPT !.pc = pc]
      /\ \A d \in Conns : d # c => conn'[d] = conn[d]
      /\ \A d \in Conns : /\ conn'[d].to = conn[d].to /\ conn'[d].host = conn[d].host
                          /\ conn'[d].got = conn[d].got
                          /\ conn'[d].replayed = conn[d].replayed
      /\ conn'[c].pc = pc
  <2>1. conn' = [conn EXCEPT ![c] = [conn[c] EXCEPT !.pc = pc]]
    BY DEF c, q
  <2>2. conn \in [Conns -> Handlers]
    BY DEF RTyped
  <2>3. conn'[c] = [conn[c] EXCEPT !.pc = pc] /\ \A d \in Conns : d # c => conn'[d] = conn[d]
    BY <1>2, <2>1, <2>2
  <2>4. /\ conn'[c].pc = pc /\ conn'[c].to = conn[c].to /\ conn'[c].host = conn[c].host
        /\ conn'[c].got = conn[c].got /\ conn'[c].replayed = conn[c].replayed
    <3>1. \A h \in Handlers : /\ [h EXCEPT !.pc = pc].pc = pc
                              /\ [h EXCEPT !.pc = pc].to = h.to
                              /\ [h EXCEPT !.pc = pc].host = h.host
                              /\ [h EXCEPT !.pc = pc].got = h.got
                              /\ [h EXCEPT !.pc = pc].replayed = h.replayed
      BY DEF Handlers
    <3> QED BY <1>5, <2>3, <3>1
  <2> QED BY <2>1, <2>3, <2>4
<1>7. RTyped'
  <2>1. [vl[i] EXCEPT !.ch = Tail(q)] \in Listeners
    BY <1>1, <1>2 DEF Listeners
  <2>2. [conn[c] EXCEPT !.pc = pc] \in Handlers
    BY <1>5 DEF Handlers
  <2>3. vl' \in [Ids -> Listeners]
    <3>1. vl \in [Ids -> Listeners]
      BY DEF RTyped
    <3> QED BY <1>4, <2>1, <3>1
  <2>4. conn' \in [Conns -> Handlers]
    <3>1. conn \in [Conns -> Handlers]
      BY DEF RTyped
    <3> QED BY <1>2, <1>6, <2>2, <3>1
  <2> QED BY <2>3, <2>4 DEF RTyped
<1>8. RRoutes'
  BY <1>4 DEF RRoutes, RTyped, Ids
<1>9. RBuffers'
  <2> SUFFICES ASSUME NEW j \in Ids
               PROVE  /\ vl'[j].state \in {"none", "drained"} => vl'[j].ch = <<>>
                      /\ Len(vl'[j].ch) <= BufSize
                      /\ \A k \in 1 .. Len(vl'[j].ch) :
                           conn'[vl'[j].ch[k]].pc = "queued" /\ conn'[vl'[j].ch[k]].to = j
                      /\ \A m, k \in 1 .. Len(vl'[j].ch) : vl'[j].ch[m] = vl'[j].ch[k] => m = k
    BY DEF RBuffers
  <2>1. CASE j = i
    <3>1. ASSUME NEW k \in 1 .. Len(Tail(q))
          PROVE  /\ Tail(q)[k] = q[k + 1] /\ k + 1 \in 1 .. Len(q) /\ q[k + 1] \in Conns
                 /\ q[k + 1] # c
                 /\ conn[q[k + 1]].pc = "queued" /\ conn[q[k + 1]].to = i
      BY <1>2, <1>3, SMTT(30) DEF RBuffers, q
    <3>2. \A m, k \in 1 .. Len(q) : q[m] = q[k] => m = k
      BY DEF RBuffers, q
    <3>3. Len(Tail(q)) <= BufSize
      BY <1>2, RAssumption DEF RBuffers, q
    <3>4. vl'[i].ch = Tail(q) /\ vl'[i].state \notin {"none", "drained"}
      BY <1>1, <1>3, <1>4
    <3>5. ASSUME NEW k \in 1 .. Len(Tail(q))
          PROVE  conn'[Tail(q)[k]].pc = "queued" /\ conn'[Tail(q)[k]].to = i
      <4>1. conn'[q[k + 1]] = conn[q[k + 1]]
        BY <1>6, <3>1
      <4> QED BY <3>1, <4>1
    <3>6. \A m, k \in 1 .. Len(Tail(q)) : Tail(q)[m] = Tail(q)[k] => m = k
      <4> SUFFICES ASSUME NEW m \in 1 .. Len(Tail(q)), NEW k \in 1 .. Len(Tail(q)),
                          Tail(q)[m] = Tail(q)[k]
                   PROVE  m = k
        OBVIOUS
      <4> QED BY <1>2, <3>1, <3>2
    <3> DEFINE ch == vl'[i].ch
    <3>7. ch = Tail(q)
      BY <3>4
    <3> HIDE DEF ch
    <3>8. Len(ch) <= BufSize /\ \A m, k \in 1 .. Len(ch) : ch[m] = ch[k] => m = k
      BY <3>3, <3>6, <3>7
    <3>9. \A k \in 1 .. Len(ch) : conn'[ch[k]].pc = "queued" /\ conn'[ch[k]].to = i
      BY <3>5, <3>7
    <3> QED BY <2>1, <3>4, <3>8, <3>9, SMTT(30) DEF ch
  <2>2. CASE j # i
    <3>1. vl'[j] = vl[j] /\ vl[j].ch \in Seq(Conns)
      BY <1>4, <2>2, Fields
    <3>2. \A k \in 1 .. Len(vl[j].ch) : vl[j].ch[k] \in Conns /\ vl[j].ch[k] # c
      BY <1>3, <2>2, <3>1 DEF RBuffers
    <3>3. \A k \in 1 .. Len(vl[j].ch) : conn'[vl[j].ch[k]] = conn[vl[j].ch[k]]
      BY <1>6, <3>2
    <3>4. /\ vl[j].state \in {"none", "drained"} => vl[j].ch = <<>>
          /\ Len(vl[j].ch) <= BufSize
          /\ \A k \in 1 .. Len(vl[j].ch) :
               conn[vl[j].ch[k]].pc = "queued" /\ conn[vl[j].ch[k]].to = j
          /\ \A m, k \in 1 .. Len(vl[j].ch) : vl[j].ch[m] = vl[j].ch[k] => m = k
      BY DEF RBuffers
    <3>5. \A k \in 1 .. Len(vl[j].ch) :
            conn'[vl[j].ch[k]].pc = "queued" /\ conn'[vl[j].ch[k]].to = j
      BY <3>3, <3>4
    <3>6. vl'[j].ch = vl[j].ch /\ vl'[j].state = vl[j].state
      BY <3>1
    <3>7. /\ vl'[j].state \in {"none", "drained"} => vl'[j].ch = <<>>
          /\ Len(vl'[j].ch) <= BufSize
      BY <3>4, <3>6
    <3>8. \A m, k \in 1 .. Len(vl'[j].ch) : vl'[j].ch[m] = vl'[j].ch[k] => m = k
      BY <3>4, <3>6, Zenon
    <3>9. \A k \in 1 .. Len(vl'[j].ch) :
            conn'[vl'[j].ch[k]].pc = "queued" /\ conn'[vl'[j].ch[k]].to = j
      BY <3>5, <3>6, Zenon
    <3> QED BY <3>7, <3>8, <3>9
  <2> QED BY <2>1, <2>2
<1>10. RQueued'
  <2> SUFFICES ASSUME NEW d \in Conns, conn'[d].pc = "queued"
               PROVE  \E k \in 1 .. Len(vl'[conn'[d].to].ch) : vl'[conn'[d].to].ch[k] = d
    BY DEF RQueued
  <2>1. d # c /\ conn'[d] = conn[d]
    BY <1>6
  <2>2. conn[d].to \in Ids
    BY <2>1 DEF RGoes
  <2>3. PICK k \in 1 .. Len(vl[conn[d].to].ch) : vl[conn[d].to].ch[k] = d
    BY <2>1 DEF RQueued
  <2>4. CASE conn[d].to = i
    <3>1. q[k] = d /\ k \in 1 .. Len(q)
      BY <2>3, <2>4 DEF q
    <3>2. k # 1
      BY <1>2, <2>1, <3>1
    <3>3. k - 1 \in 1 .. Len(Tail(q)) /\ Tail(q)[k - 1] = d
      BY <1>2, <3>1, <3>2
    <3> QED BY <1>4, <2>1, <2>4, <3>3
  <2>5. CASE conn[d].to # i
    <3>1. vl'[conn'[d].to] = vl[conn[d].to]
      BY <1>4, <2>1, <2>2, <2>5
    <3> QED BY <2>3, <3>1
  <2> QED BY <2>4, <2>5
<1>11. RGoes'
  <2> SUFFICES ASSUME NEW d \in Conns, conn'[d].pc \in {"dispatch", "queued", "accepted"}
               PROVE  /\ conn'[d].to \in Ids /\ vl'[conn'[d].to].state # "none"
                      /\ vl'[conn'[d].to].domain = conn'[d].host
    BY DEF RGoes
  <2>1. conn[d].pc \in {"dispatch", "queued", "accepted"}
    BY <1>2, <1>3, <1>6
  <2>2. /\ conn[d].to \in Ids /\ vl[conn[d].to].state # "none"
        /\ vl[conn[d].to].domain = conn[d].host
    BY <2>1 DEF RGoes
  <2>3. conn'[d].to = conn[d].to /\ conn'[d].host = conn[d].host
    BY <1>6
  <2>4. \A j \in Ids : vl'[j].state = vl[j].state /\ vl'[j].domain = vl[j].domain
    BY <1>4
  <2> QED BY <2>2, <2>3, <2>4, Zenon
<1>12. RBytes'
  <2> SUFFICES ASSUME NEW d \in Conns,
                      conn'[d].pc \in {"lookup", "dispatch", "queued", "accepted"}
               PROVE  conn'[d].replayed = [k \in 1 .. conn'[d].got |-> k]
    BY DEF RBytes
  <2>1. conn[d].pc \in {"lookup", "dispatch", "queued", "accepted"}
    BY <1>2, <1>3, <1>6
  <2>2. conn[d].replayed = [k \in 1 .. conn[d].got |-> k]
    BY <2>1 DEF RBytes
  <2>3. conn'[d].replayed = conn[d].replayed /\ conn'[d].got = conn[d].got
    BY <1>6
  <2> QED BY <2>2, <2>3, Zenon
<1> QED BY <1>7, <1>8, <1>9, <1>10, <1>11, <1>12

\* A step that leaves the connections alone, keeps the buffers of the listeners
\* and forgets neither that a listener was made nor for whom.
LEMMA ListenerStep ==
  ASSUME RInv, RTyped', RRoutes', conn' = conn,
         \A i \in Ids : /\ vl'[i].ch = vl[i].ch
                        /\ vl[i].state # "none" =>
                             vl'[i].state # "none" /\ vl'[i].domain = vl[i].domain
                        /\ vl'[i].state \in {"none", "drained"} => vl[i].ch = <<>>
  PROVE  RInv'
<1> USE DEF RInv
<1>1. RBuffers'
  BY DEF RBuffers
<1>2. RQueued'
  BY DEF RQueued, RGoes
<1>3. RGoes'
  BY DEF RGoes
<1>4. RBytes'
  BY DEF RBytes
<1> QED BY <1>1, <1>2, <1>3, <1>4

\* A step of a connection that is not in a buffer, and does not get there.
LEMMA ConnStep ==
  ASSUME RInv, RTyped', routes' = routes, vl' = vl, NEW c \in Conns,
         conn[c].pc # "queued", conn'[c].pc # "queued",
         \A d \in Conns : d # c => conn'[d] = conn[d],
         conn'[c].pc \in {"dispatch", "accepted"} =>
           /\ conn'[c].to \in Ids /\ vl[conn'[c].to].state # "none"
           /\ vl[conn'[c].to].domain = conn'[c].host,
         conn'[c].pc \in {"lookup", "dispatch", "accepted"} =>
           conn'[c].replayed = [k \in 1 .. conn'[c].got |-> k]
  PROVE  RInv'
<1> USE DEF RInv
<1>1. RRoutes'
  BY DEF RRoutes
<1>2. RBuffers'
  <2>1. \A i \in Ids : \A k \in 1 .. Len(vl[i].ch) : vl[i].ch[k] \in Conns /\ vl[i].ch[k] # c
    <3>1. \A i \in Ids : \A k \in 1 .. Len(vl[i].ch) : vl[i].ch[k] \in Conns
      BY Fields
    <3> QED BY <3>1 DEF RBuffers
  <2>2. \A i \in Ids : \A k \in 1 .. Len(vl[i].ch) : conn'[vl[i].ch[k]] = conn[vl[i].ch[k]]
    BY <2>1
  <2> QED BY <2>2 DEF RBuffers
<1>3. RQueued'
  BY DEF RQueued
<1>4. RGoes'
  BY DEF RGoes
<1>5. RBytes'
  BY DEF RBytes
<1> QED BY <1>1, <1>2, <1>3, <1>4, <1>5

\* Handing a connection over: it goes to the end of the buffer of its listener.
LEMMA HandedOver ==
  ASSUME RInv, NEW c \in Conns, conn[c].pc = "dispatch",
         vl[conn[c].to].state = "open", Len(vl[conn[c].to].ch) # BufSize,
         routes' = routes,
         conn' = [conn EXCEPT ![c].pc = "queued"],
         vl' = [vl EXCEPT ![conn[c].to].ch = Append(@, c)]
  PROVE  RInv'
<1> DEFINE i == conn[c].to
           q == vl[i].ch
<1> USE DEF RInv
<1>1. /\ i \in Ids /\ vl[i].state = "open" /\ q \in Seq(Conns) /\ vl[i] \in Listeners
      /\ Len(q) \in Nat /\ Len(q) < BufSize /\ conn[c] \in Handlers
  <2>1. i \in Ids
    BY DEF RGoes
  <2>2. q \in Seq(Conns) /\ vl[i] \in Listeners /\ conn[c] \in Handlers
    BY <2>1, Fields
  <2>3. Len(q) <= BufSize
    BY <2>1 DEF RBuffers
  <2> QED BY <2>1, <2>2, <2>3, RAssumption, SMTT(30)
<1>2. /\ vl' = [vl EXCEPT ![i] = [vl[i] EXCEPT !.ch = Append(q, c)]]
      /\ conn' = [conn EXCEPT ![c] = [conn[c] EXCEPT !.pc = "queued"]]
  OBVIOUS
<1>3. /\ Append(q, c) \in Seq(Conns) /\ Len(Append(q, c)) = Len(q) + 1
      /\ Append(q, c)[Len(q) + 1] = c
      /\ \A k \in 1 .. Len(q) : Append(q, c)[k] = q[k] /\ q[k] \in Conns
  <2>1. \A k \in 1 .. Len(q) : q[k] \in Conns
    BY <1>1
  <2> HIDE DEF i, q
  <2> QED BY <1>1, <2>1, AppendProperties
<1>4. \A j \in Ids : \A k \in 1 .. Len(vl[j].ch) : vl[j].ch[k] \in Conns /\ vl[j].ch[k] # c
  <2>1. \A j \in Ids : \A k \in 1 .. Len(vl[j].ch) : vl[j].ch[k] \in Conns
    BY Fields
  <2> QED BY <2>1 DEF RBuffers
<1>5. /\ vl'[i] = [vl[i] EXCEPT !.ch = Append(q, c)]
      /\ \A j \in Ids : j # i => vl'[j] = vl[j]
  BY <1>1, <1>2 DEF RTyped
<1>6. conn'[c] = [conn[c] EXCEPT !.pc = "queued"] /\ \A d \in Conns : d # c => conn'[d] = conn[d]
  BY <1>2 DEF RTyped
<1>7. /\ conn'[c].pc = "queued" /\ conn'[c].to = i /\ conn'[c].host = conn[c].host
      /\ conn'[c].got = conn[c].got /\ conn'[c].replayed = conn[c].replayed
  <2>1. \A h \in Handlers : /\ [h EXCEPT !.pc = "queued"].pc = "queued"
                            /\ [h EXCEPT !.pc = "queued"].to = h.to
                            /\ [h EXCEPT !.pc = "queued"].host = h.host
                            /\ [h EXCEPT !.pc = "queued"].got = h.got
                            /\ [h EXCEPT !.pc = "queued"].replayed = h.replayed
    BY DEF Handlers
  <2> QED BY <1>1, <1>6, <2>1
<1>8. /\ vl'[i].ch = Append(q, c)
      /\ \A j \in Ids : vl'[j].state = vl[j].state /\ vl'[j].domain = vl[j].domain
  BY <1>1, <1>5, ZenonT(30) DEF Listeners
<1>9. RTyped'
  <2>1. [vl[i] EXCEPT !.ch = Append(q, c)] \in Listeners
    BY <1>1, <1>3 DEF Listeners
  <2>2. [conn[c] EXCEPT !.pc = "queued"] \in Handlers
    BY <1>1 DEF Handlers
  <2>3. vl' \in [Ids -> Listeners]
    <3>1. vl \in [Ids -> Listeners]
      BY DEF RTyped
    <3> QED BY <1>1, <1>2, <2>1, <3>1
  <2>4. conn' \in [Conns -> Handlers]
    <3>1. conn \in [Conns -> Handlers]
      BY DEF RTyped
    <3> QED BY <1>2, <2>2, <3>1
  <2> QED BY <2>3, <2>4 DEF RTyped
<1> HIDE DEF i, q
<1>10. RRoutes'
  BY <1>8 DEF RRoutes, RTyped, Ids
<1>11. RBuffers'
  <2> SUFFICES ASSUME NEW j \in Ids
               PROVE  /\ vl'[j].state \in {"none", "drained"} => vl'[j].ch = <<>>
                      /\ Len(vl'[j].ch) <= BufSize
                      /\ \A k \in 1 .. Len(vl'[j].ch) :
                           conn'[vl'[j].ch[k]].pc = "queued" /\ conn'[vl'[j].ch[k]].to = j
                      /\ \A m, k \in 1 .. Len(vl'[j].ch) : vl'[j].ch[m] = vl'[j].ch[k] => m = k
    BY DEF RBuffers
  <2>1. CASE j = i
    <3>1. vl'[j].ch = Append(q, c) /\ vl'[j].state = "open"
      BY <1>1, <1>8, <2>1
    <3>2. Len(vl'[j].ch) <= BufSize
      BY <1>1, <1>3, <3>1, RAssumption
    <3>3. /\ \A k \in 1 .. Len(q) : q[k] # c /\ conn[q[k]].pc = "queued" /\ conn[q[k]].to = i
          /\ \A m, k \in 1 .. Len(q) : q[m] = q[k] => m = k
      BY <1>1, <1>4 DEF RBuffers, q
    <3>4. \A k \in 1 .. Len(q) + 1 : k = Len(q) + 1 \/ k \in 1 .. Len(q)
      BY <1>1
    <3>5. \A k \in 1 .. Len(vl'[j].ch) :
            conn'[vl'[j].ch[k]].pc = "queued" /\ conn'[vl'[j].ch[k]].to = j
      <4>1. ASSUME NEW k \in 1 .. Len(q)
            PROVE  conn'[Append(q, c)[k]].pc = "queued" /\ conn'[Append(q, c)[k]].to = i
        <5>1. Append(q, c)[k] = q[k] /\ q[k] \in Conns /\ q[k] # c
          BY <1>3, <3>3
        <5>2. conn'[q[k]] = conn[q[k]]
          BY <1>6, <5>1
        <5> QED BY <3>3, <5>1, <5>2
      <4> QED BY <1>3, <1>7, <2>1, <3>1, <3>4, <4>1, SMTT(30)
    <3>6. \A m, k \in 1 .. Len(vl'[j].ch) : vl'[j].ch[m] = vl'[j].ch[k] => m = k
      <4>1. ASSUME NEW m \in 1 .. Len(q) + 1, NEW k \in 1 .. Len(q) + 1,
                   Append(q, c)[m] = Append(q, c)[k]
            PROVE  m = k
        <5>1. CASE m \in 1 .. Len(q) /\ k \in 1 .. Len(q)
          BY <1>3, <3>3, <4>1, <5>1
        <5>2. CASE m = Len(q) + 1
          BY <1>3, <3>3, <3>4, <4>1, <5>2
        <5>3. CASE k = Len(q) + 1
          BY <1>3, <3>3, <3>4, <4>1, <5>3
        <5> QED BY <3>4, <5>1, <5>2, <5>3
      <4>2. vl'[j].ch = Append(q, c) /\ Len(vl'[j].ch) = Len(q) + 1
        BY <1>1, <3>1
      <4>3. ASSUME NEW m \in 1 .. Len(vl'[j].ch), NEW k \in 1 .. Len(vl'[j].ch),
                   vl'[j].ch[m] = vl'[j].ch[k]
            PROVE  m = k
        <5>1. m \in 1 .. Len(q) + 1 /\ k \in 1 .. Len(q) + 1
          BY <4>2, Zenon
        <5>2. Append(q, c)[m] = Append(q, c)[k]
          BY <4>2, <4>3, Zenon
        <5> QED BY <4>1, <5>1, <5>2, Zenon
      <4> QED BY <4>3, Zenon
    <3> QED BY <3>1, <3>2, <3>5, <3>6
  <2>2. CASE j # i
    <3>1. vl'[j] = vl[j]
      BY <1>5, <2>2
    <3>2. \A k \in 1 .. Len(vl[j].ch) : conn'[vl[j].ch[k]] = conn[vl[j].ch[k]]
      BY <1>4, <1>6
    <3>3. /\ vl[j].state \in {"none", "drained"} => vl[j].ch = <<>>
          /\ Len(vl[j].ch) <= BufSize
          /\ \A k \in 1 .. Len(vl[j].ch) :
               conn[vl[j].ch[k]].pc = "queued" /\ conn[vl[j].ch[k]].to = j
          /\ \A m, k \in 1 .. Len(vl[j].ch) : vl[j].ch[m] = vl[j].ch[k] => m = k
      BY DEF RBuffers
    <3>5. \A k \in 1 .. Len(vl[j].ch) :
            conn'[vl[j].ch[k]].pc = "queued" /\ conn'[vl[j].ch[k]].to = j
      BY <3>2, <3>3
    <3>6. vl'[j].ch = vl[j].ch /\ vl'[j].state = vl[j].state
      BY <3>1
    <3>7. /\ vl'[j].state \in {"none", "drained"} => vl'[j].ch = <<>>
          /\ Len(vl'[j].ch) <= BufSize
      BY <3>3, <3>6
    <3>8. \A m, k \in 1 .. Len(vl'[j].ch) : vl'[j].ch[m] = vl'[j].ch[k] => m = k
      BY <3>3, <3>6, Zenon
    <3>9. \A k \in 1 .. Len(vl'[j].ch) :
            conn'[vl'[j].ch[k]].pc = "queued" /\ conn'[vl'[j].ch[k]].to = j
      BY <3>5, <3>6, Zenon
    <3> QED BY <3>7, <3>8, <3>9
  <2> QED BY <2>1, <2>2
<1>12. RQueued'
  <2> SUFFICES ASSUME NEW d \in Conns, conn'[d].pc = "queued"
               PROVE  \E k \in 1 .. Len(vl'[conn'[d].to].ch) : vl'[conn'[d].to].ch[k] = d
    BY DEF RQueued
  <2>1. CASE d = c
    BY <1>1, <1>3, <1>7, <1>8, <2>1
  <2>2. CASE d # c
    <3>1. conn'[d] = conn[d] /\ conn[d].to \in Ids
      BY <1>6, <2>2 DEF RGoes
    <3>2. PICK k \in 1 .. Len(vl[conn[d].to].ch) : vl[conn[d].to].ch[k] = d
      BY <3>1 DEF RQueued
    <3>3. CASE conn[d].to = i
      <4>1. k \in 1 .. Len(q) /\ q[k] = d
        BY <3>2, <3>3 DEF q
      <4>2. k \in 1 .. Len(Append(q, c)) /\ Append(q, c)[k] = d
        BY <1>1, <1>3, <4>1
      <4> QED BY <1>8, <3>1, <3>3, <4>2
    <3>4. CASE conn[d].to # i
      <4>1. vl'[conn'[d].to] = vl[conn[d].to]
        BY <1>5, <3>1, <3>4
      <4> QED BY <3>2, <4>1
    <3> QED BY <3>3, <3>4
  <2> QED BY <2>1, <2>2
<1>13. RGoes'
  <2> SUFFICES ASSUME NEW d \in Conns, conn'[d].pc \in {"dispatch", "queued", "accepted"}
               PROVE  /\ conn'[d].to \in Ids /\ vl'[conn'[d].to].state # "none"
                      /\ vl'[conn'[d].to].domain = conn'[d].host
    BY DEF RGoes
  <2>1. conn[d].pc \in {"dispatch", "queued", "accepted"} /\ conn'[d].to = conn[d].to
        /\ conn'[d].host = conn[d].host
    BY <1>6, <1>7 DEF i
  <2>2. /\ conn[d].to \in Ids /\ vl[conn[d].to].state # "none"
        /\ vl[conn[d].to].domain = conn[d].host
    BY <2>1 DEF RGoes
  <2> QED BY <1>8, <2>1, <2>2
<1>14. RBytes'
  BY <1>6, <1>7 DEF RBytes
<1> QED BY <1>9, <1>10, <1>11, <1>12, <1>13, <1>14

\* Initially nothing is registered and no connection is there.
LEMMA RInitInv == RInit => RInv
<1> SUFFICES ASSUME RInit PROVE RInv
  OBVIOUS
<1>1. NoVL \in Listeners /\ NoVL.state = "none" /\ NoVL.ch = <<>>
  BY DEF NoVL, Listeners
<1>2. NoConn \in Handlers /\ NoConn.pc = "new"
  BY RAssumption DEF NoConn, Handlers
<1>3. RTyped
  BY <1>1, <1>2, RAssumption DEF RInit, RTyped
<1>4. RRoutes
  BY DEF RInit, RRoutes
<1>5. RBuffers
  BY <1>1, RAssumption DEF RInit, RBuffers
<1>6. RQueued /\ RGoes /\ RBytes
  BY <1>2 DEF RInit, RQueued, RGoes, RBytes
<1> QED BY <1>3, <1>4, <1>5, <1>6 DEF RInv

\* Every step of the router keeps RInv.
LEMMA RNextInv == RInv /\ [RNext]_rvars => RInv'
<1> SUFFICES ASSUME RInv, [RNext]_rvars PROVE RInv'
  OBVIOUS
<1> USE DEF RInv
<1>1. ASSUME NEW d \in Domains, Register(d) PROVE RInv'
  <2>1. PICK i \in Ids : /\ vl[i].state = "none"
                         /\ vl' = [vl EXCEPT ![i] = [NoVL EXCEPT !.state = "open", !.domain = d]]
                         /\ routes' = [routes EXCEPT ![d] = i]
    BY <1>1 DEF Register
  <2>2. /\ [NoVL EXCEPT !.state = "open", !.domain = d] \in Listeners
        /\ [NoVL EXCEPT !.state = "open", !.domain = d].ch = <<>>
        /\ [NoVL EXCEPT !.state = "open", !.domain = d].state = "open"
        /\ [NoVL EXCEPT !.state = "open", !.domain = d].domain = d
    <3>1. NoVL \in Listeners /\ NoVL.ch = <<>>
      BY DEF NoVL, Listeners
    <3>2. \A l \in Listeners :
            LET m == [l EXCEPT !.state = "open", !.domain = d]
            IN  m \in Listeners /\ m.ch = l.ch /\ m.state = "open" /\ m.domain = d
      BY DEF Listeners
    <3> QED BY <3>1, <3>2
  <2>3. vl[i].ch = <<>>
    BY <2>1 DEF RBuffers
  <2>4. /\ vl'[i] = [NoVL EXCEPT !.state = "open", !.domain = d]
        /\ \A j \in Ids : j # i => vl'[j] = vl[j]
    BY <2>1 DEF RTyped
  <2>5. RTyped'
    <3>1. vl \in [Ids -> Listeners] /\ routes \in [Domains -> 0 .. MaxListeners] /\ i \in 0 .. MaxListeners
      BY RAssumption DEF RTyped, Ids
    <3>2. vl' \in [Ids -> Listeners]
      BY <2>1, <2>2, <3>1
    <3>3. routes' \in [Domains -> 0 .. MaxListeners]
      BY <2>1, <3>1
    <3> QED BY <1>1, <3>2, <3>3 DEF RTyped, Register
  <2>6. RRoutes'
    <3> SUFFICES ASSUME NEW e \in Domains, routes'[e] # 0
                 PROVE  vl'[routes'[e]].state # "none" /\ vl'[routes'[e]].domain = e
      BY DEF RRoutes
    <3>1. CASE e = d
      <4>1. routes'[e] = i
        BY <2>1, <3>1 DEF RTyped
      <4> QED BY <2>2, <2>4, <3>1, <4>1
    <3>2. CASE e # d
      <4>1. routes'[e] = routes[e] /\ routes[e] \in Ids
        BY <2>1, <3>2 DEF RTyped, Ids
      <4>2. vl[routes[e]].state # "none" /\ vl[routes[e]].domain = e
        BY <4>1 DEF RRoutes
      <4> QED BY <2>1, <2>4, <4>1, <4>2
    <3> QED BY <3>1, <3>2
  <2>7. conn' = conn
    BY <1>1 DEF Register
  <2>8. \A j \in Ids : /\ vl'[j].ch = vl[j].ch
                       /\ vl[j].state # "none" =>
                            vl'[j].state # "none" /\ vl'[j].domain = vl[j].domain
                       /\ vl'[j].state \in {"none", "drained"} => vl[j].ch = <<>>
    BY <2>1, <2>2, <2>3, <2>4 DEF RBuffers
  <2> QED BY <2>5, <2>6, <2>7, <2>8, ListenerStep
<1>2. ASSUME NEW ds \in SUBSET Domains, Unregister(ds) PROVE RInv'
  <2>1. /\ routes' = [d \in Domains |-> IF d \in ds THEN 0 ELSE routes[d]]
        /\ vl' = vl /\ conn' = conn
    BY <1>2 DEF Unregister
  <2>2. RTyped'
    BY <2>1, RAssumption DEF RTyped
  <2>3. RRoutes'
    BY <2>1 DEF RRoutes
  <2>4. \A j \in Ids : vl'[j].state \in {"none", "drained"} => vl[j].ch = <<>>
    BY <2>1 DEF RBuffers
  <2> QED BY <2>1, <2>2, <2>3, <2>4, ListenerStep
<1>3. ASSUME NEW i \in Ids, NEW v \in Listeners, vl' = [vl EXCEPT ![i] = v],
             v.ch = vl[i].ch, v.domain = vl[i].domain, vl[i].state # "none",
             v.state # "none", v.state = "drained" => v.ch = <<>>,
             routes' = routes, conn' = conn
      PROVE  RInv'
  <2>1. vl'[i] = v /\ \A j \in Ids : j # i => vl'[j] = vl[j]
    BY <1>3 DEF RTyped
  <2>2. RTyped'
    <3>1. vl \in [Ids -> Listeners]
      BY DEF RTyped
    <3>2. vl' \in [Ids -> Listeners]
      BY <1>3, <3>1
    <3> QED BY <1>3, <3>2 DEF RTyped
  <2>3. RRoutes'
    BY <1>3, <2>1 DEF RRoutes, RTyped, Ids
  <2>4. \A j \in Ids : /\ vl'[j].ch = vl[j].ch
                       /\ vl[j].state # "none" =>
                            vl'[j].state # "none" /\ vl'[j].domain = vl[j].domain
                       /\ vl'[j].state \in {"none", "drained"} => vl[j].ch = <<>>
    BY <1>3, <2>1 DEF RBuffers
  <2> QED BY <1>3, <2>2, <2>3, <2>4, ListenerStep
<1>4. ASSUME NEW i \in Ids, CloseChannel(i) PROVE RInv'
  <2> DEFINE v == [vl[i] EXCEPT !.state = "closed"]
  <2>1. vl[i] \in Listeners
    BY Fields
  <2>2. /\ v \in Listeners /\ v.ch = vl[i].ch /\ v.domain = vl[i].domain /\ v.state = "closed"
    BY <2>1 DEF Listeners
  <2>3. vl[i].state = "open" /\ vl' = [vl EXCEPT ![i] = v] /\ routes' = routes /\ conn' = conn
    BY <1>4 DEF CloseChannel
  <2> HIDE DEF v
  <2> QED BY <1>3, <2>2, <2>3
<1>5. ASSUME NEW i \in Ids, CloseDone(i) PROVE RInv'
  <2> DEFINE v == [vl[i] EXCEPT !.done = TRUE]
  <2>1. vl[i] \in Listeners
    BY Fields
  <2>2. v \in Listeners /\ v.ch = vl[i].ch /\ v.domain = vl[i].domain /\ v.state = vl[i].state
    BY <2>1 DEF Listeners
  <2>3. vl[i].state = "closed" /\ vl' = [vl EXCEPT ![i] = v] /\ routes' = routes /\ conn' = conn
    BY <1>5 DEF CloseDone
  <2> HIDE DEF v
  <2> QED BY <1>3, <2>2, <2>3
<1>6. ASSUME NEW i \in Ids, DrainChannel(i) PROVE RInv'
  <2>1. CASE vl[i].ch = <<>>
    <3> DEFINE v == [vl[i] EXCEPT !.state = "drained"]
    <3>1. vl[i] \in Listeners
      BY Fields
    <3>2. v \in Listeners /\ v.ch = vl[i].ch /\ v.domain = vl[i].domain /\ v.state = "drained"
      BY <3>1 DEF Listeners
    <3>3. vl[i].state = "closed" /\ vl' = [vl EXCEPT ![i] = v] /\ routes' = routes /\ conn' = conn
      BY <1>6, <2>1 DEF DrainChannel
    <3> HIDE DEF v
    <3> QED BY <1>3, <2>1, <3>2, <3>3
  <2>2. CASE vl[i].ch # <<>>
    BY <1>6, <2>2, TakeFirst DEF DrainChannel
  <2> QED BY <2>1, <2>2
<1>7. ASSUME NEW i \in Ids, Accept(i) PROVE RInv'
  BY <1>7, TakeFirst DEF Accept
<1>8. ASSUME NEW c \in Conns, NEW h \in Handlers, conn' = [conn EXCEPT ![c] = h],
             routes' = routes, vl' = vl, conn[c].pc # "queued", h.pc # "queued",
             h.pc \in {"dispatch", "accepted"} =>
               h.to \in Ids /\ vl[h.to].state # "none" /\ vl[h.to].domain = h.host,
             h.pc \in {"lookup", "dispatch", "accepted"} =>
               h.replayed = [k \in 1 .. h.got |-> k]
      PROVE  RInv'
  <2>1. conn'[c] = h /\ \A d \in Conns : d # c => conn'[d] = conn[d]
    BY <1>8 DEF RTyped
  <2>2. RTyped'
    <3>1. conn \in [Conns -> Handlers]
      BY DEF RTyped
    <3>2. conn' \in [Conns -> Handlers]
      BY <1>8, <3>1
    <3> QED BY <1>8, <3>2 DEF RTyped
  <2>3. /\ conn'[c].pc # "queued"
        /\ conn'[c].pc \in {"dispatch", "accepted"} =>
             /\ conn'[c].to \in Ids /\ vl[conn'[c].to].state # "none"
             /\ vl[conn'[c].to].domain = conn'[c].host
        /\ conn'[c].pc \in {"lookup", "dispatch", "accepted"} =>
             conn'[c].replayed = [k \in 1 .. conn'[c].got |-> k]
    BY <1>8, <2>1
  <2> QED BY <1>8, <2>1, <2>2, <2>3, ConnStep
<1>9. ASSUME NEW c \in Conns, NEW h \in Domains \cup {"", "unknown"}, Serve(c, h) PROVE RInv'
  <2> DEFINE g == [conn[c] EXCEPT !.pc = "sniff", !.host = h]
  <2>1. conn[c] \in Handlers
    BY Fields
  <2>2. g \in Handlers /\ g.pc = "sniff"
    BY <2>1 DEF Handlers
  <2>3. conn[c].pc = "new" /\ conn' = [conn EXCEPT ![c] = g] /\ routes' = routes /\ vl' = vl
    BY <1>9 DEF Serve
  <2> HIDE DEF g
  <2> QED BY <1>8, <2>2, <2>3
<1>10. ASSUME NEW c \in Conns, NEW sni \in BOOLEAN, Sniff(c, sni) PROVE RInv'
  <2>1. conn[c] \in Handlers
    BY Fields
  <2>2. conn[c].pc = "sniff" /\ routes' = routes /\ vl' = vl
    BY <1>10 DEF Sniff
  <2>3. CASE conn[c].host = ""
    <3> DEFINE g == [conn[c] EXCEPT !.pc = "closed"]
    <3>1. g \in Handlers /\ g.pc = "closed"
      BY <2>1 DEF Handlers
    <3>2. conn' = [conn EXCEPT ![c] = g]
      BY <1>10, <2>3 DEF Sniff
    <3> HIDE DEF g
    <3> QED BY <1>8, <2>2, <3>1, <3>2
  <2>4. CASE conn[c].host # ""
    <3>0. PICK got \in 1 .. Bytes : \E taken \in (IF sni THEN {0} ELSE 1 .. got) :
            conn' = [conn EXCEPT ![c].pc = "lookup", ![c].got = got,
                       ![c].replayed = [k \in 1 .. taken |-> k]
                                       \o [k \in 1 .. got - taken |-> taken + k]]
      BY <1>10, <2>4 DEF Sniff
    <3>1. PICK taken \in (IF sni THEN {0} ELSE 1 .. got) :
            conn' = [conn EXCEPT ![c].pc = "lookup", ![c].got = got,
                       ![c].replayed = [k \in 1 .. taken |-> k]
                                       \o [k \in 1 .. got - taken |-> taken + k]]
      BY <3>0
    <3>2. got \in Nat /\ taken \in 0 .. got
      BY <3>1, RAssumption
    <3> DEFINE r == [k \in 1 .. taken |-> k] \o [k \in 1 .. got - taken |-> taken + k]
               g == [conn[c] EXCEPT !.pc = "lookup", !.got = got, !.replayed = r]
    <3>3. r = [k \in 1 .. got |-> k] /\ r \in Seq(Nat)
      BY <3>2, Replayed
    <3>4. conn' = [conn EXCEPT ![c] = g]
      BY <3>1
    <3> HIDE DEF r
    <3>5. g \in Handlers /\ g.pc = "lookup" /\ g.got = got /\ g.replayed = r
      BY <2>1, <3>2, <3>3 DEF Handlers
    <3> HIDE DEF g
    <3> QED BY <1>8, <2>2, <3>3, <3>4, <3>5
  <2> QED BY <2>3, <2>4
<1>11. ASSUME NEW c \in Conns, Lookup(c) PROVE RInv'
  <2> DEFINE i == IF conn[c].host \in Domains THEN routes[conn[c].host] ELSE 0
             g == [conn[c] EXCEPT !.pc = IF i = 0 THEN "closed" ELSE "dispatch", !.to = i]
  <2>1. conn[c] \in Handlers
    BY Fields
  <2>2. i \in 0 .. MaxListeners
    BY RAssumption DEF RTyped
  <2>3. i # 0 => i \in Ids /\ vl[i].state # "none" /\ vl[i].domain = conn[c].host
    BY <2>2 DEF RRoutes, Ids
  <2>4. conn[c].pc = "lookup" /\ conn' = [conn EXCEPT ![c] = g] /\ routes' = routes /\ vl' = vl
    BY <1>11 DEF Lookup
  <2> HIDE DEF i
  <2>5. /\ g \in Handlers /\ g.pc = (IF i = 0 THEN "closed" ELSE "dispatch") /\ g.to = i
        /\ g.host = conn[c].host /\ g.got = conn[c].got /\ g.replayed = conn[c].replayed
    BY <2>1, <2>2 DEF Handlers
  <2>6. g.replayed = [k \in 1 .. g.got |-> k]
    BY <2>4, <2>5 DEF RBytes
  <2> HIDE DEF g
  <2> QED BY <1>8, <2>3, <2>4, <2>5, <2>6
<1>12. ASSUME NEW c \in Conns, Dispatch(c) PROVE RInv'
  <2>1. CASE vl[conn[c].to].state # "open" \/ Len(vl[conn[c].to].ch) = BufSize
    <3> DEFINE g == [conn[c] EXCEPT !.pc = "closed"]
    <3>1. g \in Handlers /\ g.pc = "closed"
      BY Fields DEF Handlers
    <3>2. conn[c].pc = "dispatch" /\ conn' = [conn EXCEPT ![c] = g] /\ routes' = routes /\ vl' = vl
      BY <1>12, <2>1 DEF Dispatch
    <3> HIDE DEF g
    <3> QED BY <1>8, <3>1, <3>2
  <2>2. CASE ~(vl[conn[c].to].state # "open" \/ Len(vl[conn[c].to].ch) = BufSize)
    BY <1>12, <2>2, HandedOver DEF Dispatch
  <2> QED BY <2>1, <2>2
<1>13. CASE UNCHANGED rvars
  BY <1>13 DEF rvars, RTyped, RRoutes, RBuffers, RQueued, RGoes, RBytes
<1>14. \A d \in Domains : {d} \in SUBSET Domains
  OBVIOUS
<1> QED BY <1>1, <1>2, <1>4, <1>5, <1>6, <1>7, <1>9, <1>10, <1>11, <1>12, <1>13, <1>14
  DEF RNext

\* A connection is given whole to the listener of its host, or closed
\* (handleConn, Dispatch, Close).
THEOREM RouterSafety == RSpec => []RouterSafe
<1>1. RInit => RInv
  BY RInitInv
<1>2. RInv /\ [RNext]_rvars => RInv'
  BY RNextInv
<1>3. RInv => RouterSafe
  BY RInvSafe
<1> QED BY <1>1, <1>2, <1>3, PTL DEF RSpec

-----------------------------------------------------------------------------
(* The webhook sender. *)

Jobs == Events \X Hooks
WorkerStates == [pc : {"free", "send", "backoff", "ended"}, job : Jobs \cup {<<>>},
                 attempt : 0 .. MaxRetries]

\* What the variables hold.
VTyped ==
  /\ vQueue \in Seq(Jobs) /\ Len(vQueue) <= QueueSize
  /\ vOpen \in BOOLEAN /\ vClosed \in BOOLEAN /\ vPanic = FALSE
  /\ vMu \in {"free", "close"} \cup Events
  /\ vSend \in [Events -> {"new", "locked", "refused", "returned"}]
  /\ vTodo \in SUBSET Hooks
  /\ vWorker \in [Workers -> WorkerStates]
  /\ vClose \in {"idle", "wait", "returned"}

\* closeMu: whoever is in the middle of Send or Close holds it, and Send finds
\* the queue open.
VLocks ==
  /\ \A e \in Events : vSend[e] = "locked" => vMu = e /\ vClose = "idle"
  /\ vClose = "wait" => vMu = "close"
  /\ vOpen <=> vClose = "idle"
  /\ vClosed <=> vClose # "idle"
  /\ \A w \in Workers : vWorker[w].pc = "ended" => vQueue = <<>> /\ ~vOpen
  /\ vClose = "returned" => \A w \in Workers : vWorker[w].pc = "ended"

InQueue(j) == \E i \in 1 .. Len(vQueue) : vQueue[i] = j
InWork(j) == \E w \in Workers : vWorker[w].pc \in {"send", "backoff"} /\ vWorker[w].job = j
InDone(j) == \E o \in vDone : o.job = j

\* No job is twice anywhere.
VOnce ==
  /\ \A i, j \in 1 .. Len(vQueue) : vQueue[i] = vQueue[j] => i = j
  /\ \A i \in 1 .. Len(vQueue) : ~InWork(vQueue[i]) /\ ~InDone(vQueue[i])
  /\ \A v \in Workers : vWorker[v].pc \in {"send", "backoff"} =>
       /\ ~InDone(vWorker[v].job)
       /\ \A w \in Workers : (vWorker[w].pc \in {"send", "backoff"}
                              /\ vWorker[v].job = vWorker[w].job) => v = w
  /\ \A o, p \in vDone : o.job = p.job => o = p

\* A job that was made is one that a Send has come to, and the other way round
\* unless the queue was full.
VFrom == \A e \in Events, h \in Hooks :
  /\ (InQueue(<<e, h>>) \/ InWork(<<e, h>>) \/ InDone(<<e, h>>)) =>
       \/ vSend[e] = "returned"
       \/ vSend[e] = "locked" /\ h \notin vTodo
  /\ (<<e, h>> \in Matches /\ (vSend[e] = "returned" \/ (vSend[e] = "locked" /\ h \notin vTodo))) =>
       InQueue(<<e, h>>) \/ InWork(<<e, h>>) \/ InDone(<<e, h>>) \/ <<e, h>> \in vDropped

\* A job ends delivered or after MaxRetries attempts.
VTries ==
  /\ \A o \in vDone : o.attempts \in 0 .. MaxRetries /\ (~o.ok => o.attempts = MaxRetries)
  /\ \A w \in Workers : vWorker[w].pc = "backoff" => vWorker[w].attempt < MaxRetries

\* The inductive invariant.
VInv == VTyped /\ VLocks /\ VOnce /\ VFrom /\ VTries

\* VInv gives WebhookSafe.
LEMMA VInvSafe == VInv => WebhookSafe
<1> SUFFICES ASSUME VInv PROVE WebhookSafe
  OBVIOUS
<1>1. \A w \in Workers : vWorker[w].pc \in {"free", "send", "backoff", "ended"}
                         /\ vWorker[w].attempt \in 0 .. MaxRetries
  <2> SUFFICES ASSUME NEW w \in Workers
               PROVE  vWorker[w].pc \in {"free", "send", "backoff", "ended"}
                      /\ vWorker[w].attempt \in 0 .. MaxRetries
    OBVIOUS
  <2>1. vWorker[w] \in WorkerStates
    BY DEF VInv, VTyped
  <2> QED BY <2>1 DEF WorkerStates
<1>2. VTypeOK
  BY <1>1 DEF VInv, VTyped, VTypeOK
<1>3. /\ \A j : j \in ToSet(vQueue) <=> InQueue(j)
      /\ \A j : j \in Working <=> InWork(j)
      /\ \A j : j \in Ended <=> InDone(j)
  <2>1. DOMAIN vQueue = 1 .. Len(vQueue)
    BY DEF VInv, VTyped
  <2>2. \A j : j \in ToSet(vQueue) <=> InQueue(j)
    BY <2>1 DEF ToSet, InQueue
  <2>3. \A j : j \in Working <=> InWork(j)
    BY DEF Working, Busy, InWork
  <2>4. \A j : j \in Ended <=> InDone(j)
    BY DEF Ended, InDone
  <2> QED BY <2>2, <2>3, <2>4
<1>4. JobsConserved
  <2>1. /\ \A i, j \in 1 .. Len(vQueue) : vQueue[i] = vQueue[j] => i = j
        /\ \A v, w \in Busy : vWorker[v].job = vWorker[w].job => v = w
        /\ \A o, p \in vDone : o.job = p.job => o = p
    BY DEF VInv, VOnce, Busy
  <2>2. \A j : InQueue(j) => ~InWork(j) /\ ~InDone(j)
    BY DEF VInv, VOnce, InQueue
  <2>3. \A j : InWork(j) => ~InDone(j)
    BY DEF VInv, VOnce, InWork
  <2>4. ToSet(vQueue) \cap Working = {} /\ (ToSet(vQueue) \cup Working) \cap Ended = {}
    BY <1>3, <2>2, <2>3
  <2>5. /\ \A o \in vDone : o.attempts <= MaxRetries /\ (~o.ok => o.attempts = MaxRetries)
        /\ \A w \in Workers : vWorker[w].attempt <= MaxRetries
    BY <1>1, VAssumption DEF VInv, VTries
  <2> QED BY <2>1, <2>4, <2>5 DEF JobsConserved
<1>5. NothingSkipped
  <2>1. \A e \in Events, h \in Hooks :
          (vSend[e] = "returned" /\ <<e, h>> \in Matches) =>
            <<e, h>> \in ToSet(vQueue) \cup Working \cup Ended \cup vDropped
    BY <1>3 DEF VInv, VFrom
  <2>2. vClose = "returned" => vQueue = <<>> /\ Working = {}
    BY VAssumption DEF VInv, VLocks, Working, Busy
  <2> QED BY <2>1, <2>2 DEF NothingSkipped
<1> QED BY <1>2, <1>4, <1>5 DEF WebhookSafe

\* Initially there is no job.
LEMMA VInitInv == VInit => VInv
<1> SUFFICES ASSUME VInit PROVE VInv
  OBVIOUS
<1>1. Free \in WorkerStates /\ Free.pc = "free"
  BY VAssumption DEF Free, WorkerStates
<1>2. VTyped
  <2>1. vQueue \in Seq(Jobs) /\ Len(vQueue) = 0
    BY DEF VInit
  <2>2. vWorker \in [Workers -> WorkerStates]
    BY <1>1 DEF VInit
  <2>3. /\ vOpen \in BOOLEAN /\ vClosed \in BOOLEAN /\ vPanic = FALSE
        /\ vMu \in {"free", "close"} \cup Events /\ vTodo \in SUBSET Hooks
        /\ vSend \in [Events -> {"new", "locked", "refused", "returned"}]
        /\ vClose \in {"idle", "wait", "returned"}
    BY DEF VInit
  <2>4. Len(vQueue) <= QueueSize
    BY <2>1, VAssumption
  <2> QED BY <2>1, <2>2, <2>3, <2>4 DEF VTyped
<1>3. VLocks
  BY <1>1 DEF VInit, VLocks
<1>4. \A j : ~InQueue(j) /\ ~InWork(j) /\ ~InDone(j)
  BY <1>1 DEF VInit, InQueue, InWork, InDone
<1>5. VOnce
  BY <1>1 DEF VInit, VOnce
<1>6. VFrom
  BY <1>4 DEF VInit, VFrom
<1>7. VTries
  BY <1>1 DEF VInit, VTries
<1> QED BY <1>2, <1>3, <1>5, <1>6, <1>7 DEF VInv

\* A step that changes neither the queue, the workers nor what has ended.
LEMMA VSameJobs ==
  ASSUME VInv, UNCHANGED <<vQueue, vWorker, vDone>>
  PROVE  /\ VOnce' /\ VTries'
         /\ \A j : (InQueue(j)' <=> InQueue(j)) /\ (InWork(j)' <=> InWork(j))
                   /\ (InDone(j)' <=> InDone(j))
<1>1. \A j : (InQueue(j)' <=> InQueue(j)) /\ (InWork(j)' <=> InWork(j))
             /\ (InDone(j)' <=> InDone(j))
  BY DEF InQueue, InWork, InDone
<1>2. VOnce'
  BY DEF VInv, VOnce, InWork, InDone
<1>3. VTries'
  BY DEF VInv, VTries
<1> QED BY <1>1, <1>2, <1>3

\* A step of a worker that keeps its job.
LEMMA VSameJob ==
  ASSUME VInv, NEW w \in Workers, UNCHANGED <<vQueue, vDone>>,
         NEW s \in WorkerStates, vWorker' = [vWorker EXCEPT ![w] = s],
         s.pc \in {"send", "backoff"} <=> vWorker[w].pc \in {"send", "backoff"},
         s.job = vWorker[w].job,
         s.pc = "backoff" => s.attempt < MaxRetries
  PROVE  /\ vWorker' \in [Workers -> WorkerStates] /\ VOnce' /\ VTries'
         /\ \A j : (InQueue(j)' <=> InQueue(j)) /\ (InWork(j)' <=> InWork(j))
                   /\ (InDone(j)' <=> InDone(j))
<1>1. vWorker \in [Workers -> WorkerStates]
  BY DEF VInv, VTyped
<1>2. vWorker' \in [Workers -> WorkerStates]
  BY <1>1
<1>3. vWorker'[w] = s /\ \A v \in Workers : v # w => vWorker'[v] = vWorker[v]
  BY <1>1
<1>4. \A v \in Workers : /\ vWorker'[v].pc \in {"send", "backoff"} <=> vWorker[v].pc \in {"send", "backoff"}
                         /\ vWorker'[v].job = vWorker[v].job
  BY <1>3
<1>5. \A j : (InQueue(j)' <=> InQueue(j)) /\ (InWork(j)' <=> InWork(j))
             /\ (InDone(j)' <=> InDone(j))
  BY <1>4 DEF InQueue, InWork, InDone
<1>6. VOnce'
  <2>1. /\ \A i, j \in 1 .. Len(vQueue)' : vQueue'[i] = vQueue'[j] => i = j
        /\ \A i \in 1 .. Len(vQueue)' : ~InWork(vQueue[i])' /\ ~InDone(vQueue[i])'
        /\ \A o, p \in vDone' : o.job = p.job => o = p
    BY <1>5 DEF VInv, VOnce
  <2>2. ASSUME NEW v \in Workers, vWorker'[v].pc \in {"send", "backoff"}
        PROVE  /\ ~InDone(vWorker[v].job)'
               /\ \A x \in Workers : (vWorker'[x].pc \in {"send", "backoff"}
                              /\ vWorker'[v].job = vWorker'[x].job) => v = x
    BY <1>4, <1>5, <2>2 DEF VInv, VOnce
  <2> QED BY <2>1, <2>2 DEF VOnce
<1>7. VTries'
  BY <1>3 DEF VInv, VTries
<1> QED BY <1>2, <1>5, <1>6, <1>7

\* A worker takes the first job.
LEMMA VTakeInv ==
  ASSUME VInv, NEW w \in Workers, VTake(w)
  PROVE  VInv'
<1> DEFINE q == vQueue
           j == Head(q)
           s == [pc |-> "send", job |-> j, attempt |-> 1]
<1>1. /\ vWorker[w].pc = "free" /\ q # <<>>
      /\ vWorker' = [vWorker EXCEPT ![w] = s] /\ vQueue' = Tail(q)
      /\ UNCHANGED <<vOpen, vClosed, vMu, vSend, vTodo, vClose, vDone, vDropped, vPanic>>
  BY DEF VTake
<1>2. q \in Seq(Jobs) /\ Len(q) <= QueueSize /\ vWorker \in [Workers -> WorkerStates]
  BY DEF VInv, VTyped
<1>3. /\ j = q[1] /\ j \in Jobs /\ Len(q) \in Nat /\ Len(q) >= 1
      /\ Tail(q) \in Seq(Jobs) /\ Len(Tail(q)) = Len(q) - 1
      /\ \A i \in 1 .. Len(q) - 1 : Tail(q)[i] = q[i + 1]
  BY <1>1, <1>2, HeadTailProperties
<1>4. s \in WorkerStates /\ s.pc = "send" /\ s.job = j
  BY <1>3, VAssumption DEF WorkerStates
<1> HIDE DEF j, s
<1>5. vWorker'[w] = s /\ \A v \in Workers : v # w => vWorker'[v] = vWorker[v]
  BY <1>1, <1>2
<1>6. VTyped'
  <2>1. vWorker' \in [Workers -> WorkerStates]
    BY <1>1, <1>2, <1>4
  <2>2. vQueue' \in Seq(Jobs) /\ Len(vQueue') <= QueueSize
    BY <1>1, <1>2, <1>3, VAssumption
  <2> QED BY <1>1, <2>1, <2>2 DEF VInv, VTyped
<1>7. VLocks'
  BY <1>1, <1>4, <1>5 DEF VInv, VLocks
<1>8. \A x : /\ InQueue(x) <=> InQueue(x)' \/ x = j
             /\ InWork(x)' <=> InWork(x) \/ x = j
             /\ InDone(x)' <=> InDone(x)
  <2>1. \A x : InQueue(x)' => InQueue(x)
    BY <1>1, <1>3 DEF InQueue
  <2>2. InQueue(j)
    BY <1>3 DEF InQueue
  <2>3. ASSUME NEW x, InQueue(x), x # j PROVE InQueue(x)'
    <3>1. PICK i \in 1 .. Len(q) : q[i] = x
      BY <2>3 DEF InQueue
    <3>2. i - 1 \in 1 .. Len(Tail(q)) /\ Tail(q)[i - 1] = x
      BY <1>3, <2>3, <3>1
    <3> QED BY <1>1, <3>2 DEF InQueue
  <2>4. \A x : InWork(x)' <=> InWork(x) \/ x = j
    BY <1>1, <1>4, <1>5 DEF InWork
  <2>5. \A x : InDone(x)' <=> InDone(x)
    BY <1>1 DEF InDone
  <2> QED BY <2>1, <2>2, <2>3, <2>4, <2>5
<1>9. VOnce'
  <2>1. /\ \A i, k \in 1 .. Len(q) : q[i] = q[k] => i = k
        /\ \A i \in 1 .. Len(q) : ~InWork(q[i]) /\ ~InDone(q[i])
    BY DEF VInv, VOnce
  <2>2. \A i \in 1 .. Len(Tail(q)) : i + 1 \in 1 .. Len(q) /\ Tail(q)[i] = q[i + 1] /\ i + 1 # 1
    BY <1>3
  <2>3. \A i, k \in 1 .. Len(Tail(q)) : Tail(q)[i] = Tail(q)[k] => i = k
    BY <2>1, <2>2
  <2>4. 1 \in 1 .. Len(q)
    BY <1>3
  <2>5. \A i \in 1 .. Len(Tail(q)) : Tail(q)[i] # j
    BY <1>3, <2>1, <2>2, <2>4
  <2>6. ASSUME NEW i \in 1 .. Len(Tail(q)), NEW x, x = Tail(q)[i]
        PROVE  ~InWork(x)' /\ ~InDone(x)'
    <3>1. ~InWork(x) /\ ~InDone(x) /\ x # j
      BY <2>1, <2>2, <2>5, <2>6
    <3> QED BY <1>8, <3>1
  <2>7. ~InDone(j) /\ ~InWork(j)
    BY <1>3, <2>1, <2>4
  <2>8. ASSUME NEW v \in Workers, vWorker'[v].pc \in {"send", "backoff"}
        PROVE  /\ ~InDone(vWorker[v].job)'
               /\ \A x \in Workers : (vWorker'[x].pc \in {"send", "backoff"}
                              /\ vWorker'[v].job = vWorker'[x].job) => v = x
    <3>1. CASE v = w
      <4>1. \A x \in Workers : (x # w /\ vWorker'[x].pc \in {"send", "backoff"}) => vWorker'[x].job # j
        BY <1>5, <2>7 DEF InWork
      <4> QED BY <1>1, <1>4, <1>5, <2>7, <3>1, <4>1 DEF InDone
    <3>2. CASE v # w
      <4>1. vWorker'[v] = vWorker[v] /\ vWorker[v].job # j
        BY <1>5, <2>7, <2>8, <3>2 DEF InWork
      <4>2. ~InDone(vWorker[v].job)
        BY <2>8, <4>1 DEF VInv, VOnce
      <4>3. \A x \in Workers : (vWorker'[x].pc \in {"send", "backoff"}
                              /\ vWorker'[v].job = vWorker'[x].job) => v = x
        BY <1>4, <1>5, <2>8, <4>1 DEF VInv, VOnce
      <4> QED BY <1>1, <4>1, <4>2, <4>3 DEF InDone
    <3> QED BY <3>1, <3>2
  <2>9. \A o, p \in vDone' : o.job = p.job => o = p
    BY <1>1 DEF VInv, VOnce
  <2>10. \A i \in 1 .. Len(vQueue)' : ~InWork(vQueue[i])' /\ ~InDone(vQueue[i])'
    <3> SUFFICES ASSUME NEW i \in 1 .. Len(vQueue')
                 PROVE  ~InWork(vQueue[i])' /\ ~InDone(vQueue[i])'
      OBVIOUS
    <3>1. PICK x : x = vQueue'[i]
      OBVIOUS
    <3>2. ~InWork(x)' /\ ~InDone(x)'
      BY <1>1, <2>6, <3>1
    <3> QED BY <3>1, <3>2 DEF InWork, InDone
  <2> QED BY <1>1, <2>3, <2>8, <2>9, <2>10 DEF VOnce
<1>10. VFrom'
  BY <1>1, <1>8 DEF VInv, VFrom
<1>11. VTries'
  BY <1>1, <1>4, <1>5 DEF VInv, VTries
<1> QED BY <1>6, <1>7, <1>9, <1>10, <1>11 DEF VInv

\* The job of a worker ends.
LEMMA VEndInv ==
  ASSUME VInv, NEW w \in Workers, NEW ok \in BOOLEAN, vWorker[w].pc = "send",
         ~ok => vWorker[w].attempt = MaxRetries,
         vWorker' = [vWorker EXCEPT ![w] = Free],
         vDone' = vDone \cup {Outcome(w, ok)},
         UNCHANGED <<vQueue, vOpen, vClosed, vMu, vSend, vTodo, vClose, vDropped, vPanic>>
  PROVE  VInv'
<1> DEFINE j == vWorker[w].job
           o == Outcome(w, ok)
<1>1. Free \in WorkerStates /\ Free.pc = "free"
  BY VAssumption DEF Free, WorkerStates
<1>2. vWorker \in [Workers -> WorkerStates] /\ vWorker[w] \in WorkerStates
  BY DEF VInv, VTyped
<1>3. vWorker'[w] = Free /\ \A v \in Workers : v # w => vWorker'[v] = vWorker[v]
  BY <1>2
<1>4. o.job = j /\ o.attempts = vWorker[w].attempt /\ o.ok = ok /\ o.attempts \in 0 .. MaxRetries
  BY <1>2 DEF Outcome, WorkerStates
<1>5. vDone' = vDone \cup {o}
  OBVIOUS
<1>6. InWork(j) /\ ~InDone(j) /\ ~InQueue(j)
  BY DEF VInv, VOnce, InWork, InQueue
<1> HIDE DEF o
<1>7. VTyped'
  <2>1. vWorker' \in [Workers -> WorkerStates]
    BY <1>1, <1>2
  <2> QED BY <2>1 DEF VInv, VTyped
<1>8. VLocks'
  BY <1>1, <1>3 DEF VInv, VLocks
<1>9. \A x : /\ InQueue(x)' <=> InQueue(x)
             /\ InWork(x) <=> InWork(x)' \/ x = j
             /\ InDone(x)' <=> InDone(x) \/ x = j
  <2>1. \A x : InQueue(x)' <=> InQueue(x)
    BY DEF InQueue
  <2>2. \A x : InDone(x)' <=> InDone(x) \/ x = j
    BY <1>4, <1>5 DEF InDone
  <2>3. \A x : InWork(x)' => InWork(x)
    BY <1>1, <1>3 DEF InWork
  <2>4. ASSUME NEW x, InWork(x), x # j PROVE InWork(x)'
    BY <1>3, <2>4 DEF InWork
  <2> QED BY <1>6, <2>1, <2>2, <2>3, <2>4
<1>10. VOnce'
  <2>1. \A i \in 1 .. Len(vQueue) : vQueue[i] # j /\ ~InWork(vQueue[i])' /\ ~InDone(vQueue[i])
    <3>1. \A i \in 1 .. Len(vQueue) : vQueue[i] # j
      BY <1>6 DEF InQueue
    <3>2. \A i \in 1 .. Len(vQueue) : ~InWork(vQueue[i]) /\ ~InDone(vQueue[i])
      BY DEF VInv, VOnce
    <3>3. \A i \in 1 .. Len(vQueue) : ~InWork(vQueue[i])'
      BY <1>1, <1>3, <3>2 DEF InWork
    <3> QED BY <3>1, <3>2, <3>3
  <2>2. \A i \in 1 .. Len(vQueue)' : ~InWork(vQueue[i])' /\ ~InDone(vQueue[i])'
    BY <1>4, <1>5, <2>1 DEF InDone, InWork
  <2>3. ASSUME NEW v \in Workers, vWorker'[v].pc \in {"send", "backoff"}
        PROVE  /\ ~InDone(vWorker[v].job)'
               /\ \A x \in Workers : (vWorker'[x].pc \in {"send", "backoff"}
                              /\ vWorker'[v].job = vWorker'[x].job) => v = x
    <3>1. v # w /\ vWorker'[v] = vWorker[v]
      BY <1>1, <1>3, <2>3
    <3>2. vWorker[v].job # j /\ ~InDone(vWorker[v].job)
      BY <2>3, <3>1 DEF VInv, VOnce
    <3>3. \A x \in Workers : (vWorker'[x].pc \in {"send", "backoff"}
                              /\ vWorker'[v].job = vWorker'[x].job) => v = x
      BY <1>1, <1>3, <2>3, <3>1 DEF VInv, VOnce
    <3> QED BY <1>4, <1>5, <3>1, <3>2, <3>3 DEF InDone
  <2>4. \A a, b \in vDone' : a.job = b.job => a = b
    <3>1. \A a \in vDone : a.job # j
      BY <1>6 DEF InDone
    <3>2. \A a, b \in vDone : a.job = b.job => a = b
      BY DEF VInv, VOnce
    <3> QED BY <1>4, <1>5, <3>1, <3>2
  <2>5. \A i, k \in 1 .. Len(vQueue)' : vQueue'[i] = vQueue'[k] => i = k
    BY DEF VInv, VOnce
  <2> QED BY <2>2, <2>3, <2>4, <2>5 DEF VOnce
<1>11. VFrom'
  BY <1>9 DEF VInv, VFrom
<1>12. VTries'
  <2>1. \A a \in vDone : a.attempts \in 0 .. MaxRetries /\ (~a.ok => a.attempts = MaxRetries)
    BY DEF VInv, VTries
  <2>2. \A a \in vDone' : a.attempts \in 0 .. MaxRetries /\ (~a.ok => a.attempts = MaxRetries)
    BY <1>4, <1>5, <2>1
  <2>3. \A v \in Workers : vWorker'[v].pc = "backoff" => vWorker'[v].attempt < MaxRetries
    BY <1>1, <1>3 DEF VInv, VTries
  <2> QED BY <2>2, <2>3 DEF VTries
<1> QED BY <1>7, <1>8, <1>10, <1>11, <1>12 DEF VInv

\* A Send puts a job into the queue, or drops it.
LEMMA VEnqueueInv ==
  ASSUME VInv, NEW e \in Events, NEW h \in Hooks, VEnqueue(e, h)
  PROVE  VInv'
<1> DEFINE q == vQueue
           j == <<e, h>>
<1>1. /\ vSend[e] = "locked" /\ h \in vTodo /\ vTodo' = vTodo \ {h} /\ vPanic' = ~vOpen
      /\ UNCHANGED <<vOpen, vClosed, vMu, vSend, vWorker, vClose, vDone>>
  BY DEF VEnqueue
<1>2. /\ q \in Seq(Jobs) /\ Len(q) <= QueueSize /\ Len(q) \in Nat /\ j \in Jobs
  BY DEF VInv, VTyped, Jobs
<1>3. vMu = e /\ vClose = "idle" /\ vOpen /\ vPanic' = FALSE
  BY <1>1 DEF VInv, VLocks
<1>4. \A f \in Events : vSend[f] = "locked" => f = e
  BY <1>1 DEF VInv, VLocks
<1>5. ~InQueue(j) /\ ~InWork(j) /\ ~InDone(j)
  BY <1>1 DEF VInv, VFrom
<1>6. vTodo' \in SUBSET Hooks /\ \A g \in Hooks : g \notin vTodo' <=> g \notin vTodo \/ g = h
  BY <1>1 DEF VInv, VTyped
<1>7. CASE Len(q) < QueueSize
  <2>1. vQueue' = Append(q, j) /\ vDropped' = vDropped
    BY <1>7 DEF VEnqueue
  <2>2. /\ vQueue' \in Seq(Jobs) /\ Len(vQueue') = Len(q) + 1 /\ vQueue'[Len(q) + 1] = j
        /\ \A i \in 1 .. Len(q) : vQueue'[i] = q[i]
        /\ \A i \in 1 .. Len(q) + 1 : i = Len(q) + 1 \/ i \in 1 .. Len(q)
    BY <1>2, <2>1, AppendProperties
  <2> HIDE DEF j
  <2>3. \A x : /\ InQueue(x)' <=> InQueue(x) \/ x = j
               /\ InWork(x)' <=> InWork(x)
               /\ InDone(x)' <=> InDone(x)
    <3>1. \A x : InWork(x)' <=> InWork(x)
      BY <1>1 DEF InWork
    <3>2. \A x : InDone(x)' <=> InDone(x)
      BY <1>1 DEF InDone
    <3>3. ASSUME NEW x, InQueue(x) PROVE InQueue(x)'
      <4>1. PICK i \in 1 .. Len(q) : q[i] = x
        BY <3>3 DEF InQueue
      <4>2. i \in 1 .. Len(vQueue') /\ vQueue'[i] = x
        BY <1>2, <2>2, <4>1
      <4> QED BY <4>2 DEF InQueue
    <3>4. InQueue(j)'
      <4>1. Len(q) + 1 \in 1 .. Len(vQueue')
        BY <1>2, <2>2
      <4> QED BY <2>2, <4>1 DEF InQueue, j
    <3>5. ASSUME NEW x, InQueue(x)', x # j PROVE InQueue(x)
      <4>1. PICK i \in 1 .. Len(vQueue') : vQueue'[i] = x
        BY <3>5 DEF InQueue
      <4> QED BY <2>2, <3>5, <4>1 DEF InQueue
    <3> QED BY <3>1, <3>2, <3>3, <3>4, <3>5
  <2>4. VTyped'
    <3>1. vQueue' \in Seq(Jobs) /\ Len(vQueue') <= QueueSize
      BY <1>2, <1>7, <2>2, VAssumption
    <3> QED BY <1>1, <1>3, <1>6, <3>1 DEF VInv, VTyped
  <2>5. VLocks'
    BY <1>1, <1>3 DEF VInv, VLocks
  <2>6. VOnce'
    <3>1. /\ \A i, k \in 1 .. Len(q) : q[i] = q[k] => i = k
          /\ \A i \in 1 .. Len(q) : ~InWork(q[i]) /\ ~InDone(q[i]) /\ q[i] # j
      BY <1>5 DEF VInv, VOnce, InQueue
    <3>2. \A i, k \in 1 .. Len(q) + 1 : vQueue'[i] = vQueue'[k] => i = k
      <4> SUFFICES ASSUME NEW i \in 1 .. Len(q) + 1, NEW k \in 1 .. Len(q) + 1,
                          vQueue'[i] = vQueue'[k]
                   PROVE  i = k
        OBVIOUS
      <4>1. CASE i \in 1 .. Len(q) /\ k \in 1 .. Len(q)
        BY <2>2, <3>1, <4>1
      <4>2. CASE i = Len(q) + 1
        BY <2>2, <3>1, <4>2
      <4>3. CASE k = Len(q) + 1
        BY <2>2, <3>1, <4>3
      <4> QED BY <2>2, <4>1, <4>2, <4>3
    <3>3. \A i \in 1 .. Len(vQueue)' : ~InWork(vQueue[i])' /\ ~InDone(vQueue[i])'
      <4> SUFFICES ASSUME NEW i \in 1 .. Len(q) + 1
                   PROVE  ~InWork(vQueue[i])' /\ ~InDone(vQueue[i])'
        BY <2>2
      <4>1. PICK x : x = vQueue'[i]
        OBVIOUS
      <4>2. ~InWork(x) /\ ~InDone(x)
        BY <1>5, <2>2, <3>1, <4>1 DEF j
      <4>3. ~InWork(x)' /\ ~InDone(x)'
        BY <2>3, <4>2
      <4> QED BY <4>1, <4>3 DEF InWork, InDone
    <3>4. /\ \A v \in Workers : vWorker[v].pc \in {"send", "backoff"} =>
               /\ ~InDone(vWorker[v].job)
               /\ \A w \in Workers : (vWorker[w].pc \in {"send", "backoff"}
                              /\ vWorker[v].job = vWorker[w].job) => v = w
          /\ \A o, p \in vDone : o.job = p.job => o = p
      BY DEF VInv, VOnce
    <3>5. /\ \A v \in Workers : vWorker'[v].pc \in {"send", "backoff"} =>
               /\ ~InDone(vWorker[v].job)'
               /\ \A w \in Workers : (vWorker'[w].pc \in {"send", "backoff"}
                              /\ vWorker'[v].job = vWorker'[w].job) => v = w
          /\ \A o, p \in vDone' : o.job = p.job => o = p
      BY <1>1, <3>4 DEF InDone
    <3> QED BY <2>2, <3>2, <3>3, <3>5 DEF VOnce
  <2>7. VFrom'
    BY <1>1, <1>4, <1>6, <2>1, <2>3 DEF VInv, VFrom, j
  <2>8. VTries'
    BY <1>1 DEF VInv, VTries
  <2> QED BY <2>4, <2>5, <2>6, <2>7, <2>8 DEF VInv
<1>8. CASE ~(Len(q) < QueueSize)
  <2>1. vQueue' = vQueue /\ vDropped' = vDropped \cup {j}
    BY <1>8 DEF VEnqueue
  <2>2. /\ VOnce' /\ VTries'
        /\ \A x : (InQueue(x)' <=> InQueue(x)) /\ (InWork(x)' <=> InWork(x))
                   /\ (InDone(x)' <=> InDone(x))
    BY <1>1, <2>1, VSameJobs
  <2>3. VTyped'
    BY <1>1, <1>3, <1>6, <2>1 DEF VInv, VTyped
  <2>4. VLocks'
    BY <1>1, <1>3, <2>1 DEF VInv, VLocks
  <2>5. VFrom'
    BY <1>1, <1>4, <1>6, <2>1, <2>2 DEF VInv, VFrom
  <2> QED BY <2>2, <2>3, <2>4, <2>5 DEF VInv
<1> QED BY <1>7, <1>8

\* Every step of the sender keeps VInv.
LEMMA VNextInv == VInv /\ [VNext]_vvars => VInv'
<1> SUFFICES ASSUME VInv, [VNext]_vvars PROVE VInv'
  OBVIOUS
<1>1. CASE VClose
  <2>1. /\ VOnce' /\ VTries'
        /\ \A x : (InQueue(x)' <=> InQueue(x)) /\ (InWork(x)' <=> InWork(x))
                   /\ (InDone(x)' <=> InDone(x))
    BY <1>1, VSameJobs DEF VClose
  <2>2. VTyped'
    BY <1>1 DEF VClose, VInv, VTyped
  <2>3. VLocks'
    BY <1>1, VAssumption DEF VClose, VInv, VLocks
  <2>4. VFrom'
    BY <1>1, <2>1 DEF VClose, VInv, VFrom
  <2> QED BY <2>1, <2>2, <2>3, <2>4 DEF VInv
<1>2. CASE VCloseReturns
  <2>1. /\ VOnce' /\ VTries'
        /\ \A x : (InQueue(x)' <=> InQueue(x)) /\ (InWork(x)' <=> InWork(x))
                   /\ (InDone(x)' <=> InDone(x))
    BY <1>2, VSameJobs DEF VCloseReturns
  <2>2. VTyped'
    BY <1>2 DEF VCloseReturns, VInv, VTyped
  <2>3. VLocks'
    BY <1>2 DEF VCloseReturns, VInv, VLocks
  <2>4. VFrom'
    BY <1>2, <2>1 DEF VCloseReturns, VInv, VFrom
  <2> QED BY <2>1, <2>2, <2>3, <2>4 DEF VInv
<1>3. ASSUME NEW e \in Events, VLock(e) PROVE VInv'
  <2>1. /\ vSend[e] = "new" /\ vMu = "free"
        /\ UNCHANGED <<vQueue, vOpen, vClosed, vWorker, vClose, vDone, vDropped, vPanic>>
    BY <1>3 DEF VLock
  <2>2. /\ VOnce' /\ VTries'
        /\ \A x : (InQueue(x)' <=> InQueue(x)) /\ (InWork(x)' <=> InWork(x))
                   /\ (InDone(x)' <=> InDone(x))
    BY <2>1, VSameJobs
  <2>3. \A f \in Events : vSend[f] # "locked"
    BY <2>1, VAssumption DEF VInv, VLocks
  <2>4. CASE vClosed
    <3>1. vSend' = [vSend EXCEPT ![e] = "refused"] /\ UNCHANGED <<vMu, vTodo>>
      BY <1>3, <2>4 DEF VLock
    <3>2. VTyped'
      BY <2>1, <3>1 DEF VInv, VTyped
    <3>3. \A f \in Events : vSend'[f] # "locked" /\ (vSend'[f] = "returned" <=> vSend[f] = "returned")
      BY <2>1, <2>3, <3>1 DEF VInv, VTyped
    <3>4. VLocks'
      BY <2>1, <3>1, <3>3 DEF VInv, VLocks
    <3>5. VFrom'
      BY <2>1, <2>2, <2>3, <3>3 DEF VInv, VFrom
    <3> QED BY <2>2, <3>2, <3>4, <3>5 DEF VInv
  <2>5. CASE ~vClosed
    <3>1. /\ vMu' = e /\ vSend' = [vSend EXCEPT ![e] = "locked"]
          /\ vTodo' = Wanted(e)
      BY <1>3, <2>5 DEF VLock
    <3>2. Wanted(e) \subseteq Hooks /\ \A h \in Hooks : h \in Wanted(e) <=> <<e, h>> \in Matches
      BY DEF Wanted
    <3>3. VTyped'
      BY <2>1, <3>1, <3>2 DEF VInv, VTyped
    <3>4. \A f \in Events : vSend'[f] = IF f = e THEN "locked" ELSE vSend[f]
      BY <3>1 DEF VInv, VTyped
    <3>5. VLocks'
      BY <2>1, <2>3, <2>5, <3>1, <3>4 DEF VInv, VLocks
    <3>6. \A h \in Hooks : ~InQueue(<<e, h>>) /\ ~InWork(<<e, h>>) /\ ~InDone(<<e, h>>)
      BY <2>1 DEF VInv, VFrom
    <3>7. VFrom'
      <4> SUFFICES ASSUME NEW f \in Events, NEW h \in Hooks
                   PROVE  /\ (InQueue(<<f, h>>)' \/ InWork(<<f, h>>)' \/ InDone(<<f, h>>)') =>
                               \/ vSend'[f] = "returned"
                               \/ vSend'[f] = "locked" /\ h \notin vTodo'
                          /\ (<<f, h>> \in Matches /\ (vSend'[f] = "returned"
                                \/ (vSend'[f] = "locked" /\ h \notin vTodo'))) =>
                               InQueue(<<f, h>>)' \/ InWork(<<f, h>>)' \/ InDone(<<f, h>>)'
                               \/ <<f, h>> \in vDropped'
        BY DEF VFrom
      <4>1. CASE f = e
        BY <2>2, <3>1, <3>2, <3>4, <3>6, <4>1
      <4>2. CASE f # e
        BY <2>1, <2>2, <2>3, <3>4, <4>2 DEF VInv, VFrom
      <4> QED BY <4>1, <4>2
    <3> QED BY <2>2, <3>3, <3>5, <3>7 DEF VInv
  <2> QED BY <2>4, <2>5
<1>4. ASSUME NEW e \in Events, VUnlock(e) PROVE VInv'
  <2>1. /\ vSend[e] = "locked" /\ vTodo = {} /\ vMu' = "free"
        /\ vSend' = [vSend EXCEPT ![e] = "returned"]
        /\ UNCHANGED <<vTodo, vQueue, vOpen, vClosed, vWorker, vClose, vDone, vDropped, vPanic>>
    BY <1>4 DEF VUnlock
  <2>2. /\ VOnce' /\ VTries'
        /\ \A x : (InQueue(x)' <=> InQueue(x)) /\ (InWork(x)' <=> InWork(x))
                   /\ (InDone(x)' <=> InDone(x))
    BY <2>1, VSameJobs
  <2>3. \A f \in Events : vSend'[f] = IF f = e THEN "returned" ELSE vSend[f]
    BY <2>1 DEF VInv, VTyped
  <2>4. \A f \in Events : vSend[f] = "locked" => f = e
    BY <2>1 DEF VInv, VLocks
  <2>5. VTyped'
    BY <2>1 DEF VInv, VTyped
  <2>6. VLocks'
    BY <2>1, <2>3, <2>4, VAssumption DEF VInv, VLocks
  <2>7. VFrom'
    BY <2>1, <2>2, <2>3, <2>4 DEF VInv, VFrom
  <2> QED BY <2>2, <2>5, <2>6, <2>7 DEF VInv
<1>5. ASSUME NEW e \in Events, NEW h \in Hooks, VEnqueue(e, h) PROVE VInv'
  BY <1>5, VEnqueueInv
<1>6. ASSUME NEW w \in Workers, VTake(w) PROVE VInv'
  BY <1>6, VTakeInv
<1>7. ASSUME NEW w \in Workers, NEW s \in WorkerStates,
             vWorker' = [vWorker EXCEPT ![w] = s],
             s.pc \in {"send", "backoff"} <=> vWorker[w].pc \in {"send", "backoff"},
             s.job = vWorker[w].job,
             s.pc = "backoff" => s.attempt < MaxRetries,
             s.pc = "ended" => vQueue = <<>> /\ ~vOpen,
             vWorker[w].pc # "ended",
             UNCHANGED <<vQueue, vOpen, vClosed, vMu, vSend, vTodo, vClose, vDone, vDropped, vPanic>>
      PROVE  VInv'
  <2>1. /\ vWorker' \in [Workers -> WorkerStates] /\ VOnce' /\ VTries'
         /\ \A j : (InQueue(j)' <=> InQueue(j)) /\ (InWork(j)' <=> InWork(j))
                   /\ (InDone(j)' <=> InDone(j))
    BY <1>7, VSameJob
  <2>2. vWorker'[w] = s /\ \A v \in Workers : v # w => vWorker'[v] = vWorker[v]
    BY <1>7 DEF VInv, VTyped
  <2>3. VTyped'
    BY <1>7, <2>1 DEF VInv, VTyped
  <2>4. VLocks'
    BY <1>7, <2>2 DEF VInv, VLocks
  <2>5. VFrom'
    BY <1>7, <2>1 DEF VInv, VFrom
  <2> QED BY <2>1, <2>3, <2>4, <2>5 DEF VInv
<1>8. ASSUME NEW w \in Workers, VWorkerEnds(w) PROVE VInv'
  <2> DEFINE s == [vWorker[w] EXCEPT !.pc = "ended"]
  <2>1. vWorker[w] \in WorkerStates
    BY DEF VInv, VTyped
  <2>2. s \in WorkerStates /\ s.pc = "ended" /\ s.job = vWorker[w].job
    BY <2>1 DEF WorkerStates
  <2>3. /\ vWorker[w].pc = "free" /\ vQueue = <<>> /\ ~vOpen
        /\ vWorker' = [vWorker EXCEPT ![w] = s]
        /\ UNCHANGED <<vQueue, vOpen, vClosed, vMu, vSend, vTodo, vClose, vDone, vDropped, vPanic>>
    BY <1>8 DEF VWorkerEnds
  <2> HIDE DEF s
  <2> QED BY <1>7, <2>2, <2>3
<1>9. ASSUME NEW w \in Workers, VAttempt(w) PROVE VInv'
  <2>1. /\ vWorker[w].pc = "send" /\ vWorker[w] \in WorkerStates
        /\ UNCHANGED <<vQueue, vOpen, vClosed, vMu, vSend, vTodo, vClose, vDropped, vPanic>>
    BY <1>9 DEF VAttempt, VInv, VTyped
  <2>2. CASE vWorker' = [vWorker EXCEPT ![w] = Free] /\ vDone' = vDone \cup {Outcome(w, TRUE)}
    BY <2>1, <2>2, VEndInv
  <2>3. CASE vWorker[w].attempt < MaxRetries /\ vWorker' = [vWorker EXCEPT ![w].pc = "backoff"]
             /\ UNCHANGED vDone
    <3> DEFINE s == [vWorker[w] EXCEPT !.pc = "backoff"]
    <3>1. /\ s \in WorkerStates /\ s.pc = "backoff" /\ s.job = vWorker[w].job
          /\ s.attempt = vWorker[w].attempt
      BY <2>1 DEF WorkerStates
    <3>2. vWorker' = [vWorker EXCEPT ![w] = s]
      BY <2>3
    <3> HIDE DEF s
    <3> QED BY <1>7, <2>1, <2>3, <3>1, <3>2
  <2>4. CASE /\ ~(vWorker[w].attempt < MaxRetries)
             /\ vWorker' = [vWorker EXCEPT ![w] = Free] /\ vDone' = vDone \cup {Outcome(w, FALSE)}
    <3>1. vWorker[w].attempt = MaxRetries
      BY <2>1, <2>4, VAssumption DEF WorkerStates
    <3> QED BY <2>1, <2>4, <3>1, VEndInv
  <2> QED BY <1>9, <2>2, <2>3, <2>4 DEF VAttempt
<1>10. ASSUME NEW w \in Workers, VBackoff(w) PROVE VInv'
  <2> DEFINE s == [vWorker[w] EXCEPT !.pc = "send", !.attempt = @ + 1]
  <2>1. vWorker[w].pc = "backoff" /\ vWorker[w] \in WorkerStates /\ vWorker[w].attempt < MaxRetries
    BY <1>10 DEF VBackoff, VInv, VTyped, VTries
  <2>2. s \in WorkerStates /\ s.pc = "send" /\ s.job = vWorker[w].job
    <3>1. vWorker[w].attempt \in 0 .. MaxRetries /\ vWorker[w].attempt + 1 \in 0 .. MaxRetries
      BY <2>1, VAssumption DEF WorkerStates
    <3>2. \A n \in 0 .. MaxRetries, r \in WorkerStates :
            LET t == [r EXCEPT !.pc = "send", !.attempt = n]
            IN  t \in WorkerStates /\ t.pc = "send" /\ t.job = r.job
      BY DEF WorkerStates
    <3> QED BY <2>1, <3>1, <3>2
  <2>3. /\ vWorker' = [vWorker EXCEPT ![w] = s]
        /\ UNCHANGED <<vQueue, vOpen, vClosed, vMu, vSend, vTodo, vClose, vDone, vDropped, vPanic>>
    BY <1>10 DEF VBackoff
  <2> HIDE DEF s
  <2> QED BY <1>7, <2>1, <2>2, <2>3
<1>11. CASE UNCHANGED vvars
  <2>1. /\ VOnce' /\ VTries'
        /\ \A x : (InQueue(x)' <=> InQueue(x)) /\ (InWork(x)' <=> InWork(x))
                   /\ (InDone(x)' <=> InDone(x))
    BY <1>11, VSameJobs DEF vvars
  <2> QED BY <1>11, <2>1 DEF vvars, VInv, VTyped, VLocks, VFrom
<1> QED BY <1>1, <1>2, <1>3, <1>4, <1>5, <1>6, <1>8, <1>9, <1>10, <1>11 DEF VNext

\* No notification is lost or sent twice between Send, the queue, the workers
\* and Close, and no Send meets a closed queue (Send, worker, Close).
THEOREM WebhookSafety == VSpec => []WebhookSafe
<1>1. VInit => VInv
  BY VInitInv
<1>2. VInv /\ [VNext]_vvars => VInv'
  BY VNextInv
<1>3. VInv => WebhookSafe
  BY VInvSafe
<1> QED BY <1>1, <1>2, <1>3, PTL DEF VSpec

-----------------------------------------------------------------------------
(* The preferences of the dashboard's users. *)

Entries == [is : {"none", "corrupt", "prefs"}, prefs : Prefs]
CallStates == [pc : {"none", "temp", "rename", "cache"}, key : UserKeys \cup {"none"},
               prefs : Prefs, pin : EProxies \cup {"none"}]

\* What the variables hold.
ETyped ==
  /\ eFile \in [UserKeys -> Entries] /\ eCache \in [UserKeys -> Entries]
  /\ ePinned \in [UserKeys -> SUBSET EProxies] /\ eWhole \in [UserKeys -> BOOLEAN]
  /\ eCall \in CallStates

\* What TogglePin makes of the pins; "none": only the sort key is changed.
Pinned(pins, pin) ==
  IF pin = "none" THEN pins ELSE IF pin \in pins THEN pins \ {pin} ELSE pins \cup {pin}

\* The running call holds the lock; what it is to write, or has just written,
\* is what it found in the file with its change.
ECallOK ==
  /\ eCall.pc = "none" <=> eMu = "free"
  /\ eCall.pc # "none" => eCall.key \in UserKeys
  /\ eCall.pc \in {"temp", "rename", "cache"} =>
       eCall.prefs.pins = Pinned(ePinned[eCall.key], eCall.pin)
  /\ eCall.pc = "cache" => eFile[eCall.key] = Holds(validatePrefs(eCall.prefs))

\* The inductive invariant.
EInv == ETyped /\ ECallOK /\ PrefsSafe

\* What validatePrefs returns.
LEMMA ValidFacts ==
  ASSUME NEW p \in Prefs
  PROVE  /\ validatePrefs(p) \in Prefs /\ validatePrefs(p).sort \in ValidSort
         /\ validatePrefs(p).pins = p.pins
         /\ validatePrefs(validatePrefs(p)) = validatePrefs(p)
<1>1. Default.sort \in ValidSort
  BY DEF Default, ValidSort
<1>2. \A s \in ValidSort : LET q == [p EXCEPT !.sort = s]
                           IN  q \in Prefs /\ q.sort = s /\ q.pins = p.pins
  BY DEF Prefs
<1> QED BY <1>1, <1>2 DEF validatePrefs

\* An entry with preferences, and one without.
LEMMA EntryFacts ==
  /\ Default \in Prefs /\ Default.sort \in ValidSort /\ Default.pins = {}
  /\ NoFile \in Entries /\ NoFile.is = "none"
  /\ Corrupt \in Entries /\ Corrupt.is = "corrupt"
  /\ \A p \in Prefs : Holds(p) \in Entries /\ Holds(p).is = "prefs" /\ Holds(p).prefs = p
  /\ Quiet \in CallStates /\ Quiet.pc = "none"
  /\ \A e \in Entries : e.prefs \in Prefs /\ e.is \in {"none", "corrupt", "prefs"}
<1>1. Default \in Prefs /\ Default.sort \in ValidSort /\ Default.pins = {}
  BY DEF Default, Prefs, ValidSort
<1>2. NoFile \in Entries /\ NoFile.is = "none" /\ Corrupt \in Entries /\ Corrupt.is = "corrupt"
  BY <1>1 DEF NoFile, Corrupt, Entries
<1>3. \A p \in Prefs : Holds(p) \in Entries /\ Holds(p).is = "prefs" /\ Holds(p).prefs = p
  BY DEF Holds, Entries
<1>4. Quiet \in CallStates /\ Quiet.pc = "none"
  BY <1>1 DEF Quiet, CallStates
<1>5. \A e \in Entries : e.prefs \in Prefs /\ e.is \in {"none", "corrupt", "prefs"}
  BY DEF Entries
<1> QED BY <1>1, <1>2, <1>3, <1>4, <1>5

\* What is read from a file is valid.
LEMMA DiskFacts ==
  ASSUME ETyped, NEW k \in UserKeys
  PROVE  /\ FromDisk(k) \in Prefs /\ FromDisk(k).sort \in ValidSort
         /\ validatePrefs(FromDisk(k)) = FromDisk(k)
<1>1. eFile[k] \in Entries
  BY DEF ETyped
<1>2. eFile[k].prefs \in Prefs
  BY <1>1, EntryFacts
<1>3. validatePrefs(Default) = Default
  BY EntryFacts DEF validatePrefs
<1> QED BY <1>2, <1>3, ValidFacts, EntryFacts DEF FromDisk

\* Initially there is no call, and nobody has pinned anything.
LEMMA EInitInv == EInit => EInv
<1> SUFFICES ASSUME EInit PROVE EInv
  OBVIOUS
<1> DEFINE one == [Default EXCEPT !.sort = "status"]
<1>1. one \in Prefs /\ one.pins = {} /\ one.sort = "status" /\ validatePrefs(one) = one
  <2>1. one \in Prefs /\ one.pins = {} /\ one.sort = "status"
    BY DEF Default, Prefs, ValidSort
  <2> QED BY <2>1 DEF validatePrefs, ValidSort
<1> HIDE DEF one
<1>2. \A k \in UserKeys : eFile[k] \in {NoFile, Holds(one)} /\ eCache[k] = NoFile
                          /\ ePinned[k] = {} /\ eWhole[k] = TRUE
  BY DEF EInit, one
<1>3. ETyped
  <2>1. eFile \in [UserKeys -> Entries]
    BY <1>1, EntryFacts DEF EInit, one
  <2> QED BY <2>1, EntryFacts DEF EInit, ETyped
<1>4. ECallOK
  BY EntryFacts DEF EInit, ECallOK
<1>5. \A k \in UserKeys : FromDisk(k).pins = {} /\ eFile[k].is \in {"none", "prefs"}
                          /\ (eFile[k].is = "prefs" => eFile[k].prefs.sort = "status")
  BY <1>1, <1>2, EntryFacts DEF FromDisk
<1>6. PrefsSafe
  BY <1>2, <1>5, EntryFacts DEF EInit, PrefsSafe, ValidSort
<1> QED BY <1>3, <1>4, <1>6 DEF EInv

\* A step that only changes the cache, of one key, to what is in the file.
LEMMA CacheStep ==
  ASSUME EInv, NEW k \in UserKeys, eCache' = [eCache EXCEPT ![k] = Holds(FromDisk(k))],
         eFile' = eFile, ePinned' = ePinned, eWhole' = eWhole, eCall.pc # "cache",
         eCall'.pc # "cache"
  PROVE  eCache' \in [UserKeys -> Entries] /\ PrefsSafe'
<1>1. FromDisk(k) \in Prefs /\ validatePrefs(FromDisk(k)) = FromDisk(k)
  BY DiskFacts DEF EInv
<1>2. eCache' \in [UserKeys -> Entries]
  BY <1>1, EntryFacts DEF EInv, ETyped
<1>3. \A j \in UserKeys : /\ eCache'[j] = IF j = k THEN Holds(FromDisk(k)) ELSE eCache[j]
                          /\ FromDisk(j)' = FromDisk(j)
  BY DEF EInv, ETyped, FromDisk
<1>4. PrefsSafe'
  <2> SUFFICES ASSUME NEW j \in UserKeys
               PROVE  /\ eFile'[j].is = "corrupt" => ~eWhole'[j]
                      /\ eFile'[j].is = "prefs" => eFile'[j].prefs.sort \in ValidSort
                      /\ FromDisk(j)'.pins = ePinned'[j]
                      /\ eCache'[j].is = "prefs" =>
                           validatePrefs(eCache'[j].prefs) = FromDisk(j)'
    BY DEF PrefsSafe, validatePrefs, Default
  <2>1. /\ eFile[j].is = "corrupt" => ~eWhole[j]
        /\ eFile[j].is = "prefs" => eFile[j].prefs.sort \in ValidSort
        /\ FromDisk(j).pins = ePinned[j]
        /\ eCache[j].is = "prefs" => validatePrefs(eCache[j].prefs) = FromDisk(j)
    BY DEF EInv, PrefsSafe
  <2> QED BY <1>1, <1>3, <2>1, EntryFacts
<1> QED BY <1>2, <1>4

\* Every step keeps EInv.
LEMMA ENextInv == EInv /\ [ENext]_evars => EInv'
<1> SUFFICES ASSUME EInv, [ENext]_evars PROVE EInv'
  OBVIOUS
<1>1. ASSUME NEW u \in EUsers, ELoad(u) PROVE EInv'
  <2>1. Key(u) \in UserKeys
    BY DEF UserKeys
  <2>2. /\ eMu = "free" /\ eCache' = [eCache EXCEPT ![Key(u)] = Holds(FromDisk(Key(u)))]
        /\ UNCHANGED <<eFile, eTemp, eMu, eCall, ePinned, eWhole, eCalls, eCrashes>>
    BY <1>1 DEF ELoad
  <2>3. eCall.pc = "none"
    BY <2>2 DEF EInv, ECallOK
  <2>4. eCache' \in [UserKeys -> Entries] /\ PrefsSafe'
    BY <2>1, <2>2, <2>3, CacheStep
  <2>5. ETyped' /\ ECallOK'
    BY <2>2, <2>4 DEF EInv, ETyped, ECallOK
  <2> QED BY <2>4, <2>5 DEF EInv
<1>2. ASSUME NEW u \in EUsers, EUpdate(u) PROVE EInv'
  <2> DEFINE k == Key(u)
             p == FromDisk(k)
  <2>1. PICK pin \in EProxies \cup {"none"}, sort \in ValidSort \cup {"bogus"} :
          /\ eCache' = [eCache EXCEPT ![k] = Holds(p)]
          /\ eCall' = [pc |-> "temp", key |-> k, pin |-> pin,
                       prefs |-> IF pin = "none" THEN [p EXCEPT !.sort = sort]
                                 ELSE [p EXCEPT !.pins = IF pin \in @ THEN @ \ {pin} ELSE @ \cup {pin}]]
    BY <1>2 DEF EUpdate
  <2>2. /\ eMu = "free" /\ eMu' = "call" /\ UNCHANGED <<eFile, ePinned, eWhole>>
    BY <1>2 DEF EUpdate
  <2>3. k \in UserKeys
    BY DEF UserKeys
  <2>4. p \in Prefs
    BY <2>3, DiskFacts DEF EInv
  <2> DEFINE r == IF pin = "none" THEN [p EXCEPT !.sort = sort]
                  ELSE [p EXCEPT !.pins = IF pin \in @ THEN @ \ {pin} ELSE @ \cup {pin}]
  <2>5. r \in Prefs /\ r.pins = Pinned(p.pins, pin)
    <3>1. \A q \in Prefs : [q EXCEPT !.sort = sort] \in Prefs /\ [q EXCEPT !.sort = sort].pins = q.pins
      BY DEF Prefs
    <3>2. \A q \in Prefs, s \in SUBSET EProxies :
            [q EXCEPT !.pins = s] \in Prefs /\ [q EXCEPT !.pins = s].pins = s
      BY DEF Prefs
    <3>3. p.pins \in SUBSET EProxies
      BY <2>4 DEF Prefs
    <3> HIDE DEF p
    <3>4. CASE pin = "none"
      BY <2>4, <3>1, <3>4 DEF Pinned
    <3>5. CASE pin # "none"
      <4>1. Pinned(p.pins, pin) \in SUBSET EProxies
        BY <3>3, <3>5 DEF Pinned
      <4>2. r = [p EXCEPT !.pins = Pinned(p.pins, pin)]
        BY <3>5 DEF Pinned
      <4> QED BY <2>4, <3>2, <4>1, <4>2
    <3> QED BY <3>4, <3>5
  <2>6. eCall.pc = "none"
    BY <2>2 DEF EInv, ECallOK
  <2>7. p.pins = ePinned[k]
    BY <2>3, <2>6 DEF EInv, PrefsSafe
  <2> HIDE DEF r
  <2>8. eCall' \in CallStates /\ eCall'.pc = "temp" /\ eCall'.key = k /\ eCall'.prefs = r
        /\ eCall'.pin = pin
    BY <2>1, <2>3, <2>5 DEF CallStates, r
  <2>9. eCache' \in [UserKeys -> Entries] /\ PrefsSafe'
    BY <2>1, <2>2, <2>3, <2>6, <2>8, CacheStep
  <2>10. ETyped'
    BY <2>2, <2>8, <2>9 DEF EInv, ETyped
  <2>11. ECallOK'
    BY <2>2, <2>3, <2>5, <2>7, <2>8 DEF ECallOK
  <2> QED BY <2>9, <2>10, <2>11 DEF EInv
<1>3. ASSUME eCall' = Quiet, eMu' = "free", eCall.pc # "cache",
             UNCHANGED <<eFile, eCache, ePinned, eWhole>>
      PROVE  EInv'
  <2>1. ETyped'
    BY <1>3, EntryFacts DEF EInv, ETyped
  <2>2. ECallOK'
    BY <1>3, EntryFacts DEF ECallOK
  <2>3. PrefsSafe'
    BY <1>3, EntryFacts DEF EInv, PrefsSafe, FromDisk, validatePrefs, Default
  <2> QED BY <2>1, <2>2, <2>3 DEF EInv
<1>4. CASE ETemp
  <2>1. CASE eTemp' = 1 /\ eCall' = [eCall EXCEPT !.pc = "rename"] /\ UNCHANGED eMu
    <3>1. eCall.pc = "temp" /\ UNCHANGED <<eFile, eCache, ePinned, eWhole>>
      BY <1>4 DEF ETemp
    <3>2. /\ eCall' \in CallStates /\ eCall'.pc = "rename" /\ eCall'.key = eCall.key
          /\ eCall'.prefs = eCall.prefs /\ eCall'.pin = eCall.pin
      BY <2>1 DEF EInv, ETyped, CallStates
    <3>3. ETyped'
      BY <3>1, <3>2 DEF EInv, ETyped
    <3>4. ECallOK'
      BY <2>1, <3>1, <3>2 DEF EInv, ECallOK
    <3>5. PrefsSafe'
      BY <3>1, <3>2 DEF EInv, PrefsSafe, FromDisk, validatePrefs, Default
    <3> QED BY <3>3, <3>4, <3>5 DEF EInv
  <2>2. CASE eCall' = Quiet /\ eMu' = "free" /\ UNCHANGED eTemp
    BY <1>3, <1>4, <2>2 DEF ETemp
  <2> QED BY <1>4, <2>1, <2>2 DEF ETemp
<1>5. CASE ERename
  <2>1. CASE /\ eFile' = [eFile EXCEPT ![eCall.key] = Holds(validatePrefs(eCall.prefs))]
             /\ eCall' = [eCall EXCEPT !.pc = "cache"] /\ UNCHANGED eMu
    <3> DEFINE k == eCall.key
    <3>1. eCall.pc = "rename" /\ UNCHANGED <<eCache, ePinned, eWhole>>
      BY <1>5 DEF ERename
    <3>2. /\ eCall' \in CallStates /\ eCall'.pc = "cache" /\ eCall'.key = eCall.key
          /\ eCall'.prefs = eCall.prefs /\ eCall'.pin = eCall.pin /\ eCall.prefs \in Prefs
      BY <2>1 DEF EInv, ETyped, CallStates
    <3>3. k \in UserKeys
      BY <3>1 DEF EInv, ECallOK
    <3>4. validatePrefs(eCall.prefs) \in Prefs /\ validatePrefs(eCall.prefs).sort \in ValidSort
      BY <3>2, ValidFacts
    <3>5. \A j \in UserKeys : eFile'[j] = IF j = k THEN Holds(validatePrefs(eCall.prefs)) ELSE eFile[j]
      BY <2>1 DEF EInv, ETyped
    <3>6. ETyped'
      BY <2>1, <3>1, <3>2, <3>4, EntryFacts DEF EInv, ETyped
    <3>7. ECallOK'
      <4>1. eFile'[k] = Holds(validatePrefs(eCall.prefs))
        BY <3>3, <3>5
      <4>2. eFile'[k] = Holds(validatePrefs(eCall'.prefs))
        BY <3>2, <4>1
      <4> QED BY <2>1, <3>1, <3>2, <3>3, <4>2
        DEF EInv, ECallOK, Holds, validatePrefs, Default
    <3>8. PrefsSafe'
      <4> SUFFICES ASSUME NEW j \in UserKeys
                   PROVE  /\ eFile'[j].is = "corrupt" => ~eWhole'[j]
                          /\ eFile'[j].is = "prefs" => eFile'[j].prefs.sort \in ValidSort
                          /\ j # k => /\ FromDisk(j)'.pins = ePinned'[j]
                                      /\ eCache'[j].is = "prefs" =>
                                           validatePrefs(eCache'[j].prefs) = FromDisk(j)'
        BY <3>2 DEF PrefsSafe, validatePrefs, Default
      <4>1. CASE j = k
        BY <3>4, <3>5, <4>1, EntryFacts
      <4>2. CASE j # k
        <5>1. eFile'[j] = eFile[j] /\ FromDisk(j)' = FromDisk(j)
          BY <3>5, <4>2 DEF FromDisk
        <5>2. /\ eFile[j].is = "corrupt" => ~eWhole[j]
              /\ eFile[j].is = "prefs" => eFile[j].prefs.sort \in ValidSort
              /\ FromDisk(j).pins = ePinned[j]
              /\ eCache[j].is = "prefs" => validatePrefs(eCache[j].prefs) = FromDisk(j)
          BY <3>1 DEF EInv, PrefsSafe
        <5> QED BY <3>1, <5>1, <5>2
      <4> QED BY <4>1, <4>2
    <3> QED BY <3>6, <3>7, <3>8 DEF EInv
  <2>2. CASE eCall' = Quiet /\ eMu' = "free" /\ UNCHANGED eFile
    BY <1>3, <1>5, <2>2 DEF ERename
  <2> QED BY <1>5, <2>1, <2>2 DEF ERename
<1>6. CASE ECommit
  <2> DEFINE k == eCall.key
             p == eCall.prefs
  <2>1. /\ eCall.pc = "cache" /\ eCache' = [eCache EXCEPT ![k] = Holds(p)]
        /\ ePinned' = [ePinned EXCEPT ![k] =
                   IF eCall.pin \in @ THEN @ \ {eCall.pin} ELSE @ \cup ({eCall.pin} \ {"none"})]
        /\ eCall' = Quiet /\ eMu' = "free" /\ UNCHANGED <<eFile, eWhole>>
    BY <1>6 DEF ECommit
  <2>2. /\ k \in UserKeys /\ p \in Prefs /\ eCall.pin \in EProxies \cup {"none"}
        /\ p.pins = Pinned(ePinned[k], eCall.pin) /\ eFile[k] = Holds(validatePrefs(p))
    BY <2>1 DEF EInv, ETyped, ECallOK, CallStates
  <2>3. ePinned \in [UserKeys -> SUBSET EProxies] /\ eCache \in [UserKeys -> Entries]
    BY DEF EInv, ETyped
  <2> HIDE DEF k, p
  <2>4. Pinned(ePinned[k], eCall.pin) =
          (IF eCall.pin \in ePinned[k] THEN ePinned[k] \ {eCall.pin}
           ELSE ePinned[k] \cup ({eCall.pin} \ {"none"}))
    <3>1. ePinned[k] \subseteq EProxies
      BY <2>2, <2>3
    <3>2. CASE eCall.pin = "none"
      BY <3>1, <3>2, EAssumption DEF Pinned
    <3>3. CASE eCall.pin # "none"
      BY <3>3 DEF Pinned
    <3> QED BY <3>2, <3>3
  <2>5. ePinned' = [ePinned EXCEPT ![k] = Pinned(ePinned[k], eCall.pin)]
    BY <2>1, <2>4
  <2>6. Pinned(ePinned[k], eCall.pin) \in SUBSET EProxies
    BY <2>2 DEF Prefs
  <2>7. ETyped'
    <3>1. ePinned' \in [UserKeys -> SUBSET EProxies]
      BY <2>3, <2>5, <2>6
    <3>2. eCache' \in [UserKeys -> Entries]
      BY <2>1, <2>2, <2>3, EntryFacts
    <3> QED BY <2>1, <3>1, <3>2, EntryFacts DEF EInv, ETyped
  <2>8. ECallOK'
    BY <2>1, EntryFacts DEF ECallOK
  <2>9. PrefsSafe'
    <3> SUFFICES ASSUME NEW j \in UserKeys
                 PROVE  /\ eFile'[j].is = "corrupt" => ~eWhole'[j]
                        /\ eFile'[j].is = "prefs" => eFile'[j].prefs.sort \in ValidSort
                        /\ FromDisk(j)'.pins = ePinned'[j]
                        /\ eCache'[j].is = "prefs" =>
                             validatePrefs(eCache'[j].prefs) = FromDisk(j)'
      BY DEF PrefsSafe, validatePrefs, Default
    <3>1. /\ eFile[j].is = "corrupt" => ~eWhole[j]
          /\ eFile[j].is = "prefs" => eFile[j].prefs.sort \in ValidSort
      BY DEF EInv, PrefsSafe
    <3>2. FromDisk(j)' = FromDisk(j)
      BY <2>1 DEF FromDisk
    <3>3. CASE j = k
      <4>1. eCache'[j] = Holds(p) /\ ePinned'[j] = p.pins
        BY <2>1, <2>2, <2>3, <2>5, <3>3
      <4>2. FromDisk(j) = validatePrefs(p) /\ FromDisk(j).pins = p.pins
        BY <2>2, <3>3, ValidFacts, EntryFacts DEF FromDisk
      <4> QED BY <2>1, <2>2, <3>1, <3>2, <4>1, <4>2, EntryFacts
    <3>4. CASE j # k
      <4>1. eCache'[j] = eCache[j] /\ ePinned'[j] = ePinned[j]
        BY <2>1, <2>3, <2>5, <3>4
      <4>2. /\ FromDisk(j).pins = ePinned[j]
            /\ eCache[j].is = "prefs" => validatePrefs(eCache[j].prefs) = FromDisk(j)
        BY <3>4 DEF EInv, PrefsSafe, k
      <4> QED BY <2>1, <3>1, <3>2, <4>1, <4>2
    <3> QED BY <3>3, <3>4
  <2> QED BY <2>7, <2>8, <2>9 DEF EInv
<1>7. CASE ECrash
  <2>1. /\ eCache' = [k \in UserKeys |-> NoFile] /\ eMu' = "free" /\ eCall' = Quiet
        /\ ePinned' = IF eCall.pc # "cache" THEN ePinned
                      ELSE [ePinned EXCEPT ![eCall.key] = eFile[eCall.key].prefs.pins]
        /\ UNCHANGED <<eFile, eWhole>>
    BY <1>7 DEF ECrash
  <2>2. eCall.pc = "cache" =>
          /\ eCall.key \in UserKeys /\ eCall.prefs \in Prefs
          /\ eFile[eCall.key] = Holds(validatePrefs(eCall.prefs))
    BY DEF EInv, ECallOK, ETyped, CallStates
  <2>3. eCall.pc = "cache" =>
          /\ eFile[eCall.key].prefs.pins = FromDisk(eCall.key).pins
          /\ FromDisk(eCall.key).pins \in SUBSET EProxies
    <3> SUFFICES ASSUME eCall.pc = "cache"
                 PROVE  /\ eFile[eCall.key].prefs.pins = FromDisk(eCall.key).pins
                        /\ FromDisk(eCall.key).pins \in SUBSET EProxies
      OBVIOUS
    <3>1. validatePrefs(eCall.prefs) \in Prefs
          /\ validatePrefs(validatePrefs(eCall.prefs)) = validatePrefs(eCall.prefs)
      BY <2>2, ValidFacts
    <3>2. FromDisk(eCall.key) = validatePrefs(eCall.prefs)
      BY <2>2, <3>1, EntryFacts DEF FromDisk
    <3> QED BY <2>2, <3>1, <3>2, EntryFacts DEF Prefs
  <2>4. ETyped'
    <3>1. ePinned' \in [UserKeys -> SUBSET EProxies]
      <4>1. ePinned \in [UserKeys -> SUBSET EProxies]
        BY DEF EInv, ETyped
      <4>2. CASE eCall.pc = "cache"
        BY <2>1, <2>3, <4>1, <4>2
      <4>3. CASE eCall.pc # "cache"
        BY <2>1, <4>1, <4>3
      <4> QED BY <4>2, <4>3
    <3> QED BY <2>1, <3>1, EntryFacts DEF EInv, ETyped
  <2>5. ECallOK'
    BY <2>1, EntryFacts DEF ECallOK
  <2>6. PrefsSafe'
    <3> SUFFICES ASSUME NEW j \in UserKeys
                 PROVE  /\ eFile'[j].is = "corrupt" => ~eWhole'[j]
                        /\ eFile'[j].is = "prefs" => eFile'[j].prefs.sort \in ValidSort
                        /\ FromDisk(j)'.pins = ePinned'[j]
                        /\ eCache'[j].is # "prefs"
      BY DEF PrefsSafe, validatePrefs, Default
    <3>1. /\ eFile[j].is = "corrupt" => ~eWhole[j]
          /\ eFile[j].is = "prefs" => eFile[j].prefs.sort \in ValidSort
          /\ ~(eCall.pc = "cache" /\ eCall.key = j) => FromDisk(j).pins = ePinned[j]
      BY DEF EInv, PrefsSafe
    <3>2. FromDisk(j)' = FromDisk(j)
      BY <2>1 DEF FromDisk
    <3>3. ePinned'[j] = FromDisk(j).pins
      BY <2>1, <2>3, <3>1 DEF EInv, ETyped
    <3> QED BY <2>1, <3>1, <3>2, <3>3, EntryFacts
  <2> QED BY <2>4, <2>5, <2>6 DEF EInv
<1>8. ASSUME NEW k \in UserKeys, EDamage(k) PROVE EInv'
  <2>1. /\ eFile' = [eFile EXCEPT ![k] = Corrupt] /\ ePinned' = [ePinned EXCEPT ![k] = {}]
        /\ eWhole' = [eWhole EXCEPT ![k] = FALSE] /\ eMu = "free"
        /\ \A j \in UserKeys : eCache[j].is = "none"
        /\ UNCHANGED <<eCache, eMu, eCall>>
    BY <1>8 DEF EDamage
  <2>2. eCall.pc = "none"
    BY <2>1 DEF EInv, ECallOK
  <2>3. ETyped'
    <3>1. /\ eFile \in [UserKeys -> Entries] /\ ePinned \in [UserKeys -> SUBSET EProxies]
          /\ eWhole \in [UserKeys -> BOOLEAN]
      BY DEF EInv, ETyped
    <3> HIDE DEF EInv
    <3>2. eFile' \in [UserKeys -> Entries]
      BY <2>1, <3>1, EntryFacts
    <3>3. ePinned' \in [UserKeys -> SUBSET EProxies]
      BY <2>1, <3>1
    <3>4. eWhole' \in [UserKeys -> BOOLEAN]
      BY <2>1, <3>1
    <3> QED BY <2>1, <3>2, <3>3, <3>4 DEF EInv, ETyped
  <2>4. ECallOK'
    BY <2>1, <2>2 DEF EInv, ECallOK
  <2>5. PrefsSafe'
    <3> SUFFICES ASSUME NEW j \in UserKeys
                 PROVE  /\ eFile'[j].is = "corrupt" => ~eWhole'[j]
                        /\ eFile'[j].is = "prefs" => eFile'[j].prefs.sort \in ValidSort
                        /\ FromDisk(j)'.pins = ePinned'[j]
                        /\ eCache'[j].is # "prefs"
      BY DEF PrefsSafe, validatePrefs, Default
    <3>1. /\ eFile[j].is = "corrupt" => ~eWhole[j]
          /\ eFile[j].is = "prefs" => eFile[j].prefs.sort \in ValidSort
          /\ FromDisk(j).pins = ePinned[j]
      BY <2>2 DEF EInv, PrefsSafe
    <3>2. CASE j = k
      <4>1. eFile'[j] = Corrupt /\ ePinned'[j] = {} /\ ~eWhole'[j]
        BY <2>1, <3>2 DEF EInv, ETyped
      <4>2. FromDisk(j)' = Default
        BY <4>1, EntryFacts DEF FromDisk, Default
      <4> QED BY <2>1, <4>1, <4>2, EntryFacts
    <3>3. CASE j # k
      <4>1. eFile'[j] = eFile[j] /\ ePinned'[j] = ePinned[j] /\ (eWhole'[j] <=> eWhole[j])
        BY <2>1, <3>3 DEF EInv, ETyped
      <4>2. FromDisk(j)' = FromDisk(j)
        BY <4>1 DEF FromDisk
      <4> QED BY <2>1, <3>1, <4>1, <4>2
    <3> QED BY <3>2, <3>3
  <2> QED BY <2>3, <2>4, <2>5 DEF EInv
<1>9. CASE UNCHANGED evars
  BY <1>9
    DEF evars, EInv, ETyped, ECallOK, PrefsSafe, FromDisk, validatePrefs, Default, Holds
<1> QED BY <1>1, <1>2, <1>4, <1>5, <1>6, <1>7, <1>8, <1>9 DEF ENext

\* A preferences file is valid at every step, whatever fails or crashes when, and
\* holds the pins of the calls that succeeded (Update, prepareSave, commitSave).
THEOREM PrefsSafety == ESpec => []PrefsSafe
<1>1. EInit => EInv
  BY EInitInv
<1>2. EInv /\ [ENext]_evars => EInv'
  BY ENextInv
<1>3. EInv => PrefsSafe
  BY DEF EInv
<1> QED BY <1>1, <1>2, <1>3, PTL DEF ESpec

-----------------------------------------------------------------------------
(* The way of a request. *)

\* What a request and an identity are at each stage, in terms of the request
\* as the port has received it.
PStages ==
  /\ pStage = "idle" => pReq = pFrom
  /\ pStage = "whois" => pReq = pFrom /\ pWho = Sender
  /\ pStage \in {"backend", "management"} => pReq = proxyRewrite(pConf, pFrom, Sender)
  /\ pStage = "backend" => ~isManagementTarget(pConf.target)
  /\ pStage = "management" => isManagementTarget(pConf.target)
  /\ pStage = "direct" => pReq = pFrom

PInv ==
  /\ pConf \in Configs /\ pFrom \in Requests
  /\ PTypeOK /\ PStages /\ ManagementIdentity /\ AdmissionAgrees

\* The node names a user of its own or nobody, whatever the request is.
LEMMA SenderIsUser == PInv => Sender \in Users \cup {Nobody}
  BY PAssumption DEF Sender, Whois, whoisFromAddr

\* A request that leaves the port carries the sender's identity or none, the
\* token for the management server alone, and one address.
LEMMA Rewritten ==
  ASSUME NEW conf, NEW req, NEW who
  PROVE  LET r == proxyRewrite(conf, req, who) IN
         /\ r.remote = Loopback
         /\ r.ids = IF conf.identity /\ who # Nobody THEN who ELSE Absent
         /\ r.token = IF conf.identity /\ who # Nobody /\ isManagementTarget(conf.target)
                      THEN Secret ELSE Absent
         /\ Len(r.xff) = 1
         /\ ~IsLocalhost(req.remote) => r.xff = <<req.remote>>
  BY DEF proxyRewrite, resolvePeerIP

\* The two forms of the admin check agree on everyone but the user who stands
\* for localhost, and who may act may also look.
LEMMA ChecksAgree ==
  ASSUME NEW conf, NEW req, NEW who, who # LocalhostUserID
  PROVE  /\ IsAdmin(conf, req, who) <=> AdminMiddleware(conf, req, who)
         /\ AdminMiddleware(conf, req, who) => ViewerMiddleware(conf, req, who)
  BY DEF IsAdmin, AdminMiddleware, ViewerMiddleware, UserIDIsAdmin

\* The invariant holds before the request has arrived.
LEMMA PInitInv == PInit => PInv
  BY DEF PInit, PInv, PTypeOK, PStages, ManagementIdentity, AdmissionAgrees

\* Every middleware keeps it.
LEMMA PNextInv == PInv /\ [PNext]_pvars => PInv'
<1> SUFFICES ASSUME PInv, [PNext]_pvars PROVE PInv'
  OBVIOUS
<1> USE DEF PInv
<1>s. Sender \in Users \cup {Nobody}
  BY SenderIsUser
<1>c. ASSUME UNCHANGED <<pConf, pFrom>> PROVE Sender' = Sender
  BY <1>c DEF Sender
<1>1. CASE PWhois
  <2>1. /\ pStage = "idle" /\ pStage' = "whois" /\ pWho' = Whois(pConf.node, pReq)
        /\ UNCHANGED <<pConf, pReq, pFrom, pOut>>
    BY <1>1 DEF PWhois
  <2>2. pWho' = Sender /\ Sender' = Sender /\ pReq' = pFrom
    BY <2>1, <1>c DEF PStages, Sender
  <2> QED BY <2>1, <2>2 DEF PTypeOK, PStages, ManagementIdentity, AdmissionAgrees
<1>2. CASE PForward
  <2>1. /\ pStage = "whois" /\ pReq' = proxyRewrite(pConf, pReq, pWho)
        /\ pStage' = IF isManagementTarget(pConf.target) THEN "management" ELSE "backend"
        /\ UNCHANGED <<pConf, pFrom, pOut>>
    BY <1>2 DEF PForward
  <2>2. pReq' = proxyRewrite(pConf', pFrom', Sender')
    BY <2>1, <1>c DEF PStages
  <2> QED BY <2>1, <2>2 DEF PTypeOK, PStages, ManagementIdentity, AdmissionAgrees
<1>3. CASE PDirect
  BY <1>3 DEF PDirect, PTypeOK, PStages, ManagementIdentity, AdmissionAgrees
<1>4. CASE PStrip
  <2>1. /\ pStage \in {"management", "direct"}
        /\ pWho' = IF validToken(pReq) /\ pReq.ids # Absent THEN pReq.ids ELSE Nobody
        /\ pStage' = IF pStage = "direct" THEN "admitDirect" ELSE "admit"
        /\ UNCHANGED <<pConf, pFrom, pOut>>
    BY <1>4 DEF PStrip
  <2>2. Sender' = Sender
    BY <2>1, <1>c
  <2>3. CASE pStage = "management"
    <3>1. /\ pReq = proxyRewrite(pConf, pFrom, Sender) /\ isManagementTarget(pConf.target)
      BY <2>3 DEF PStages
    <3>2. /\ pReq.remote = Loopback
          /\ pReq.ids = IF pConf.identity /\ Sender # Nobody THEN Sender ELSE Absent
          /\ pReq.token = IF pConf.identity /\ Sender # Nobody THEN Secret ELSE Absent
      BY <3>1, Rewritten
    <3>3. Sender # Absent
      BY <1>s, PAssumption DEF Absent, Nobody
    <3>4. pWho' = IF pConf.identity THEN Sender ELSE Nobody
      BY <2>1, <3>2, <3>3 DEF validToken, IsLocalhost, Secret, Absent
    <3> QED BY <2>1, <2>2, <2>3, <3>4
      DEF PTypeOK, PStages, ManagementIdentity, AdmissionAgrees
  <2>4. CASE pStage = "direct"
    <3>1. pReq = pFrom
      BY <2>4 DEF PStages
    <3>2. pReq.token # Secret
      BY <3>1 DEF Requests, Secret, Absent
    <3>3. pWho' = Nobody
      BY <2>1, <3>2 DEF validToken
    <3> QED BY <2>1, <2>2, <2>4, <3>3
      DEF PTypeOK, PStages, ManagementIdentity, AdmissionAgrees
  <2> QED BY <2>1, <2>3, <2>4
<1>5. CASE PAdmit
  <2>1. /\ pStage \in {"admit", "admitDirect"}
        /\ pStage' = IF pStage = "admit" THEN "decided" ELSE "decidedDirect"
        /\ pOut' = [admin  |-> AdminMiddleware(pConf, pReq, pWho),
                    viewer |-> ViewerMiddleware(pConf, pReq, pWho),
                    page   |-> IsAdmin(pConf, pReq, pWho)]
        /\ UNCHANGED <<pConf, pReq, pWho, pFrom>>
    BY <1>5 DEF PAdmit
  <2>2. Sender' = Sender
    BY <2>1, <1>c
  <2>3. pWho # LocalhostUserID
    BY <2>1, <1>s, PAssumption DEF ManagementIdentity, LocalhostUserID, Nobody
  <2>4. /\ IsAdmin(pConf, pReq, pWho) <=> AdminMiddleware(pConf, pReq, pWho)
        /\ AdminMiddleware(pConf, pReq, pWho) => ViewerMiddleware(pConf, pReq, pWho)
    BY <2>3, ChecksAgree
  <2>5. AdmissionAgrees'
    <3>1. /\ IsAdmin(pConf, pReq, pWho) \in BOOLEAN /\ AdminMiddleware(pConf, pReq, pWho) \in BOOLEAN
      BY DEF IsAdmin, AdminMiddleware, UserIDIsAdmin, ValidAPIKey, IsTrustedSource, Configs
    <3>2. pOut'.page = pOut'.admin /\ (pOut'.admin => pOut'.viewer)
      BY <2>1, <2>4, <3>1
    <3> QED BY <3>2 DEF AdmissionAgrees
  <2> QED BY <2>1, <2>2, <2>5 DEF PTypeOK, PStages, ManagementIdentity
<1>6. CASE UNCHANGED pvars
  BY <1>6 DEF pvars, PTypeOK, PStages, ManagementIdentity, AdmissionAgrees, Sender
<1> QED BY <1>1, <1>2, <1>3, <1>4, <1>5, <1>6 DEF PNext

\* Whatever headers a client sends, a backend and the management server read
\* the sender's own identity or none, and a page offers what its actions admit
\* (port_http.go, core/admin.go).
THEOREM RequestSafety == PSpec => []RequestSafe
<1>1. PInv => RequestSafe
  <2> SUFFICES ASSUME PInv PROVE RequestSafe
    OBVIOUS
  <2>1. BackendIdentity
    BY Rewritten DEF PInv, PStages, BackendIdentity
  <2>2. AddressHonest
    BY Rewritten DEF PInv, PStages, AddressHonest
  <2> QED BY <2>1, <2>2 DEF PInv, RequestSafe
<1> QED BY <1>1, PInitInv, PNextInv, PTL DEF PSpec

-----------------------------------------------------------------------------
(* The cache of identities. *)

LookupStates == [pc : {"idle", "lookup", "lead", "store", "join", "done"}, ip : IPs,
                 start : Nat, who : {-1, 0, 1}, of : IPs, at : Nat]
CacheEntries == [who : {0, 1}, of : IPs, expires : Nat, at : Nat]
Flights == [leader : Lookups, who : {-1, 0, 1}, of : IPs]
Leads(q) == q.pc \in {"lead", "store"}

\* What the variables hold.
WTyped ==
  /\ wNow \in Nat
  /\ wEntry \in [IPs -> {None} \cup CacheEntries]
  /\ wFlight \in [IPs -> {None} \cup Flights]
  /\ wReq \in [Lookups -> LookupStates]

\* No lookup began in the future.
WTimes == \A r \in Lookups : wReq[r].start <= wNow

\* An address has one leader at most; an address that someone leads or waits
\* for has a call in the group, every call has a leader, and a call about to
\* be stored has its answer.
WGroup ==
  /\ \A r, q \in Lookups :
       Leads(wReq[r]) /\ Leads(wReq[q]) /\ wReq[r].ip = wReq[q].ip => r = q
  /\ \A r \in Lookups :
       Leads(wReq[r]) \/ wReq[r].pc = "join" => wFlight[wReq[r].ip] # None
  /\ \A i \in IPs :
       wFlight[i] # None => \E r \in Lookups : Leads(wReq[r]) /\ wReq[r].ip = i
  /\ \A r \in Lookups : wReq[r].pc = "store" => wFlight[wReq[r].ip].who \in {0, 1}

WBound == Cardinality(Cached(wEntry)) <= MaxEntries

\* What is kept under an address is about that address, for its time to live; so
\* is what the group asks.
Kept(i, e) == e # None => e.of = i /\ e.expires = e.at + Life(e.who)
WKept == \A i \in IPs : /\ Kept(i, wEntry[i])
                        /\ wFlight[i] # None => wFlight[i].of = i

\* An answer of its own address, that is fresh.
Fresh(q) == q.of = q.ip /\ (q.start <= q.at \/ q.start < q.at + Life(q.who))

\* The inductive invariant.
WInv == WTyped /\ WTimes /\ WGroup /\ WBound /\ WKept /\ AnswersFresh

\* Neither a stored entry nor a call in the group is taken for none.
LEMMA NotNone == /\ \A e \in CacheEntries : e # None
                 /\ \A f \in Flights : f # None
<1>1. \A e \in CacheEntries : e # None
  BY DEF CacheEntries, None
<1>2. ASSUME NEW f \in Flights PROVE f # None
  <2>1. "leader" \in DOMAIN f
    BY DEF Flights
  <2>2. "leader" \notin DOMAIN None
    BY DEF None
  <2> QED BY <2>1, <2>2
<1> QED BY <1>1, <1>2

\* The fields of a lookup.
LEMMA LookupFields ==
  ASSUME NEW q \in LookupStates
  PROVE  /\ q.pc \in {"idle", "lookup", "lead", "store", "join", "done"}
         /\ q.ip \in IPs /\ q.start \in Nat /\ q.who \in {-1, 0, 1} /\ q.at \in Nat
         /\ q.of \in IPs
  BY DEF LookupStates

\* A lookup at rest.
LEMMA IdleFields == Idle \in LookupStates /\ Idle.pc = "idle" /\ Idle.start = 0
<1>1. AnyIP \in IPs
  BY WAssumption DEF AnyIP
<1> QED BY <1>1 DEF Idle, LookupStates

\* An eviction leaves MaxEntries entries at most, all of them from before.
LEMMA EvictBounds ==
  ASSUME NEW e \in [IPs -> {None} \cup CacheEntries], NEW f \in evict(e)
  PROVE  /\ f \in [IPs -> {None} \cup CacheEntries]
         /\ Cardinality(Cached(f)) <= MaxEntries
         /\ \A i \in IPs : f[i] \in {None, e[i]}
<1> DEFINE live == [i \in IPs |-> IF e[i] # None /\ wNow > e[i].expires THEN None ELSE e[i]]
           over == Cardinality(Cached(live)) - MaxEntries
<1>1. /\ live \in [IPs -> {None} \cup CacheEntries]
      /\ \A i \in IPs : live[i] \in {None, e[i]}
  OBVIOUS
<1>2. IsFiniteSet(Cached(live)) /\ Cardinality(Cached(live)) \in Nat
  <2>1. Cached(live) \in SUBSET IPs
    BY DEF Cached
  <2> QED BY <2>1, WAssumption, FS_Subset, FS_CardinalityType
<1>3. MaxEntries \in Nat
  BY WAssumption
<1>4. \/ over <= 0 /\ f = live
      \/ /\ over > 0
         /\ \E g \in kSubset(over, Cached(live)) : f = [i \in IPs |-> IF i \in g THEN None ELSE live[i]]
  BY <1>2, <1>3 DEF evict
<1> HIDE DEF live
<1>5. CASE over <= 0 /\ f = live
  BY <1>1, <1>2, <1>3, <1>5
<1>6. CASE over > 0 /\ \E g \in kSubset(over, Cached(live)) :
                         f = [i \in IPs |-> IF i \in g THEN None ELSE live[i]]
  <2>1. PICK g \in kSubset(over, Cached(live)) :
          f = [i \in IPs |-> IF i \in g THEN None ELSE live[i]]
    BY <1>6
  <2>2. g \in SUBSET Cached(live) /\ Cardinality(g) = over
    BY DEF kSubset
  <2>3. /\ f \in [IPs -> {None} \cup CacheEntries]
        /\ \A i \in IPs : f[i] \in {None, e[i]}
    BY <1>1, <2>1
  <2>4. Cached(f) = Cached(live) \ g
    BY <2>1 DEF Cached
  <2>5. /\ IsFiniteSet(g)
    BY <2>2, <1>2, FS_Subset
  <2>6. IsFiniteSet(Cached(live) \ g) /\ Cardinality(Cached(live) \ g) \in Nat
    <3>1. Cached(live) \ g \in SUBSET Cached(live)
      OBVIOUS
    <3> QED BY <3>1, <1>2, FS_Subset, FS_CardinalityType
  <2>7. Cardinality((Cached(live) \ g) \cup g)
          = Cardinality(Cached(live) \ g) + Cardinality(g) - Cardinality((Cached(live) \ g) \cap g)
    BY <2>5, <2>6, FS_Union
  <2>8. (Cached(live) \ g) \cup g = Cached(live) /\ (Cached(live) \ g) \cap g = {}
    BY <2>2
  <2>9. Cardinality(Cached(live)) = Cardinality(Cached(live) \ g) + over
    <3>1. Cardinality((Cached(live) \ g) \cap g) = 0
      BY <2>8, FS_EmptySet
    <3>2. Cardinality(Cached(live)) = Cardinality(Cached(live) \ g) + Cardinality(g) - 0
      BY <2>7, <2>8, <3>1
    <3>3. over \in Int
      BY <1>2, <1>3
    <3> QED BY <2>2, <2>6, <3>2, <3>3
  <2>10. Cardinality(Cached(live) \ g) = MaxEntries
    BY <2>9, <2>6, <1>2, <1>3
  <2> QED BY <2>3, <2>4, <2>10, <1>3
<1> QED BY <1>4, <1>5, <1>6

\* The invariant of the cache holds of an empty one.
LEMMA WInitInv == WInit => WInv
<1> SUFFICES ASSUME WInit PROVE WInv
  OBVIOUS
<1>1. WTyped
  BY IdleFields DEF WInit, WTyped
<1>2. \A r \in Lookups : wReq[r] = Idle
  BY DEF WInit
<1>3. WTimes /\ WGroup /\ WKept /\ AnswersFresh
  <2>1. \A r \in Lookups : ~Leads(wReq[r]) /\ wReq[r].pc = "idle" /\ wReq[r].start = 0
    BY <1>2, IdleFields DEF Leads
  <2>2. \A i \in IPs : wFlight[i] = None
    BY DEF WInit
  <2>3. wNow = 0
    BY DEF WInit
  <2>4. \A i \in IPs : wEntry[i] = None
    BY DEF WInit
  <2> QED BY <2>1, <2>2, <2>3, <2>4 DEF WTimes, WGroup, WKept, Kept, AnswersFresh
<1>4. Cached(wEntry) = {}
  BY DEF WInit, Cached
<1>5. WBound
  BY <1>4, FS_EmptySet, WAssumption DEF WBound
<1> QED BY <1>1, <1>3, <1>5 DEF WInv

\* A step that changes one lookup, and neither leads nor waits after it nor
\* before it, leaves the group as it is.
LEMMA OneLookup ==
  ASSUME WInv, NEW r \in Lookups, NEW q \in LookupStates,
         wReq' = [wReq EXCEPT ![r] = q], UNCHANGED <<wNow, wEntry, wFlight>>,
         ~Leads(wReq[r]), ~Leads(q), q.pc # "join",
         q.start <= wNow, q.pc = "done" => Fresh(q)
  PROVE  WInv'
<1> USE DEF WInv
<1>1. WTyped'
  BY DEF WTyped
<1>2. \A s \in Lookups : wReq'[s] = IF s = r THEN q ELSE wReq[s]
  BY DEF WTyped
<1>3. WTimes' /\ AnswersFresh'
  BY <1>2 DEF WTimes, AnswersFresh, Fresh, Life
<1>6. WKept'
  BY DEF WKept, Kept
<1>4. WGroup'
  BY <1>2 DEF WGroup, Leads
<1>5. WBound'
  BY DEF WBound, Cached
<1> QED BY <1>1, <1>3, <1>4, <1>5, <1>6

\* Every step of a lookup keeps it.
LEMMA WNextInv == WInv /\ [WNext]_wvars => WInv'
<1> SUFFICES ASSUME WInv, [WNext]_wvars PROVE WInv'
  OBVIOUS
<1> USE DEF WInv
<1>t. ASSUME NEW r \in Lookups
      PROVE  wReq[r] \in LookupStates /\ wReq[r].ip \in IPs /\ wReq[r].start \in Nat
             /\ wReq[r].start <= wNow /\ wNow \in Nat
  BY LookupFields DEF WTyped, WTimes
<1>1. CASE WTime
  <2>1. wNow' = wNow + 1 /\ UNCHANGED <<wEntry, wFlight, wReq>>
    BY <1>1 DEF WTime
  <2>2. WTyped'
    BY <2>1 DEF WTyped
  <2>3. WTimes'
    BY <2>1, <1>t DEF WTimes
  <2> QED BY <2>1, <2>2, <2>3 DEF WGroup, WBound, WKept, Kept, AnswersFresh, Cached
<1>2. ASSUME NEW i \in IPs, NEW r \in Lookups, WRequest(r, i) PROVE WInv'
  <2> DEFINE q == [Idle EXCEPT !.pc = "lookup", !.ip = i, !.start = wNow]
  <2>1. q \in LookupStates /\ q.pc = "lookup" /\ q.start = wNow
    BY <1>t, IdleFields DEF LookupStates
  <2>2. wReq[r].pc = "idle" /\ wReq' = [wReq EXCEPT ![r] = q] /\ UNCHANGED <<wNow, wEntry, wFlight>>
    BY <1>2 DEF WRequest
  <2> HIDE DEF q
  <2>3. q.start <= wNow
    BY <2>1, <1>t
  <2> QED BY <2>1, <2>2, <2>3, OneLookup DEF Leads
<1>3. ASSUME NEW r \in Lookups, WLookup(r) PROVE WInv'
  <2> DEFINE e == wEntry[wReq[r].ip]
             q == [wReq[r] EXCEPT !.pc = "done", !.who = e.who, !.of = e.of, !.at = e.at]
  <2>1. e \in {None} \cup CacheEntries
    BY <1>t DEF WTyped
  <2>2. /\ wReq[r].pc = "lookup" /\ wReq' = [wReq EXCEPT ![r] = q]
        /\ e # None /\ wNow < e.expires /\ UNCHANGED <<wNow, wEntry, wFlight>>
    BY <1>3 DEF WLookup, Live, Answer
  <2>3. /\ e.who \in {0, 1} /\ e.expires \in Nat /\ e.at \in Nat
        /\ e.of = wReq[r].ip /\ e.expires = e.at + Life(e.who)
    <3>1. wReq[r].ip \in IPs
      BY <1>t
    <3>2. Kept(wReq[r].ip, e)
      BY <3>1 DEF WKept
    <3>3. e.of = wReq[r].ip /\ e.expires = e.at + Life(e.who)
      BY <3>2, <2>2 DEF Kept
    <3>4. e \in CacheEntries
      BY <2>1, <2>2
    <3> QED BY <3>3, <3>4 DEF CacheEntries
  <2> HIDE DEF e
  <2>4. /\ q \in LookupStates /\ q.pc = "done" /\ q.start = wReq[r].start /\ q.at = e.at
        /\ q.who = e.who /\ q.of = e.of /\ q.ip = wReq[r].ip
    BY <1>t, <2>3 DEF LookupStates
  <2> HIDE DEF q
  <2>5. Fresh(q)
    <3>1. q.start < q.at + Life(q.who)
      <4>1. q.start < e.expires
        BY <2>2, <2>3, <2>4, <1>t
      <4> QED BY <4>1, <2>3, <2>4
    <3> QED BY <3>1, <2>3, <2>4 DEF Fresh
  <2> QED BY <2>2, <2>4, <2>5, <1>t, OneLookup DEF Leads
<1>4. ASSUME NEW r \in Lookups, WMiss(r), wFlight[wReq[r].ip] = None PROVE WInv'
  <2> DEFINE i == wReq[r].ip
             q == [wReq[r] EXCEPT !.pc = "lead"]
             f == [leader |-> r, who |-> -1, of |-> i]
  <2>1. /\ wReq[r].pc = "lookup" /\ wReq' = [wReq EXCEPT ![r].pc = "lead"]
        /\ wFlight' = [wFlight EXCEPT ![i] = f] /\ UNCHANGED <<wNow, wEntry>>
    BY <1>4 DEF WMiss
  <2>2. /\ q \in LookupStates /\ q.pc = "lead" /\ q.ip = i /\ q.start = wReq[r].start
    BY <1>t DEF LookupStates
  <2>3. wReq' = [wReq EXCEPT ![r] = q]
    BY <2>1
  <2>4. f \in Flights /\ f # None /\ f.of = i
    BY NotNone, <1>t DEF Flights
  <2> HIDE DEF q, f
  <2>5. WTyped'
    BY <2>1, <2>2, <2>3, <2>4 DEF WTyped
  <2>6. \A s \in Lookups : wReq'[s] = IF s = r THEN q ELSE wReq[s]
    BY <2>3 DEF WTyped
  <2>7. \A j \in IPs : wFlight'[j] = IF j = i THEN f ELSE wFlight[j]
    BY <2>1 DEF WTyped
  <2>8. WTimes' /\ AnswersFresh'
    BY <2>1, <2>2, <2>6, <1>t DEF WTimes, AnswersFresh
  <2>9. i \in IPs /\ wFlight[i] = None
    BY <1>t, <1>4
  <2> HIDE DEF i
  <2>10. WGroup'
    <3>1. \A s, p \in Lookups : Leads(wReq'[s]) /\ Leads(wReq'[p]) /\ wReq'[s].ip = wReq'[p].ip => s = p
      BY <2>6, <2>2, <2>9 DEF WGroup, Leads
    <3>2. \A s \in Lookups :
            Leads(wReq'[s]) \/ wReq'[s].pc = "join" => wFlight'[wReq'[s].ip] # None
      BY <2>6, <2>7, <2>2, <2>4, <2>9, <1>t DEF WGroup, Leads
    <3>3. ASSUME NEW j \in IPs, wFlight'[j] # None
          PROVE  \E s \in Lookups : Leads(wReq'[s]) /\ wReq'[s].ip = j
      <4>1. CASE j = i
        BY <4>1, <2>6, <2>2 DEF Leads
      <4>2. CASE j # i
        <5>1. PICK s \in Lookups : Leads(wReq[s]) /\ wReq[s].ip = j
          BY <4>2, <3>3, <2>7 DEF WGroup
        <5>2. s # r
          BY <5>1, <2>1 DEF Leads
        <5> QED BY <5>1, <5>2, <2>6
      <4> QED BY <4>1, <4>2
    <3>4. \A s \in Lookups : wReq'[s].pc = "store" => wFlight'[wReq'[s].ip].who \in {0, 1}
      BY <2>6, <2>7, <2>2, <2>9, <1>t DEF WGroup, Leads
    <3> QED BY <3>1, <3>2, <3>3, <3>4 DEF WGroup
  <2>11. WBound' /\ WKept'
    BY <2>1, <2>4, <2>7 DEF WBound, Cached, WKept, Kept
  <2> QED BY <2>5, <2>8, <2>10, <2>11
<1>5. ASSUME NEW r \in Lookups, WMiss(r), wFlight[wReq[r].ip] # None PROVE WInv'
  <2> DEFINE q == [wReq[r] EXCEPT !.pc = "join"]
  <2>1. /\ wReq[r].pc = "lookup" /\ wReq' = [wReq EXCEPT ![r].pc = "join"]
        /\ UNCHANGED <<wNow, wEntry, wFlight>>
    BY <1>5 DEF WMiss
  <2>2. /\ q \in LookupStates /\ q.pc = "join" /\ q.ip = wReq[r].ip /\ q.start = wReq[r].start
    BY <1>t DEF LookupStates
  <2>3. wReq' = [wReq EXCEPT ![r] = q]
    BY <2>1
  <2> HIDE DEF q
  <2>4. WTyped'
    BY <2>1, <2>2, <2>3 DEF WTyped
  <2>5. \A s \in Lookups : wReq'[s] = IF s = r THEN q ELSE wReq[s]
    BY <2>3 DEF WTyped
  <2>6. WTimes' /\ AnswersFresh'
    BY <2>1, <2>2, <2>5, <1>t DEF WTimes, AnswersFresh
  <2>7. WGroup'
    BY <2>1, <2>2, <2>5, <1>5 DEF WGroup, Leads
  <2>8. WBound' /\ WKept'
    BY <2>1 DEF WBound, Cached, WKept, Kept
  <2> QED BY <2>4, <2>6, <2>7, <2>8
<1>6. ASSUME NEW r \in Lookups, WResolve(r) PROVE WInv'
  <2> DEFINE i == wReq[r].ip
             q == [wReq[r] EXCEPT !.pc = "store"]
  <2>1. /\ wReq[r].pc = "lead" /\ wReq' = [wReq EXCEPT ![r].pc = "store"]
        /\ \E who \in {0, 1} : wFlight' = [wFlight EXCEPT ![i].who = who]
        /\ UNCHANGED <<wNow, wEntry>>
    BY <1>6 DEF WResolve
  <2>2. PICK who \in {0, 1} : wFlight' = [wFlight EXCEPT ![i].who = who]
    BY <2>1
  <2> DEFINE f == [wFlight[i] EXCEPT !.who = who]
  <2>3. /\ q \in LookupStates /\ q.pc = "store" /\ q.ip = i /\ q.start = wReq[r].start
    BY <1>t DEF LookupStates
  <2>4. wReq' = [wReq EXCEPT ![r] = q]
    BY <2>1
  <2>5. i \in IPs /\ wFlight[i] \in Flights
    <3>1. i \in IPs /\ wFlight[i] # None
      BY <1>t, <2>1 DEF WGroup, Leads
    <3> QED BY <3>1 DEF WTyped
  <2>6. wFlight' = [wFlight EXCEPT ![i] = f]
    BY <2>2, <2>5 DEF WTyped
  <2>7. f \in Flights /\ f.who \in {0, 1} /\ f.of = wFlight[i].of
    BY <2>5, <1>t DEF Flights
  <2>8. f # None
    BY <2>7, NotNone
  <2> HIDE DEF q, f
  <2>9. WTyped'
    BY <2>1, <2>3, <2>4, <2>6, <2>7 DEF WTyped
  <2>10. \A s \in Lookups : wReq'[s] = IF s = r THEN q ELSE wReq[s]
    BY <2>4 DEF WTyped
  <2>11. \A j \in IPs : wFlight'[j] = IF j = i THEN f ELSE wFlight[j]
    BY <2>6 DEF WTyped
  <2>12. WTimes' /\ AnswersFresh'
    BY <2>1, <2>3, <2>10, <1>t DEF WTimes, AnswersFresh
  <2>13. wReq[r].ip = i
    OBVIOUS
  <2> HIDE DEF i
  <2>14. WGroup'
    <3>1. \A s, p \in Lookups : Leads(wReq'[s]) /\ Leads(wReq'[p]) /\ wReq'[s].ip = wReq'[p].ip => s = p
      BY <2>10, <2>3, <2>1, <2>13 DEF WGroup, Leads
    <3>2. \A s \in Lookups :
            Leads(wReq'[s]) \/ wReq'[s].pc = "join" => wFlight'[wReq'[s].ip] # None
      BY <2>10, <2>11, <2>3, <2>8, <2>5, <1>t DEF WGroup, Leads
    <3>3. ASSUME NEW j \in IPs, wFlight'[j] # None
          PROVE  \E s \in Lookups : Leads(wReq'[s]) /\ wReq'[s].ip = j
      <4>1. CASE j = i
        BY <4>1, <2>10, <2>3 DEF Leads
      <4>2. CASE j # i
        <5>1. PICK s \in Lookups : Leads(wReq[s]) /\ wReq[s].ip = j
          BY <4>2, <3>3, <2>11 DEF WGroup
        <5>2. s # r
          BY <5>1, <4>2, <2>13
        <5> QED BY <5>1, <5>2, <2>10
      <4> QED BY <4>1, <4>2
    <3>4. \A s \in Lookups : wReq'[s].pc = "store" => wFlight'[wReq'[s].ip].who \in {0, 1}
      BY <2>10, <2>11, <2>3, <2>5, <2>7, <1>t DEF WGroup, Leads
    <3> QED BY <3>1, <3>2, <3>3, <3>4 DEF WGroup
  <2>15. WBound' /\ WKept'
    <3>1. wFlight[i] # None
      BY <2>1, <2>13, <1>t DEF WGroup, Leads
    <3> QED BY <2>1, <2>7, <2>11, <3>1, <2>5 DEF WBound, Cached, WKept, Kept
  <2> QED BY <2>9, <2>12, <2>14, <2>15
<1>7. ASSUME NEW r \in Lookups, WStore(r) PROVE WInv'
  <2> DEFINE i == wReq[r].ip
             who == wFlight[i].who
             of == wFlight[i].of
  <2>1. /\ wReq[r].pc = "store" /\ wEntry' \in storeEntry(i, who, of)
        /\ wFlight' = [wFlight EXCEPT ![i] = None] /\ wNow' = wNow
        /\ wReq' = [q \in Lookups |->
                      IF q = r \/ (wReq[q].pc = "join" /\ wReq[q].ip = i)
                      THEN Answer(q, who, of, wNow) ELSE wReq[q]]
    BY <1>7 DEF WStore
  <2>2. i \in IPs /\ who \in {0, 1} /\ of = i
    <3>1. i \in IPs
      BY <1>t
    <3>2. wFlight[i] # None
      BY <2>1, <1>t DEF WGroup, Leads
    <3>3. of = i
      BY <3>1, <3>2 DEF WKept
    <3>4. who \in {0, 1}
      BY <2>1 DEF WGroup
    <3> QED BY <3>1, <3>3, <3>4
  <2>13. wReq[r].ip = i
    OBVIOUS
  <2> HIDE DEF i, who, of
  <2>3. ASSUME NEW q \in Lookups
        PROVE  /\ Answer(q, who, of, wNow) \in LookupStates
               /\ Answer(q, who, of, wNow).pc = "done" /\ Answer(q, who, of, wNow).at = wNow
               /\ Answer(q, who, of, wNow).start = wReq[q].start
               /\ Answer(q, who, of, wNow).ip = wReq[q].ip /\ Answer(q, who, of, wNow).of = i
    BY <2>2, <1>t DEF Answer, LookupStates
  <2>4. wReq' \in [Lookups -> LookupStates]
    BY <2>1, <2>3, <1>t
  <2>5. ASSUME NEW q \in Lookups
        PROVE  \/ /\ q = r \/ (wReq[q].pc = "join" /\ wReq[q].ip = i)
                  /\ wReq'[q].pc = "done" /\ wReq'[q].at = wNow /\ wReq'[q].start = wReq[q].start
                  /\ wReq'[q].of = i /\ wReq'[q].ip = i
               \/ /\ q # r /\ ~(wReq[q].pc = "join" /\ wReq[q].ip = i)
                  /\ wReq'[q] = wReq[q]
    BY <2>1, <2>3, <2>13
  <2>6. /\ wEntry' \in [IPs -> {None} \cup CacheEntries] /\ WBound'
        /\ \A j \in IPs : Kept(j, wEntry'[j])
    <3> DEFINE t == wNow + Life(who)
               new == [who |-> who, of |-> of, expires |-> t, at |-> wNow]
               e == [wEntry EXCEPT ![i] = new]
    <3>1. t \in Nat
      BY <1>t, WAssumption DEF WTyped, Life
    <3>2. new \in CacheEntries /\ Kept(i, new)
      BY <1>t, <3>1, <2>2 DEF CacheEntries, Kept, WTyped
    <3>3. wEntry' \in IF Cardinality(Cached(e)) > MaxEntries THEN evict(e) ELSE {e}
      BY <2>1 DEF storeEntry
    <3> HIDE DEF new
    <3>4. /\ e \in [IPs -> {None} \cup CacheEntries]
          /\ \A j \in IPs : Kept(j, e[j])
      <4>1. e \in [IPs -> {None} \cup CacheEntries]
        BY <3>2, <2>2 DEF WTyped
      <4>3. ASSUME NEW j \in IPs, j # i PROVE e[j] = wEntry[j]
        BY <4>3 DEF WTyped
      <4>4. e[i] = new
        BY <2>2 DEF WTyped
      <4>2. ASSUME NEW j \in IPs PROVE Kept(j, e[j])
        <5>1. CASE j = i
          BY <5>1, <4>4, <3>2
        <5>2. CASE j # i
          <6>1. e[j] = wEntry[j]
            BY <5>2, <4>3
          <6>2. Kept(j, wEntry[j])
            BY DEF WKept
          <6> QED BY <6>1, <6>2
        <5> QED BY <5>1, <5>2
      <4> QED BY <4>1, <4>2
    <3>5. Cardinality(Cached(e)) \in Nat
      <4>1. Cached(e) \in SUBSET IPs
        BY DEF Cached
      <4> QED BY <4>1, WAssumption, FS_Subset, FS_CardinalityType
    <3> HIDE DEF e
    <3>6. CASE Cardinality(Cached(e)) > MaxEntries
      <4>1. wEntry' \in evict(e)
        BY <3>3, <3>6
      <4>2. ASSUME NEW g \in evict(e)
            PROVE  /\ g \in [IPs -> {None} \cup CacheEntries] /\ Cardinality(Cached(g)) <= MaxEntries
                   /\ \A j \in IPs : g[j] \in {None, e[j]}
        BY <3>4, EvictBounds
      <4>3. /\ wEntry' \in [IPs -> {None} \cup CacheEntries] /\ Cardinality(Cached(wEntry')) <= MaxEntries
            /\ \A j \in IPs : wEntry'[j] \in {None, e[j]}
        BY <4>1, <4>2
      <4>4. \A j \in IPs : Kept(j, wEntry'[j])
        BY <4>3, <3>4 DEF Kept
      <4> QED BY <4>3, <4>4 DEF WBound, Cached
    <3>7. CASE ~(Cardinality(Cached(e)) > MaxEntries)
      <4>1. wEntry' = e
        BY <3>3, <3>7
      <4>2. Cardinality(Cached(wEntry')) <= MaxEntries
        BY <4>1, <3>5, <3>7, WAssumption
      <4> QED BY <4>1, <4>2, <3>4 DEF WBound, Cached
    <3> QED BY <3>6, <3>7
  <2>7. wFlight' \in [IPs -> {None} \cup Flights]
    BY <2>1 DEF WTyped
  <2>8. WTyped'
    BY <2>1, <2>4, <2>6, <2>7 DEF WTyped
  <2>9. \A j \in IPs : wFlight'[j] = IF j = i THEN None ELSE wFlight[j]
    BY <2>1 DEF WTyped
  <2>10. WTimes' /\ WKept' /\ AnswersFresh'
    <3>1. WTimes' /\ AnswersFresh'
      BY <2>1, <2>5, <1>t DEF WTimes, AnswersFresh, Life
    <3>2. WKept'
      <4>1. ASSUME NEW j \in IPs PROVE wFlight'[j] # None => wFlight'[j].of = j
        BY <2>9 DEF WKept
      <4> QED BY <2>6, <4>1 DEF WKept
    <3> QED BY <3>1, <3>2
  <2>11. WGroup'
    <3>0. ASSUME NEW q \in Lookups, Leads(wReq'[q]) \/ wReq'[q].pc = "join"
          PROVE  wReq'[q] = wReq[q] /\ wReq[q].ip # i
      <4>1. q # r /\ ~(wReq[q].pc = "join" /\ wReq[q].ip = i) /\ wReq'[q] = wReq[q]
        BY <3>0, <2>5 DEF Leads
      <4>2. ~(Leads(wReq[q]) /\ wReq[q].ip = i)
        BY <4>1, <2>1, <2>13 DEF WGroup, Leads
      <4> QED BY <4>1, <4>2, <3>0
    <3>1. \A s, p \in Lookups : Leads(wReq'[s]) /\ Leads(wReq'[p]) /\ wReq'[s].ip = wReq'[p].ip => s = p
      BY <3>0 DEF WGroup
    <3>2. \A s \in Lookups :
            Leads(wReq'[s]) \/ wReq'[s].pc = "join" => wFlight'[wReq'[s].ip] # None
      BY <3>0, <2>9, <1>t DEF WGroup
    <3>3. ASSUME NEW j \in IPs, wFlight'[j] # None
          PROVE  \E s \in Lookups : Leads(wReq'[s]) /\ wReq'[s].ip = j
      <4>1. j # i /\ wFlight[j] # None
        BY <3>3, <2>9
      <4>2. PICK s \in Lookups : Leads(wReq[s]) /\ wReq[s].ip = j
        BY <4>1 DEF WGroup
      <4>3. s # r /\ wReq[s].pc # "join"
        BY <4>1, <4>2, <2>13 DEF Leads
      <4> QED BY <4>2, <4>3, <2>5
    <3>4. \A s \in Lookups : wReq'[s].pc = "store" => wFlight'[wReq'[s].ip].who \in {0, 1}
      BY <3>0, <2>9, <1>t DEF WGroup, Leads
    <3> QED BY <3>1, <3>2, <3>3, <3>4 DEF WGroup
  <2> QED BY <2>6, <2>8, <2>10, <2>11
<1>8. ASSUME NEW r \in Lookups, WAgain(r) PROVE WInv'
  <2>1. wReq[r].pc = "done" /\ wReq' = [wReq EXCEPT ![r] = Idle] /\ UNCHANGED <<wNow, wEntry, wFlight>>
    BY <1>8 DEF WAgain
  <2>2. 0 <= wNow
    BY DEF WTyped
  <2> QED BY <2>1, <2>2, IdleFields, OneLookup DEF Leads
<1>9. CASE UNCHANGED wvars
  BY <1>9 DEF wvars, WTyped, WTimes, WGroup, WBound, WKept, Kept, AnswersFresh, Cached
<1> QED BY <1>1, <1>2, <1>3, <1>4, <1>5, <1>6, <1>7, <1>8, <1>9 DEF WNext

\* Concurrent lookups share one call, the cache keeps its bound, and every answer
\* is about the address looked up and had not expired when its lookup began
\* (whois_cache.go, Lookup, storeEntry, evict).
THEOREM WhoisSafety == WSpec => []WhoisSafe
<1>1. WInv => WhoisSafe
  <2> SUFFICES ASSUME WInv PROVE WhoisSafe
    OBVIOUS
  <2>1. WTypeOK
    BY LookupFields DEF WInv, WTyped, WBound, WTypeOK
  <2>2. ASSUME NEW i \in IPs
        PROVE  LET leaders == {r \in Lookups : wReq[r].pc \in {"lead", "store"} /\ wReq[r].ip = i} IN
               /\ Cardinality(leaders) <= 1
               /\ wFlight[i] # None <=> leaders # {}
               /\ (\E r \in Lookups : wReq[r].pc = "join" /\ wReq[r].ip = i) => leaders # {}
    <3> DEFINE leaders == {r \in Lookups : wReq[r].pc \in {"lead", "store"} /\ wReq[r].ip = i}
    <3>1. wFlight[i] # None <=> leaders # {}
      BY DEF WInv, WGroup, Leads
    <3>2. (\E r \in Lookups : wReq[r].pc = "join" /\ wReq[r].ip = i) => leaders # {}
      BY <3>1 DEF WInv, WGroup
    <3>3. leaders = {} \/ \E r \in Lookups : leaders = {r}
      BY DEF WInv, WGroup, Leads
    <3>4. Cardinality(leaders) <= 1
      BY <3>3, FS_EmptySet, FS_Singleton
    <3> QED BY <3>1, <3>2, <3>4
  <2>3. OneFlight
    BY <2>2 DEF OneFlight
  <2> QED BY <2>1, <2>3 DEF WInv, WhoisSafe
<1> QED BY <1>1, WInitInv, WNextInv, PTL DEF WSpec

\* The two together: whoever a request is served as, the node has named, and
\* not longer ago than the cache promises.
THEOREM IdentitySafety == PSpec /\ WSpec => []IdentitySafe
<1>1. RequestSafe /\ WhoisSafe => IdentitySafe
  BY DEF IdentitySafe
<1> QED BY <1>1, RequestSafety, WhoisSafety, PTL

-----------------------------------------------------------------------------
(* The health checker. *)

\* What the variables hold.
KTyped ==
  /\ kNow \in 1 .. KMaxTime /\ kTick \in Nat
  /\ kPc \in {"wait", "judge", "resolve", "swap", "cool", "notify", "ended"}
  /\ kPort \in [KPorts -> KTargets] /\ kReal \in [KPorts -> KTargets]
  /\ DOMAIN kFound \subseteq KPorts /\ \A p \in DOMAIN kFound : kFound[p] \in KTargets
  /\ kFails \in Nat /\ kRetry \in Nat /\ kUntil \in Int
  /\ kResult \in {"unknown", "healthy", "down"} /\ kGauge \in {"unknown", "healthy", "down"}

\* Failures and attempts are counted once per tick, so the clock bounds them.
KBudget ==
  LET due == IF kPc = "judge" THEN 1 ELSE 0 IN
  /\ kTick <= kNow + Interval
  /\ kPc = "judge" => kTick >= 1 + Interval
  /\ kFails = 0 \/ kFails + due + Interval <= kTick
  /\ kRetry = 0 \/ kRetry + due + Interval <= kTick

\* An attempt is being made.
Attempting == kPc \in {"resolve", "swap", "cool"}

\* The pause that runs, or that the attempt now made has waited for, is that
\* of the last attempt.
KPause ==
  LET last == IF Attempting THEN kRetry - 1 ELSE kRetry IN
  /\ Attempting => kRetry >= 1
  /\ last >= 1 =>
       /\ kUntil = kLast.at + kLast.pause
       /\ Cooldown = 0 => kLast.pause = nextBackoff(Interval, last - 1)
  /\ Attempting /\ last >= 1 => kNow >= kUntil

KGauge == kPc \in {"wait", "ended"} => kGauge = kResult

KInv == KTyped /\ KBudget /\ KPause /\ KGauge /\ ProbesItsPort

\* The checker's port is one of the proxy's.
LEMMA HealthPort == healthPort \in KPorts
  BY KAssumption DEF healthPort

\* A backoff is a number, whatever the shift and the product wrap to.
LEMMA BackoffType ==
  ASSUME NEW a \in Nat PROVE nextBackoff(Interval, a) \in Int
<1>1. 2^a \in Int /\ 2^W \in Int /\ 2^(W - 1) \in Int /\ 2^W > 0
  BY KAssumption
<1>2. ASSUME NEW x \in Int PROVE Wrap(x) \in Int
  <2> DEFINE y == x + 2^(W - 1)
  <2>1. y \in Int
    BY <1>1
  <2> HIDE DEF y
  <2>2. y % 2^W \in Int
    BY <1>1, <2>1
  <2> USE DEF y
  <2> QED BY <2>2, <1>1 DEF Wrap
<1>3. Wrap(2^a) \in Int
  BY <1>1, <1>2
<1>4. Interval * Wrap(2^a) \in Int
  BY <1>3, KAssumption
<1>5. Wrap(Interval * Wrap(2^a)) \in Int
  BY <1>2, <1>4
<1> QED BY <1>5, KAssumption DEF nextBackoff

\* The invariant holds of a new checker.
LEMMA KInitInv == KInit => KInv
<1> SUFFICES ASSUME KInit PROVE KInv
  OBVIOUS
<1>1. PICK t \in KTargets : kPort = [p \in KPorts |-> t]
  BY DEF KInit
<1>2. KTyped
  BY <1>1, KAssumption DEF KInit, KTyped, NoAnswer
<1>3. KBudget /\ KPause /\ KGauge /\ ProbesItsPort
  BY KAssumption DEF KInit, KBudget, KPause, KGauge, ProbesItsPort, Attempting
<1> QED BY <1>2, <1>3 DEF KInv

\* Every step of the check loop keeps it.
LEMMA KNextInv == KInv /\ [KNext]_kvars => KInv'
<1> SUFFICES ASSUME KInv, [KNext]_kvars PROVE KInv'
  OBVIOUS
<1> USE DEF KInv
<1>a. /\ Interval \in Nat \ {0} /\ KMaxTime \in Nat /\ Cooldown \in Nat
  BY KAssumption
<1>1. CASE KTimePasses
  <2>1. /\ kNow < KMaxTime /\ kNow' = kNow + 1
        /\ UNCHANGED <<kTick, kPc, kTarget, kPort, kReal, kFails, kRetry, kUntil, kFound, kResult,
                       kGauge, kLast>>
    BY <1>1 DEF KTimePasses
  <2>2. KTyped'
    BY <2>1, <1>a DEF KTyped
  <2>3. KBudget'
    BY <2>1, <1>a DEF KTyped, KBudget
  <2>4. KPause'
    BY <2>1, <1>a DEF KTyped, KPause, Attempting
  <2> QED BY <2>1, <2>2, <2>3, <2>4 DEF KGauge, ProbesItsPort
<1>2. CASE KContainers
  <2>1. UNCHANGED <<kNow, kTick, kPc, kTarget, kPort, kFails, kRetry, kUntil, kFound, kResult,
                    kGauge, kLast>>
    BY <1>2 DEF KContainers
  <2>2. kReal' \in [KPorts -> KTargets]
    BY <1>2 DEF KContainers, KTyped
  <2>3. KTyped'
    BY <2>1, <2>2 DEF KTyped
  <2> QED BY <2>1, <2>3 DEF KBudget, KPause, Attempting, KGauge, ProbesItsPort
<1>3. CASE KProbe
  <2>1. /\ kPc = "wait" /\ kNow >= kTick /\ kTick' = kNow + Interval
        /\ UNCHANGED <<kNow, kTarget, kPort, kReal, kFound, kGauge, kLast>>
        /\ \/ /\ kResult' = "healthy" /\ kPc' = "notify"
              /\ kFails' = 0 /\ kRetry' = 0 /\ kUntil' = 0
           \/ /\ kResult' = "down" /\ kPc' = "judge"
              /\ UNCHANGED <<kFails, kRetry, kUntil>>
    BY <1>3 DEF KProbe
  <2>2. KTyped'
    BY <2>1, <1>a DEF KTyped
  <2>3. KBudget'
    BY <2>1, <1>a DEF KTyped, KBudget
  <2>4. KPause'
    BY <2>1, <1>a DEF KTyped, KPause, Attempting
  <2> QED BY <2>1, <2>2, <2>3, <2>4 DEF KGauge, ProbesItsPort
<1>4. CASE KJudge
  <2>1. /\ kPc = "judge"
        /\ UNCHANGED <<kNow, kTick, kTarget, kPort, kReal, kUntil, kFound, kResult, kGauge, kLast>>
        /\ \/ kPc' = "notify" /\ UNCHANGED <<kFails, kRetry>>
           \/ /\ kFails' = kFails + 1 /\ ~(kUntil # 0 /\ kNow < kUntil)
              /\ \/ kPc' = "resolve" /\ kRetry' = kRetry + 1
                 \/ kPc' = "notify" /\ UNCHANGED kRetry
    BY <1>4 DEF KJudge
  <2>2. KTyped'
    BY <2>1, <1>a DEF KTyped
  <2>3. KBudget'
    BY <2>1, <1>a DEF KTyped, KBudget
  <2>4. KPause'
    BY <2>1, <1>a DEF KTyped, KPause, Attempting
  <2> QED BY <2>1, <2>2, <2>3, <2>4 DEF KGauge, ProbesItsPort
<1>5. CASE KResolve
  <2>1. /\ kPc = "resolve" /\ kPc' \in {"swap", "cool"}
        /\ UNCHANGED <<kNow, kTick, kTarget, kPort, kReal, kFails, kRetry, kUntil, kResult, kGauge,
                       kLast>>
    BY <1>5 DEF KResolve
  <2>2. DOMAIN kFound' \subseteq KPorts /\ \A p \in DOMAIN kFound' : kFound'[p] \in KTargets
    <3>1. CASE UNCHANGED kFound
      BY <3>1 DEF KTyped
    <3>2. ASSUME NEW known \in SUBSET KPorts, kFound' = [p \in known |-> kReal[p]]
          PROVE  DOMAIN kFound' \subseteq KPorts /\ \A p \in DOMAIN kFound' : kFound'[p] \in KTargets
      BY <3>2 DEF KTyped
    <3> QED BY <1>5, <3>1, <3>2 DEF KResolve
  <2>3. KTyped'
    BY <2>1, <2>2 DEF KTyped
  <2> QED BY <2>1, <2>3 DEF KBudget, KPause, Attempting, KGauge, ProbesItsPort
<1>6. CASE KSwap
  <2> DEFINE changed == {p \in DOMAIN kFound : kFound[p] # kPort[p]}
  <2>1. /\ kPc = "swap" /\ kPc' = "cool" /\ kFound' = NoAnswer
        /\ UNCHANGED <<kNow, kTick, kReal, kFails, kRetry, kUntil, kResult, kGauge, kLast>>
        /\ \/ UNCHANGED <<kPort, kTarget>>
           \/ /\ kPort' = [p \in KPorts |-> IF p \in changed THEN kFound[p] ELSE kPort[p]]
              /\ kTarget' = IF healthPort \in changed THEN kFound[healthPort] ELSE kTarget
    BY <1>6 DEF KSwap
  <2>2. DOMAIN kFound' = {}
    BY <2>1 DEF NoAnswer
  <2>3. kPort' \in [KPorts -> KTargets]
    BY <2>1 DEF KTyped
  <2>4. KTyped'
    BY <2>1, <2>2, <2>3 DEF KTyped
  <2>5. ProbesItsPort'
    BY <2>1, HealthPort DEF ProbesItsPort, KTyped
  <2> QED BY <2>1, <2>4, <2>5 DEF KBudget, KPause, Attempting, KGauge
<1>7. CASE KCool
  <2> DEFINE bo == IF Cooldown = 0 THEN nextBackoff(Interval, kRetry - 1) ELSE Cooldown
  <2>1. /\ kPc = "cool" /\ kPc' = "notify" /\ kFails' = 0
        /\ kUntil' = kNow + bo /\ kLast' = [at |-> kNow, pause |-> bo]
        /\ UNCHANGED <<kNow, kTick, kTarget, kPort, kReal, kRetry, kFound, kResult, kGauge>>
    BY <1>7 DEF KCool
  <2>2. kRetry >= 1 /\ kRetry - 1 \in Nat
    BY <2>1 DEF KPause, Attempting, KTyped
  <2>3. bo \in Int
    BY <2>2, <1>a, BackoffType
  <2>4. KTyped'
    <3> HIDE DEF bo
    <3> QED BY <2>1, <2>3 DEF KTyped
  <2>5. KBudget'
    BY <2>1, <1>a DEF KTyped, KBudget
  <2>6. KPause'
    <3>1. kUntil' = kLast'.at + kLast'.pause /\ kLast'.pause = bo
      BY <2>1
    <3>2. ~Attempting'
      BY <2>1 DEF Attempting
    <3> QED BY <3>1, <3>2, <2>1, <2>2 DEF KPause
  <2> QED BY <2>1, <2>4, <2>5, <2>6 DEF KGauge, ProbesItsPort
<1>8. CASE KNotify
  <2>1. /\ kPc = "notify" /\ kPc' = "wait" /\ kGauge' = kResult
        /\ UNCHANGED <<kNow, kTick, kTarget, kPort, kReal, kFails, kRetry, kUntil, kFound, kResult,
                       kLast>>
    BY <1>8 DEF KNotify
  <2> QED BY <2>1 DEF KTyped, KBudget, KPause, Attempting, KGauge, ProbesItsPort
<1>9. CASE KEnds
  <2>1. /\ kPc = "wait" /\ kPc' = "ended"
        /\ UNCHANGED <<kNow, kTick, kTarget, kPort, kReal, kFails, kRetry, kUntil, kFound, kResult,
                       kGauge, kLast>>
    BY <1>9 DEF KEnds
  <2> QED BY <2>1 DEF KTyped, KBudget, KPause, Attempting, KGauge, ProbesItsPort
<1>10. CASE KStop \/ UNCHANGED kvars
  <2>1. UNCHANGED <<kNow, kTick, kPc, kTarget, kPort, kReal, kFails, kRetry, kUntil, kFound, kResult,
                    kGauge, kLast>>
    BY <1>10 DEF KStop, kvars
  <2> QED BY <2>1 DEF KTyped, KBudget, KPause, Attempting, KGauge, ProbesItsPort
<1> QED BY <1>1, <1>2, <1>3, <1>4, <1>5, <1>6, <1>7, <1>8, <1>9, <1>10 DEF KNext

\* The checker probes the address its port forwards to, keeps the distance of
\* its pauses, each the next of nextBackoff, and leaves the gauge at its last
\* result (health.go).
THEOREM HealthSafety == KSpec => []HealthSafe
<1>1. KInv => HealthSafe
  <2> SUFFICES ASSUME KInv PROVE HealthSafe
    OBVIOUS
  <2>1. KTypeOK
    BY KAssumption DEF KInv, KTyped, KBudget, KTypeOK
  <2>2. Spaced /\ Doubles
    <3>1. ASSUME Attempting, kRetry > 1
          PROVE  /\ kNow >= kLast.at + kLast.pause
                 /\ Cooldown = 0 => kLast.pause = nextBackoff(Interval, kRetry - 2)
      <4>1. kRetry - 1 >= 1 /\ (kRetry - 1) - 1 = kRetry - 2
        BY <3>1 DEF KInv, KTyped
      <4> QED BY <3>1, <4>1 DEF KInv, KPause
    <3> QED BY <3>1 DEF Spaced, Doubles, Attempting
  <2>3. GaugeFollows
    BY DEF KInv, KGauge, GaugeFollows
  <2> QED BY <2>1, <2>2, <2>3 DEF KInv, HealthSafe
<1> QED BY <1>1, KInitInv, KNextInv, PTL DEF KSpec

-----------------------------------------------------------------------------
(* The start of a node. *)

DeviceStates == [name : {"", "app", "app-1"}, online : BOOLEAN, tag : NodeTags]
Listed == [dev : Devs, name : {"", "app", "app-1"}, online : BOOLEAN]
LocalStates == [dev : Devs \cup {NoDev}, cfg : NodeTags]

\* What the variables hold.
NTyped ==
  /\ nCfg \in NodeTags /\ nLocal \in LocalStates /\ nMeta \in NodeTags
  /\ nDev \in [Devs -> DeviceStates]
  /\ nPc \in {"down", "remove", "save", "write", "list", "reconcile", "start", "up"}
  /\ nForce \in BOOLEAN /\ nClean \in BOOLEAN /\ nTorn \in BOOLEAN
  /\ nTodo \subseteq Listed /\ nDoomed \in Devs \cup {NoDev} /\ nKeep \subseteq Devs
  /\ nTries \in Nat /\ nMine \in Devs \cup {NoDev}

\* Until the disk fails or a crash tears its files, state was made under the tags
\* in the metadata or under none; from Start on they are the present ones, and
\* forcing means that there is none.
NStates ==
  /\ ~nTorn /\ nLocal.dev # NoDev =>
       /\ nPc \in {"down", "save"} => nLocal.cfg \in {NoTag, nMeta}
       /\ nPc \notin {"down", "remove"} => nLocal.cfg \in {NoTag, nCfg}
  /\ ~nTorn /\ nPc \notin {"down", "remove", "save", "write"} => nMeta = nCfg
  /\ nPc = "remove" => ~nForce
  /\ nForce /\ nPc \in {"save", "write", "list", "reconcile", "start"} => nLocal.dev = NoDev
  /\ nPc = "up" => nMine # NoDev /\ nLocal.dev = nMine

\* Who has the name and the tag is listed or doomed while a forced reconciliation meets no
\* error, and gone after it.
NClaims ==
  nForce /\ nClean =>
    /\ nPc = "reconcile" =>
         \A d \in Devs : nDev[d].name = "app" /\ nDev[d].tag = nCfg =>
           d = nDoomed \/ \E e \in nTodo : e.dev = d /\ e.name = "app"
    /\ nPc = "start" => \A d \in Devs : nDev[d].name = "app" => nDev[d].tag # nCfg

\* Only a reconciliation dooms and keeps, and what it keeps is there, online
\* and not doomed.
NKeeps ==
  /\ nPc # "reconcile" => nDoomed = NoDev /\ nKeep = {}
  /\ ~nForce => \A d \in nKeep : nDev[d].name # "" /\ nDev[d].online /\ d # nDoomed

NAttempts ==
  /\ nTries <= IF NMaxAttempts = 0 THEN 1 ELSE NMaxAttempts
  /\ nPc = "reconcile" => nTries = 0
  /\ nPc = "start" => nTries = 0 \/ nTries < NMaxAttempts

NInv == NTyped /\ NStates /\ NClaims /\ NKeeps /\ NAttempts /\ NNameClaimed

\* The fields of a device, of its entry in a listing and of the state.
LEMMA DeviceFields ==
  ASSUME NEW x \in DeviceStates
  PROVE  x.name \in {"", "app", "app-1"} /\ x.online \in BOOLEAN /\ x.tag \in NodeTags
  BY DEF DeviceStates

\* The fields of a listed device.
LEMMA ListedFields ==
  ASSUME NEW e \in Listed
  PROVE  e.dev \in Devs /\ e.name \in {"", "app", "app-1"} /\ e.online \in BOOLEAN
  BY DEF Listed

\* The fields of the node's local state.
LEMMA LocalFields ==
  /\ \A l \in LocalStates : l.dev \in Devs \cup {NoDev} /\ l.cfg \in NodeTags
  /\ NoLocal \in LocalStates /\ NoLocal.dev = NoDev
  BY DEF LocalStates, NoLocal, NodeTags

\* The fields of a device that was never made.
LEMMA UnusedFields == Unused \in DeviceStates /\ Unused.name = "" /\ Unused.online = FALSE
  BY DEF DeviceStates, Unused, NodeTags

\* The invariant holds before the first start.
LEMMA NInitInv == NInit => NInv
<1> SUFFICES ASSUME NInit PROVE NInv
  OBVIOUS
<1>1. nDev \in [Devs -> DeviceStates]
  <2>1. [name : {"app"}, online : BOOLEAN, tag : NodeTags] \subseteq DeviceStates
    BY DEF DeviceStates
  <2> QED BY <2>1, UnusedFields DEF NInit
<1>2. NTyped
  <2>1. nCfg \in NodeTags /\ nLocal \in LocalStates /\ nMeta \in NodeTags /\ nTries \in Nat
    BY LocalFields DEF NInit, NodeTags
  <2>2. nForce \in BOOLEAN /\ nClean \in BOOLEAN /\ nTorn \in BOOLEAN
    BY DEF NInit
  <2>3. /\ nPc \in {"down", "remove", "save", "write", "list", "reconcile", "start", "up"}
        /\ nTodo \subseteq Listed /\ nDoomed \in Devs \cup {NoDev} /\ nKeep \subseteq Devs
        /\ nMine \in Devs \cup {NoDev}
    BY DEF NInit
  <2> QED BY <1>1, <2>1, <2>2, <2>3 DEF NTyped
<1>3. nPc = "down" /\ nKeep = {} /\ nDoomed = NoDev /\ nLocal.dev = NoDev /\ nTries = 0
  BY LocalFields DEF NInit
<1>4. NStates /\ NClaims /\ NKeeps /\ NNameClaimed
  BY <1>3 DEF NStates, NClaims, NKeeps, NNameClaimed
<1>5. NAttempts
  BY <1>3, NAssumption DEF NAttempts
<1> QED BY <1>2, <1>4, <1>5 DEF NInv

\* Every step of a start keeps it.
LEMMA NNextInv == NInv /\ [NNext]_nvars => NInv'
<1> SUFFICES ASSUME NInv, [NNext]_nvars PROVE NInv'
  OBVIOUS
<1> USE DEF NInv
<1>t. ASSUME NEW d \in Devs PROVE nDev[d] \in DeviceStates
  BY DEF NTyped
<1>1. CASE NPrepare
  <2>1. /\ nPc = "down" /\ nPc' = (IF Stale THEN "remove" ELSE "save")
        /\ nForce' = (nLocal.dev = NoDev)
        /\ UNCHANGED <<nCfg, nLocal, nMeta, nTorn, nDev, nTodo, nDoomed, nKeep, nClean, nTries, nMine>>
    BY <1>1 DEF NPrepare, disk, tailnet, reconciling
  <2>2. NTyped'
    <3>1. nForce' \in BOOLEAN
      BY <2>1
    <3> QED BY <2>1, <3>1 DEF NTyped
  <2>3. NStates'
    BY <2>1 DEF NStates, NTyped, Stale
  <2>4. NClaims' /\ NKeeps' /\ NAttempts' /\ NNameClaimed'
    BY <2>1 DEF NClaims, NKeeps, NAttempts, NNameClaimed
  <2> QED BY <2>2, <2>3, <2>4
<1>2. CASE NSave
  <2>1. /\ nPc \in {"save", "write"} /\ nPc' \in {"write", "list"}
        /\ \/ nPc' = "write" /\ nPc = "save" /\ nMeta' = NoTag /\ UNCHANGED nTorn
           \/ nPc' = "list" /\ nMeta' = nCfg /\ nTorn' = (nTorn /\ nLocal.dev # NoDev)
           \/ nPc' = "list" /\ nTorn' = TRUE /\ UNCHANGED nMeta
        /\ UNCHANGED <<nCfg, nLocal, nDev, nForce, nTodo, nDoomed, nKeep, nClean, nTries, nMine>>
    BY <1>2 DEF NSave, tailnet, reconciling
  <2>2. NTyped'
    <3>1. nMeta' \in NodeTags
      BY <2>1 DEF NTyped, NodeTags
    <3>2. nTorn' \in BOOLEAN
      BY <2>1 DEF NTyped
    <3> QED BY <2>1, <3>1, <3>2 DEF NTyped
  <2>3. NStates'
    BY <2>1 DEF NStates, NTyped
  <2>4. NClaims' /\ NKeeps' /\ NAttempts' /\ NNameClaimed'
    BY <2>1 DEF NClaims, NKeeps, NAttempts, NNameClaimed
  <2> QED BY <2>2, <2>3, <2>4
<1>a. CASE NRemove
  <2>1. /\ nPc = "remove" /\ nLocal' \in {nLocal, NoLocal} /\ nMeta' \in {nMeta, NoTag}
        /\ UNCHANGED <<nCfg, nTorn, nDev, nPc, nForce, nTodo, nDoomed, nKeep, nClean, nTries, nMine>>
    BY <1>a DEF NRemove, tailnet, reconciling
  <2>2. nLocal' \in LocalStates /\ nMeta' \in NodeTags
    BY <2>1, LocalFields DEF NTyped, NodeTags
  <2>3. NTyped'
    BY <2>1, <2>2 DEF NTyped
  <2>4. NStates'
    BY <2>1 DEF NStates
  <2>5. NClaims' /\ NKeeps' /\ NAttempts' /\ NNameClaimed'
    BY <2>1 DEF NClaims, NKeeps, NAttempts, NNameClaimed
  <2> QED BY <2>3, <2>4, <2>5
<1>b. CASE NRemoved
  <2>1. /\ nPc = "remove" /\ nPc' = "save"
        /\ \/ nLocal = NoLocal /\ nForce' = TRUE /\ UNCHANGED nTorn
           \/ nForce' = FALSE /\ nTorn' = TRUE
        /\ UNCHANGED <<nCfg, nLocal, nMeta, nDev, nTodo, nDoomed, nKeep, nClean, nTries, nMine>>
    BY <1>b DEF NRemoved, tailnet, reconciling
  <2>2. NTyped'
    <3>1. nForce' \in BOOLEAN /\ nTorn' \in BOOLEAN
      BY <2>1 DEF NTyped
    <3> QED BY <2>1, <3>1 DEF NTyped
  <2>3. NStates'
    BY <2>1, LocalFields DEF NStates
  <2>4. NClaims' /\ NKeeps' /\ NAttempts' /\ NNameClaimed'
    BY <2>1 DEF NClaims, NKeeps, NAttempts, NNameClaimed
  <2> QED BY <2>2, <2>3, <2>4
<1>3. CASE NList
  <2> DEFINE entry(d) == [dev |-> d, name |-> nDev[d].name, online |-> nDev[d].online]
  <2>1. /\ nPc = "list" /\ nTries' = 0
        /\ UNCHANGED <<nCfg, nLocal, nMeta, nTorn, nDev, nForce, nDoomed, nMine>>
        /\ \/ /\ nTodo' = {entry(d) : d \in {d \in Registered : nDev[d].tag = nCfg}}
              /\ nKeep' = {d \in Registered : nDev[d].online}
              /\ nPc' = "reconcile" /\ nClean' = TRUE
           \/ nPc' = "start" /\ nClean' = FALSE /\ UNCHANGED <<nTodo, nKeep>>
    BY <1>3 DEF NList, disk, tailnet
  <2>2. \A d \in Devs : entry(d) \in Listed /\ entry(d).dev = d /\ entry(d).name = nDev[d].name
    <3>1. \A d \in Devs : nDev[d].name \in {"", "app", "app-1"} /\ nDev[d].online \in BOOLEAN
      BY <1>t, DeviceFields
    <3> QED BY <3>1 DEF Listed
  <2>3. nTodo' \subseteq Listed /\ nKeep' \subseteq Devs
    <3>1. nTodo \subseteq Listed /\ nKeep \subseteq Devs
      BY DEF NTyped
    <3>2. Registered \subseteq Devs
      BY DEF Registered
    <3> HIDE DEF entry
    <3> QED BY <2>1, <2>2, <3>1, <3>2
  <2>4. NTyped'
    BY <2>1, <2>3 DEF NTyped
  <2>5. NStates'
    BY <2>1 DEF NStates
  <2>6. NClaims'
    <3>1. CASE nPc' = "reconcile"
      <4>1. ASSUME NEW d \in Devs, nDev[d].name = "app", nDev[d].tag = nCfg
            PROVE  \E e \in nTodo' : e.dev = d /\ e.name = "app"
        <5>1. entry(d) \in nTodo'
          BY <2>1, <3>1, <4>1 DEF Registered
        <5> QED BY <5>1, <4>1, <2>2
      <4> QED BY <2>1, <3>1, <4>1 DEF NClaims
    <3>2. CASE nPc' = "start"
      BY <2>1, <3>2 DEF NClaims
    <3> QED BY <2>1, <3>1, <3>2
  <2>7. NKeeps'
    <3>1. nDoomed = NoDev /\ nKeep = {}
      BY <2>1 DEF NKeeps
    <3>2. \A d \in Devs : d # NoDev
      BY NAssumption DEF NoDev
    <3> QED BY <2>1, <3>1, <3>2 DEF NKeeps, Registered
  <2>8. NAttempts' /\ NNameClaimed'
    BY <2>1, NAssumption DEF NAttempts, NNameClaimed
  <2> QED BY <2>4, <2>5, <2>6, <2>7, <2>8
<1>4. ASSUME NEW e \in nTodo, NProcess(e) PROVE NInv'
  <2>1. /\ nPc = "reconcile" /\ nDoomed = NoDev /\ nTodo' = nTodo \ {e}
        /\ \/ ~isDeviceMatch(e) /\ UNCHANGED <<nDoomed, nClean>>
           \/ /\ nForce \/ ~nDev[e.dev].online
              /\ nDoomed' = e.dev /\ UNCHANGED nClean
           \/ nClean' = FALSE /\ UNCHANGED nDoomed
        /\ UNCHANGED <<nCfg, nLocal, nMeta, nTorn, nDev, nPc, nForce, nKeep, nTries, nMine>>
    BY <1>4 DEF NProcess, disk, tailnet
  <2>2. e \in Listed /\ e.dev \in Devs /\ nTodo' \subseteq Listed
    BY <2>1, ListedFields DEF NTyped
  <2>3. NTyped'
    BY <2>1, <2>2 DEF NTyped
  <2>4. NStates' /\ NAttempts' /\ NNameClaimed'
    BY <2>1 DEF NStates, NAttempts, NNameClaimed
  <2>5. NClaims'
    <3> SUFFICES ASSUME nForce, nClean', NEW d \in Devs, nDev[d].name = "app", nDev[d].tag = nCfg
                 PROVE  d = nDoomed' \/ \E f \in nTodo' : f.dev = d /\ f.name = "app"
      BY <2>1 DEF NClaims
    <3>1. nClean /\ d # NoDev
      BY <2>1, NAssumption DEF NoDev
    <3>2. PICK f \in nTodo : f.dev = d /\ f.name = "app"
      BY <2>1, <3>1 DEF NClaims
    <3>3. CASE f # e
      BY <2>1, <3>2, <3>3
    <3>4. CASE f = e
      <4>1. isDeviceMatch(e)
        BY <3>2, <3>4 DEF isDeviceMatch
      <4> QED BY <2>1, <3>2, <3>4, <4>1
    <3> QED BY <3>3, <3>4
  <2>6. NKeeps'
    BY <2>1, <2>2 DEF NKeeps, NTyped
  <2> QED BY <2>3, <2>4, <2>5, <2>6
<1>5. CASE NDelete
  <2>1. /\ nDoomed # NoDev /\ nDoomed' = NoDev
        /\ \/ nDev' = [nDev EXCEPT ![nDoomed] = Unused] /\ UNCHANGED nClean
           \/ nClean' = FALSE /\ UNCHANGED nDev
        /\ UNCHANGED <<nCfg, nLocal, nMeta, nTorn, nPc, nForce, nTodo, nKeep, nTries, nMine>>
    BY <1>5 DEF NDelete, disk
  <2>2. nPc = "reconcile" /\ nDoomed \in Devs
    BY <2>1 DEF NKeeps, NTyped
  <2>3. nDev' \in [Devs -> DeviceStates]
    BY <2>1, UnusedFields DEF NTyped
  <2>4. NTyped'
    BY <2>1, <2>3 DEF NTyped
  <2>5. NStates' /\ NAttempts' /\ NNameClaimed'
    BY <2>1, <2>2 DEF NStates, NAttempts, NNameClaimed
  <2>6. \A d \in Devs : \/ d # nDoomed /\ nDev'[d] = nDev[d]
                        \/ d = nDoomed /\ nDev'[d].name = ""
                        \/ d = nDoomed /\ nDev'[d] = nDev[d] /\ ~nClean'
    BY <2>1, UnusedFields DEF NTyped
  <2>7. NClaims'
    BY <2>1, <2>2, <2>6 DEF NClaims
  <2>8. NKeeps'
    <3>1. ASSUME ~nForce, NEW d \in nKeep
          PROVE  nDev'[d].name # "" /\ nDev'[d].online /\ d # nDoomed'
      <4>1. d \in Devs /\ d # nDoomed /\ d # NoDev
        BY <3>1, NAssumption DEF NKeeps, NTyped, NoDev
      <4> QED BY <2>1, <2>6, <3>1, <4>1 DEF NKeeps
    <3> QED BY <2>1, <2>2, <3>1 DEF NKeeps
  <2> QED BY <2>4, <2>5, <2>7, <2>8
<1>6. CASE NReconciled
  <2>1. /\ nPc = "reconcile" /\ nTodo = {} /\ nDoomed = NoDev /\ nPc' = "start" /\ nKeep' = {}
        /\ UNCHANGED <<nCfg, nLocal, nMeta, nTorn, nDev, nForce, nTodo, nDoomed, nClean, nTries, nMine>>
    BY <1>6 DEF NReconciled, disk, tailnet
  <2>2. NTyped'
    BY <2>1 DEF NTyped
  <2>3. NStates' /\ NKeeps' /\ NNameClaimed'
    BY <2>1 DEF NStates, NKeeps, NNameClaimed
  <2>4. NClaims'
    <3>1. \A d \in Devs : d # NoDev
      BY NAssumption DEF NoDev
    <3> QED BY <2>1, <3>1 DEF NClaims
  <2>5. NAttempts'
    BY <2>1 DEF NAttempts
  <2> QED BY <2>2, <2>3, <2>4, <2>5
<1>7. CASE NAttemptFails
  <2>1. /\ nPc = "start" /\ nTries' = nTries + 1
        /\ nPc' = "down" \/ (nTries + 1 < NMaxAttempts /\ UNCHANGED nPc)
        /\ UNCHANGED <<nCfg, nLocal, nMeta, nTorn, nDev, nForce, nTodo, nDoomed, nKeep, nClean, nMine>>
    BY <1>7 DEF NAttemptFails, disk, tailnet, reconciling
  <2>2. NTyped'
    BY <2>1 DEF NTyped
  <2>3. NStates' /\ NKeeps' /\ NNameClaimed' /\ NClaims'
    BY <2>1 DEF NStates, NKeeps, NNameClaimed, NClaims
  <2>4. NAttempts'
    BY <2>1, NAssumption DEF NAttempts, NTyped
  <2> QED BY <2>2, <2>3, <2>4
<1>8. CASE NUp
  <2> DEFINE known == nLocal.dev # NoDev /\ nDev[nLocal.dev].name # ""
  <2>1. /\ nPc = "start" /\ nPc' = "up"
        /\ UNCHANGED <<nCfg, nMeta, nTorn, nForce, nTodo, nDoomed, nKeep, nClean, nTries>>
    BY <1>8 DEF NUp, reconciling
  <2>k. nDoomed = NoDev /\ nKeep = {} /\ NKeeps' /\ NAttempts' /\ NClaims'
    BY <2>1 DEF NKeeps, NAttempts, NClaims
  <2>2. CASE known
    <3>1. nMine' = nLocal.dev /\ nDev' = [nDev EXCEPT ![nLocal.dev].online = TRUE] /\ UNCHANGED nLocal
      BY <1>8, <2>2 DEF NUp
    <3>2. nLocal.dev \in Devs
      BY <2>2, LocalFields DEF NTyped
    <3>3. nDev' = [nDev EXCEPT ![nLocal.dev] = [nDev[nLocal.dev] EXCEPT !.online = TRUE]]
      BY <3>1
    <3>4. [nDev[nLocal.dev] EXCEPT !.online = TRUE] \in DeviceStates
      BY <3>2, <1>t DEF DeviceStates
    <3>5. nDev' \in [Devs -> DeviceStates]
      BY <3>3, <3>4 DEF NTyped
    <3>6. NTyped'
      BY <2>1, <3>1, <3>2, <3>5 DEF NTyped
    <3>7. NStates'
      BY <2>1, <2>2, <3>1 DEF NStates
    <3>8. NNameClaimed'
      BY <2>1, <2>2 DEF NStates, NNameClaimed
    <3> QED BY <2>k, <3>6, <3>7, <3>8
  <2>3. CASE ~known
    <3>1. \E d \in Devs \ Registered :
            /\ \E t \in NodeTags :
                 nDev' = [nDev EXCEPT ![d] = [name |-> NewName, online |-> TRUE, tag |-> t]]
            /\ nMine' = d /\ nLocal' = [dev |-> d, cfg |-> nCfg]
      BY <1>8, <2>3 DEF NUp
    <3>0. PICK d \in Devs \ Registered :
            /\ \E t \in NodeTags :
                 nDev' = [nDev EXCEPT ![d] = [name |-> NewName, online |-> TRUE, tag |-> t]]
            /\ nMine' = d /\ nLocal' = [dev |-> d, cfg |-> nCfg]
      BY <3>1
    <3>2. PICK t \in NodeTags :
            /\ nDev' = [nDev EXCEPT ![d] = [name |-> NewName, online |-> TRUE, tag |-> t]]
            /\ nMine' = d /\ nLocal' = [dev |-> d, cfg |-> nCfg]
      BY <3>0
    <3>3. NewName \in {"app", "app-1"}
      BY DEF NewName
    <3>4. [name |-> NewName, online |-> TRUE, tag |-> t] \in DeviceStates
      BY <3>3 DEF DeviceStates
    <3>5. nDev' \in [Devs -> DeviceStates]
      BY <3>2, <3>4 DEF NTyped
    <3>6. nLocal' \in LocalStates /\ nLocal'.dev = d /\ nLocal'.cfg = nCfg /\ d # NoDev
      BY <3>2, NAssumption DEF LocalStates, NTyped, NoDev
    <3>7. NTyped'
      BY <2>1, <3>2, <3>5, <3>6 DEF NTyped
    <3>8. NStates'
      BY <2>1, <3>2, <3>6 DEF NStates, NTyped
    <3>9. NNameClaimed'
      <4>1. nDev'[d].name = NewName /\ \A c \in Devs \ {d} : nDev'[c] = nDev[c]
        BY <3>2 DEF NTyped
      <4>2. CASE NewName = "app"
        BY <2>1, <3>2, <4>1, <4>2 DEF NNameClaimed
      <4>3. ASSUME nClean, nForce, NewName # "app"
            PROVE  \E c \in Registered' \ {nMine'} : nDev'[c].name = "app" /\ nDev'[c].tag # nCfg'
        <5>1. PICK c \in Registered : nDev[c].name = "app"
          BY <4>3 DEF NewName
        <5>2. c \in Devs /\ c # d /\ nDev[c].tag # nCfg
          BY <2>1, <4>3, <5>1 DEF NClaims, Registered
        <5>3. nDev'[c] = nDev[c]
          BY <4>1, <5>2
        <5> QED BY <2>1, <3>2, <5>1, <5>2, <5>3 DEF Registered
      <4> QED BY <2>1, <4>2, <4>3 DEF NNameClaimed
    <3> QED BY <2>k, <3>7, <3>8, <3>9
  <2> QED BY <2>2, <2>3
<1>9. CASE NDown
  <2>1. /\ nPc' = "down" /\ nMine' = NoDev /\ nTodo' = {} /\ nDoomed' = NoDev /\ nKeep' = {}
        /\ nClean' = FALSE /\ nTries' = 0 /\ nCfg' \in NodeTags
        /\ nTorn' = (nTorn \/ nPc \in {"remove", "write"}) /\ nPc # "down"
        /\ UNCHANGED <<nLocal, nMeta, nDev, nForce>>
    BY <1>9 DEF NDown
  <2>2. NTyped'
    <3>1. nCfg' \in NodeTags /\ nTodo' \subseteq Listed /\ nKeep' \subseteq Devs /\ nTries' \in Nat
      BY <2>1
    <3>2. nClean' \in BOOLEAN /\ nTorn' \in BOOLEAN
      BY <2>1 DEF NTyped
    <3> QED BY <2>1, <3>1, <3>2 DEF NTyped
  <2>3. NKeeps' /\ NNameClaimed' /\ NClaims'
    BY <2>1 DEF NKeeps, NNameClaimed, NClaims
  <2>4. NAttempts'
    BY <2>1, NAssumption DEF NAttempts
  <2>5. NStates'
    BY <2>1 DEF NStates
  <2> QED BY <2>2, <2>3, <2>4, <2>5
<1>10. ASSUME NEW d \in Devs, NFlip(d) PROVE NInv'
  <2>1. /\ d \in Registered /\ d # nMine /\ nDev' = [nDev EXCEPT ![d].online = ~@]
        /\ nKeep' = IF nPc = "reconcile" /\ ~nDev[d].online /\ nDoomed # d
                    THEN nKeep \cup {d} ELSE nKeep \ {d}
        /\ UNCHANGED <<nCfg, nLocal, nMeta, nTorn, nPc, nForce, nTodo, nDoomed, nClean, nTries, nMine>>
    BY <1>10 DEF NFlip, disk
  <2> DEFINE x == [nDev[d] EXCEPT !.online = ~nDev[d].online]
  <2>2. /\ x \in DeviceStates /\ x.name = nDev[d].name /\ x.online = ~nDev[d].online
        /\ x.tag = nDev[d].tag
    BY <1>t DEF DeviceStates
  <2>3. nDev' = [nDev EXCEPT ![d] = x]
    BY <2>1
  <2> HIDE DEF x
  <2>4. nDev' \in [Devs -> DeviceStates] /\ \A c \in Devs : nDev'[c] = IF c = d THEN x ELSE nDev[c]
    BY <2>2, <2>3 DEF NTyped
  <2>5. \A c \in Devs : nDev'[c].name = nDev[c].name /\ nDev'[c].tag = nDev[c].tag
    BY <2>2, <2>4
  <2>6. NTyped'
    BY <2>1, <2>4 DEF NTyped
  <2>7. NStates' /\ NAttempts'
    BY <2>1 DEF NStates, NAttempts
  <2>8. NClaims'
    BY <2>1, <2>5 DEF NClaims
  <2>9. NNameClaimed'
    <3>1. nPc = "up" => nMine \in Devs
      BY DEF NStates, NTyped
    <3> QED BY <2>1, <2>5, <3>1 DEF NNameClaimed, Registered
  <2>10. NKeeps'
    <3>1. nPc # "reconcile" => nDoomed' = NoDev /\ nKeep' = {}
      BY <2>1 DEF NKeeps
    <3>2. ASSUME ~nForce, NEW c \in nKeep'
          PROVE  nDev'[c].name # "" /\ nDev'[c].online /\ c # nDoomed'
      <4>1. CASE c = d
        BY <2>1, <2>2, <2>4, <3>2, <4>1 DEF Registered
      <4>2. CASE c # d
        BY <2>1, <2>4, <3>2, <4>2 DEF NKeeps, NTyped
      <4> QED BY <4>1, <4>2
    <3> QED BY <2>1, <3>1, <3>2 DEF NKeeps
  <2> QED BY <2>6, <2>7, <2>8, <2>9, <2>10
<1>11. CASE UNCHANGED nvars
  <2>1. UNCHANGED <<nCfg, nLocal, nMeta, nTorn, nDev, nMine, nPc, nForce, nTodo, nDoomed, nKeep,
                    nClean, nTries>>
    BY <1>11 DEF nvars, disk, tailnet, reconciling
  <2>2. NTyped' /\ NStates'
    BY <2>1 DEF NTyped, NStates
  <2>3. NClaims' /\ NKeeps' /\ NAttempts'
    BY <2>1 DEF NClaims, NKeeps, NAttempts
  <2>4. NNameClaimed'
    BY <2>1 DEF NNameClaimed, Registered
  <2> QED BY <2>2, <2>3, <2>4
<1> QED BY <1>1, <1>2, <1>3, <1>4, <1>5, <1>6, <1>7, <1>8, <1>9, <1>10, <1>11, <1>a, <1>b DEF NNext

\* However runs end, files fail and devices come and go: a node comes up on
\* state of its own tags or of none, unless a failure or a crash has torn its
\* files; after a forced and clean reconciliation it gets its name, unless a
\* device without the tag has it; and a device that is back online is not
\* deleted, unless local state was lost (state_manager.go, device_reconciler.go).
THEOREM NodeSafety == NSpec => []NodeSafe
<1>1. NInv => NodeSafe
  <2> SUFFICES ASSUME NInv PROVE NodeSafe
    OBVIOUS
  <2>1. NStateMatches
    BY DEF NInv, NStates, NStateMatches
  <2>2. NOnlineKept
    BY DEF NInv, NKeeps, NTyped, NOnlineKept, Registered
  <2> QED BY <2>1, <2>2 DEF NInv, NAttempts, NodeSafe
<1> QED BY <1>1, NInitInv, NNextInv, PTL DEF NSpec

-----------------------------------------------------------------------------
(* The custom domain. *)

Phases == {"none", "pending", "active", "error"}

SetupPCs == {"new", "local", "url", "list", "create", "validate", "backoff",
             "provision", "delete", "deleting", "done"}
DownPCs == {"no", "wait", "tracker", "delete", "deleting", "close", "closetls", "done"}
Places == [setup : SetupPCs, down : DownPCs]
Statuses == [dns : Phases, tls : Phases]

\* What the variables hold.
DomTyped ==
  /\ domAt \in Places /\ domStatus \in Statuses /\ domTracked \in Statuses
  /\ domDNS \in {"none", "cloudflare", "magicdns"} /\ domTLS \in {"none", "tailscale", "acme"}
  /\ domRecs \subseteq {"old", Host} /\ domSeen \subseteq {"old", Host}
  /\ domExpiry \in {"none", "idle", "get", "gone"} /\ domCert \in BOOLEAN
  /\ domAlive \in BOOLEAN /\ domCleanup \in BOOLEAN
  /\ domOops \in BOOLEAN /\ domClosed \in BOOLEAN

\* Teardown cancels the context first and waits for the setup goroutine; the
\* goroutine works only with both providers there.
DomOrder ==
  /\ domAlive <=> domAt.down = "no"
  /\ domAt.down \notin {"no", "wait"} => domAt.setup = "done"
  /\ domDNS = "none" <=> domTLS = "none"
  /\ domAt.setup = "new" => domDNS = "none"
  /\ domAt.setup \notin {"new", "done"} => domDNS # "none"
  /\ domAt.setup \in {"list", "create"} => domDNS = "cloudflare"
  /\ "deleting" \in {domAt.setup, domAt.down} => domDNS = "cloudflare" /\ domCleanup

\* What the setup goroutine, or the deletion, has made of the records.
DomRecords ==
  /\ domAt.setup = "create" => domSeen = domRecs
  /\ (domAt.setup \in {"validate", "backoff", "provision"} /\ domDNS = "cloudflare") =>
       domRecs = {Host}
  /\ "deleting" \in {domAt.setup, domAt.down} => domSeen = domRecs

\* What it has announced.
DomAnnounced ==
  /\ domDNS = "none" => /\ domStatus.dns = "none" /\ domStatus.tls = "none"
                        /\ domTracked.dns = "none" /\ domTracked.tls = "none"
  /\ domAt.setup \in {"local", "url", "list", "create", "validate", "backoff"} =>
       domStatus.tls = "none"
  /\ domAt.setup = "provision" => /\ domStatus.dns = "active" /\ domStatus.tls = "pending"
                                  /\ domTracked.dns = "active" /\ domTracked.tls = "pending"
  /\ domStatus.tls = "active" => domCert /\ domAt.setup = "done"
  /\ domShake \in {"custom", "served"} => domCert

\* What Active means until the deletion begins.
DomActive ==
  domStatus.tls = "active" /\ domAt.down \in {"no", "wait", "tracker"} =>
    /\ domStatus.dns = "active" /\ domTracked.dns = "active" /\ domTracked.tls = "active"
    /\ domDNS = "cloudflare" => domRecs = {Host}

\* What teardown has taken down.
DomTorn ==
  /\ (domAt.down \in {"delete", "deleting", "close", "closetls", "done"} /\ domCleanup) =>
       domTracked.tls = "none"
  /\ domAt.down \in {"close", "closetls", "done"} =>
       /\ domStatus.dns = "none" /\ domStatus.tls = "none"
       /\ domCleanup /\ ~domOops =>
            domTracked.dns = "none" /\ (domDNS = "cloudflare" => domRecs = {})
  /\ domAt.down = "done" /\ domTLS = "acme" => domClosed

\* The inductive invariant, in terms of the fields.
DomInv ==
  /\ DomTyped /\ DomOrder /\ DomRecords /\ DomAnnounced /\ DomActive /\ DomTorn
  /\ RolledBack /\ TrackerQuiet

\* The two goroutines and the two statuses are changed a field at a time.
SetupAt(pc) == domAt' \in Places /\ domAt'.setup = pc /\ domAt'.down = domAt.down
DownAt(pc) == domAt' \in Places /\ domAt'.down = pc /\ domAt'.setup = domAt.setup
Status(d, t) == domStatus' \in Statuses /\ domStatus'.dns = d /\ domStatus'.tls = t
Tracked(d, t) == domTracked' \in Statuses /\ domTracked'.dns = d /\ domTracked'.tls = t

\* Goes moves the setup or the teardown.
LEMMA GoesAt ==
  ASSUME DomTyped
  PROVE  /\ \A pc \in SetupPCs : Goes("setup", pc) => SetupAt(pc)
         /\ \A pc \in DownPCs : Goes("down", pc) => DownAt(pc)
         /\ UNCHANGED domAt => SetupAt(domAt.setup) /\ DownAt(domAt.down)
         /\ domAt["setup"] = domAt.setup /\ domAt["down"] = domAt.down
  BY DEF DomTyped, Goes, SetupAt, DownAt, Places

\* What an assignment to a status field leaves.
LEMMA StatusSet ==
  ASSUME DomTyped
  PROVE  /\ \A p \in Phases : domStatus' = [domStatus EXCEPT !.dns = p] => Status(p, domStatus.tls)
         /\ \A p \in Phases : domStatus' = [domStatus EXCEPT !.tls = p] => Status(domStatus.dns, p)
         /\ \A p, q \in Phases : domStatus' = [dns |-> p, tls |-> q] => Status(p, q)
         /\ UNCHANGED domStatus => Status(domStatus.dns, domStatus.tls)
         /\ domStatus' = BothNone => Status("none", "none")
  BY DEF DomTyped, Status, Statuses, BothNone, Phases

\* What an assignment to the tracker's fields leaves.
LEMMA TrackedSet ==
  ASSUME DomTyped
  PROVE  /\ \A p \in Phases : domTracked' = [domTracked EXCEPT !.dns = p] => Tracked(p, domTracked.tls)
         /\ \A p \in Phases : domTracked' = [domTracked EXCEPT !.tls = p] => Tracked(domTracked.dns, p)
         /\ \A p, q \in Phases : domTracked' = [dns |-> p, tls |-> q] => Tracked(p, q)
         /\ UNCHANGED domTracked => Tracked(domTracked.dns, domTracked.tls)
  BY DEF DomTyped, Tracked, Statuses, Phases

\* The names that the definitions use are phases and places.
LEMMA Names ==
  /\ Phases = {"none", "pending", "active", "error"}
  /\ SetupPCs = {"new", "local", "url", "list", "create", "validate", "backoff",
                 "provision", "delete", "deleting", "done"}
  /\ DownPCs = {"no", "wait", "tracker", "delete", "deleting", "close", "closetls", "done"}
  BY DEF Phases, SetupPCs, DownPCs

\* Every step of setup and teardown keeps the invariant.
LEMMA DomNextInv == DomInv /\ [DomNext]_domvars => DomInv'
<1> SUFFICES ASSUME DomInv, [DomNext]_domvars PROVE DomInv'
  OBVIOUS
<1> USE DEF DomInv
<1>1. CASE DomConfigure
  <2>1. /\ domAt.setup = "new"
        /\ \/ /\ SetupAt("local") /\ domDNS' \in {"cloudflare", "magicdns"}
              /\ domTLS' \in {"tailscale", "acme"}
           \/ SetupAt("done") /\ domDNS' = "none" /\ domTLS' = "none"
        /\ UNCHANGED <<domCleanup, domSeen, domStatus, domTracked, domAlive,
                       domRecs, domCert, domExpiry, domShake, domClosed, domOops>>
    BY <1>1, GoesAt, StatusSet, TrackedSet, Names
      DEF DomTyped, DomConfigure, resolveDNSProvider, resolveTLSProvider, domSetup, domProxy, domOut
  <2>2. DomTyped' /\ DomOrder'
    BY <2>1, Names
      DEF DomTyped, DomOrder, SetupAt, DownAt, Status, Tracked
  <2>3. DomRecords' /\ DomAnnounced'
    BY <2>1, Names
      DEF DomTyped, DomOrder, DomRecords, DomAnnounced, SetupAt, DownAt, Status, Tracked
  <2>4. DomActive' /\ DomTorn'
    BY <2>1, Names
      DEF DomTyped, DomOrder, DomRecords, DomAnnounced, DomActive, DomTorn,
          SetupAt, DownAt, Status, Tracked
  <2>5. RolledBack' /\ TrackerQuiet'
    BY <2>1, Names
      DEF DomTyped, DomOrder, DomRecords, DomAnnounced, DomActive, DomTorn, RolledBack,
          TrackerQuiet, SetupAt, DownAt, Status, Tracked
  <2> QED BY <2>2, <2>3, <2>4, <2>5
<1>2. CASE DomLocalClient
  <2>1. /\ domAt.setup = "local" 
        /\ SetupAt("done") \/ SetupAt("url")
        /\ UNCHANGED <<domDNS, domTLS, domCleanup, domSeen, domStatus, domTracked,
                       domAlive, domRecs, domCert, domExpiry, domShake, domClosed, domOops>>
    BY <1>2, GoesAt, StatusSet, TrackedSet, Names
      DEF DomTyped, DomLocalClient, domSetup, domProxy, domOut
  <2>2. DomTyped' /\ DomOrder'
    BY <2>1, Names
      DEF DomTyped, DomOrder, SetupAt, DownAt, Status, Tracked
  <2>3. DomRecords' /\ DomAnnounced'
    BY <2>1, Names
      DEF DomTyped, DomOrder, DomRecords, DomAnnounced, SetupAt, DownAt, Status, Tracked
  <2>4. DomActive' /\ DomTorn'
    BY <2>1, Names
      DEF DomTyped, DomOrder, DomRecords, DomAnnounced, DomActive, DomTorn,
          SetupAt, DownAt, Status, Tracked
  <2>5. RolledBack' /\ TrackerQuiet'
    BY <2>1, Names
      DEF DomTyped, DomOrder, DomRecords, DomAnnounced, DomActive, DomTorn, RolledBack,
          TrackerQuiet, SetupAt, DownAt, Status, Tracked
  <2> QED BY <2>2, <2>3, <2>4, <2>5
<1>3. CASE DomWaitForURL
  <2>1. /\ domAt.setup = "url"
        /\ \/ /\ SetupAt(IF domDNS = "magicdns" THEN "validate" ELSE "list")
              /\ Status("pending", domStatus.tls) /\ Tracked("pending", domTracked.tls)
           \/ SetupAt("done") /\ UNCHANGED <<domStatus, domTracked>>
        /\ UNCHANGED <<domDNS, domTLS, domCleanup, domSeen, domAlive,
                       domRecs, domCert, domExpiry, domShake, domClosed, domOops>>
    BY <1>3, GoesAt, StatusSet, TrackedSet, Names
      DEF DomTyped, DomWaitForURL, domSetup, domProxy, domOut
  <2>2. DomTyped' /\ DomOrder'
    BY <2>1, Names
      DEF DomTyped, DomOrder, SetupAt, DownAt, Status, Tracked
  <2>3. DomRecords' /\ DomAnnounced'
    BY <2>1, Names
      DEF DomTyped, DomOrder, DomRecords, DomAnnounced, SetupAt, DownAt, Status, Tracked
  <2>4. DomActive' /\ DomTorn'
    BY <2>1, Names
      DEF DomTyped, DomOrder, DomRecords, DomAnnounced, DomActive, DomTorn,
          SetupAt, DownAt, Status, Tracked
  <2>5. RolledBack' /\ TrackerQuiet'
    BY <2>1, Names
      DEF DomTyped, DomOrder, DomRecords, DomAnnounced, DomActive, DomTorn, RolledBack,
          TrackerQuiet, SetupAt, DownAt, Status, Tracked
  <2> QED BY <2>2, <2>3, <2>4, <2>5
<1>4. CASE DomList
  <2>1. /\ domAt.setup = "list"
        /\ \/ SetupAt("create") /\ domSeen' = domRecs /\ UNCHANGED <<domStatus, domTracked>>
           \/ SetupAt("done") /\ Status("error", domStatus.tls) /\ Tracked("error", domTracked.tls) /\ domSeen' = {}
        /\ UNCHANGED <<domDNS, domTLS, domCleanup, domAlive, domRecs,
                       domCert, domExpiry, domShake, domClosed, domOops>>
    BY <1>4, GoesAt, StatusSet, TrackedSet, Names
      DEF DomTyped, DomList, DNSFails, domSetup, domProxy, domOut
  <2>2. DomTyped' /\ DomOrder'
    BY <2>1, Names
      DEF DomTyped, DomOrder, SetupAt, DownAt, Status, Tracked
  <2>3. DomRecords' /\ DomAnnounced'
    BY <2>1, Names
      DEF DomTyped, DomOrder, DomRecords, DomAnnounced, SetupAt, DownAt, Status, Tracked
  <2>4. DomActive' /\ DomTorn'
    BY <2>1, Names
      DEF DomTyped, DomOrder, DomRecords, DomAnnounced, DomActive, DomTorn,
          SetupAt, DownAt, Status, Tracked
  <2>5. RolledBack' /\ TrackerQuiet'
    BY <2>1, Names
      DEF DomTyped, DomOrder, DomRecords, DomAnnounced, DomActive, DomTorn, RolledBack,
          TrackerQuiet, SetupAt, DownAt, Status, Tracked
  <2> QED BY <2>2, <2>3, <2>4, <2>5
<1>5. CASE DomDropStale
  <2>1. /\ domAt.setup = "create"
        /\ \E r \in domSeen \ {Host} :
             \/ /\ domRecs' = domRecs \ {r} /\ domSeen' = domSeen \ {r}
                /\ UNCHANGED <<domAt, domStatus, domTracked>>
             \/ /\ domRecs' \in {domRecs, domRecs \ {r}} /\ domSeen' = {}
                /\ SetupAt("done") /\ Status("error", domStatus.tls) /\ Tracked("error", domTracked.tls)
        /\ UNCHANGED <<domDNS, domTLS, domCleanup, domAlive,
                       domCert, domExpiry, domShake, domClosed, domOops>>
    BY <1>5, GoesAt, StatusSet, TrackedSet, Names
      DEF DomTyped, DomDropStale, DNSFails, domSetup, domProxy, domOut
  <2>2. DomTyped' /\ DomOrder'
    BY <2>1, Names, ZenonT(30)
      DEF DomTyped, DomOrder, SetupAt, DownAt, Status, Tracked
  <2>3. DomRecords' /\ DomAnnounced'
    BY <2>1, Names
      DEF DomTyped, DomOrder, DomRecords, DomAnnounced, SetupAt, DownAt, Status, Tracked
  <2>4. DomActive' /\ DomTorn'
    BY <2>1, Names
      DEF DomTyped, DomOrder, DomRecords, DomAnnounced, DomActive, DomTorn,
          SetupAt, DownAt, Status, Tracked
  <2>5. RolledBack' /\ TrackerQuiet'
    BY <2>1, Names
      DEF DomTyped, DomOrder, DomRecords, DomAnnounced, DomActive, DomTorn, RolledBack,
          TrackerQuiet, SetupAt, DownAt, Status, Tracked
  <2> QED BY <2>2, <2>3, <2>4, <2>5
<1>6. CASE DomCreate
  <2>1. /\ domAt.setup = "create" /\ domSeen \subseteq {Host} /\ domSeen' = {}
        /\ \/ /\ domRecs' = domRecs \cup {Host} /\ SetupAt("validate")
              /\ UNCHANGED <<domStatus, domTracked>>
           \/ /\ domRecs' \in {domRecs, domRecs \cup {Host}}
              /\ SetupAt("done") /\ Status("error", domStatus.tls) /\ Tracked("error", domTracked.tls)
        /\ UNCHANGED <<domDNS, domTLS, domCleanup, domAlive,
                       domCert, domExpiry, domShake, domClosed, domOops>>
    BY <1>6, GoesAt, StatusSet, TrackedSet, Names
      DEF DomTyped, DomCreate, DNSFails, domSetup, domProxy, domOut
  <2>2. DomTyped'
    BY <2>1, Names, ZenonT(30)
      DEF DomTyped, SetupAt, DownAt, Status, Tracked
  <2>3. DomOrder'
    BY <2>1, Names
      DEF DomTyped, DomOrder, SetupAt, DownAt, Status, Tracked
  <2>4. DomRecords'
    BY <2>1, Names
      DEF DomTyped, DomOrder, DomRecords, SetupAt, DownAt, Status, Tracked
  <2>5. DomAnnounced'
    BY <2>1, Names
      DEF DomTyped, DomOrder, DomAnnounced, SetupAt, DownAt, Status, Tracked
  <2>6. DomActive'
    BY <2>1, Names
      DEF DomTyped, DomOrder, DomRecords, DomAnnounced, DomActive, DomTorn, RolledBack,
          TrackerQuiet, SetupAt, DownAt, Status, Tracked
  <2>7. DomTorn'
    BY <2>1, Names
      DEF DomTyped, DomOrder, DomRecords, DomAnnounced, DomActive, DomTorn, RolledBack,
          TrackerQuiet, SetupAt, DownAt, Status, Tracked
  <2>8. RolledBack'
    BY <2>1, Names
      DEF DomTyped, DomOrder, DomRecords, DomAnnounced, DomActive, DomTorn, RolledBack,
          TrackerQuiet, SetupAt, DownAt, Status, Tracked
  <2>9. TrackerQuiet'
    BY <2>1, Names
      DEF DomTyped, DomOrder, DomRecords, DomAnnounced, DomActive, DomTorn, RolledBack,
          TrackerQuiet, SetupAt, DownAt, Status, Tracked
  <2> QED BY <2>2, <2>3, <2>4, <2>5, <2>6, <2>7, <2>8, <2>9
<1>7. CASE DomValidate
  <2>1. /\ domAt.setup = "validate"
        /\ \/ SetupAt("provision") /\ Status("active", "pending") /\ Tracked("active", "pending")
           \/ SetupAt("backoff") /\ UNCHANGED <<domStatus, domTracked>>
           \/ SetupAt("done") /\ Status("error", domStatus.tls) /\ Tracked("error", domTracked.tls)
        /\ UNCHANGED <<domDNS, domTLS, domCleanup, domSeen, domAlive,
                       domRecs, domCert, domExpiry, domShake, domClosed, domOops>>
    BY <1>7, GoesAt, StatusSet, TrackedSet, Names
      DEF DomTyped, DomValidate, DNSFails, domSetup, domProxy, domOut
  <2>2. DomTyped' /\ DomOrder'
    BY <2>1, Names
      DEF DomTyped, DomOrder, SetupAt, DownAt, Status, Tracked
  <2>3. DomRecords' /\ DomAnnounced'
    BY <2>1, Names
      DEF DomTyped, DomOrder, DomRecords, DomAnnounced, SetupAt, DownAt, Status, Tracked
  <2>4. DomActive' /\ DomTorn'
    BY <2>1, Names
      DEF DomTyped, DomOrder, DomRecords, DomAnnounced, DomActive, DomTorn,
          SetupAt, DownAt, Status, Tracked
  <2>5. RolledBack' /\ TrackerQuiet'
    BY <2>1, Names
      DEF DomTyped, DomOrder, DomRecords, DomAnnounced, DomActive, DomTorn, RolledBack,
          TrackerQuiet, SetupAt, DownAt, Status, Tracked
  <2> QED BY <2>2, <2>3, <2>4, <2>5
<1>8. CASE DomBackoff
  <2>1. /\ domAt.setup = "backoff"
        /\ \/ SetupAt("validate") /\ UNCHANGED <<domStatus, domTracked>>
           \/ SetupAt("done") /\ Status("error", domStatus.tls) /\ Tracked("error", domTracked.tls)
        /\ UNCHANGED <<domDNS, domTLS, domCleanup, domSeen, domAlive,
                       domRecs, domCert, domExpiry, domShake, domClosed, domOops>>
    BY <1>8, GoesAt, StatusSet, TrackedSet, Names
      DEF DomTyped, DomBackoff, DNSFails, domSetup, domProxy, domOut
  <2>2. DomTyped' /\ DomOrder'
    BY <2>1, Names
      DEF DomTyped, DomOrder, SetupAt, DownAt, Status, Tracked
  <2>3. DomRecords' /\ DomAnnounced'
    BY <2>1, Names
      DEF DomTyped, DomOrder, DomRecords, DomAnnounced, SetupAt, DownAt, Status, Tracked
  <2>4. DomActive' /\ DomTorn'
    BY <2>1, Names
      DEF DomTyped, DomOrder, DomRecords, DomAnnounced, DomActive, DomTorn,
          SetupAt, DownAt, Status, Tracked
  <2>5. RolledBack' /\ TrackerQuiet'
    BY <2>1, Names
      DEF DomTyped, DomOrder, DomRecords, DomAnnounced, DomActive, DomTorn, RolledBack,
          TrackerQuiet, SetupAt, DownAt, Status, Tracked
  <2> QED BY <2>2, <2>3, <2>4, <2>5
<1>9. CASE DomProvision
  <2>0. domStatus.dns \in Phases
    BY DEF DomTyped, Statuses
  <2>1. /\ domAt.setup = "provision"
        /\ \/ /\ domCert' = TRUE /\ SetupAt("done") /\ domExpiry' \in {"idle", "none"}
              /\ Status(domStatus.dns, "active") /\ Tracked(domTracked.dns, "active")
           \/ /\ SetupAt(IF domAlive THEN "delete" ELSE "done") /\ UNCHANGED <<domCert, domExpiry>>
              /\ Status(IF domAlive THEN domStatus.dns ELSE "error", "error")
              /\ Tracked(domTracked.dns, "error")
        /\ UNCHANGED <<domDNS, domTLS, domCleanup, domSeen,
                       domAlive, domRecs, domShake, domClosed, domOops>>
    BY <1>9, <2>0, GoesAt, StatusSet, TrackedSet, Names
      DEF DomTyped, DomProvision, domSetup, domProxy, domOut
  <2>2. DomTyped' /\ DomOrder'
    BY <2>1, Names
      DEF DomTyped, DomOrder, SetupAt, DownAt, Status, Tracked
  <2>3. DomRecords' /\ DomAnnounced'
    BY <2>1, Names
      DEF DomTyped, DomOrder, DomRecords, DomAnnounced, SetupAt, DownAt, Status, Tracked
  <2>4. DomActive' /\ DomTorn'
    BY <2>1, Names
      DEF DomTyped, DomOrder, DomRecords, DomAnnounced, DomActive, DomTorn,
          SetupAt, DownAt, Status, Tracked
  <2>5. RolledBack' /\ TrackerQuiet'
    BY <2>1, Names
      DEF DomTyped, DomOrder, DomRecords, DomAnnounced, DomActive, DomTorn, RolledBack,
          TrackerQuiet, SetupAt, DownAt, Status, Tracked
  <2> QED BY <2>2, <2>3, <2>4, <2>5
<1>10. CASE DomCleanupDNS("setup")
  <2>1. /\ domAt.setup = "delete"
        /\ \/ /\ domDNS = "none" \/ ~domCleanup
              /\ SetupAt("done") /\ Status("error", domStatus.tls)
              /\ UNCHANGED <<domTracked, domSeen, domOops>>
           \/ /\ domDNS = "magicdns" /\ domCleanup
              /\ SetupAt("done") /\ Status("error", domStatus.tls)
              /\ Tracked("none", domTracked.tls) /\ UNCHANGED <<domSeen, domOops>>
           \/ /\ domDNS = "cloudflare" /\ domCleanup /\ UNCHANGED domTracked
              /\ \/ domSeen' = domRecs /\ SetupAt("deleting") /\ UNCHANGED <<domStatus, domOops>>
                 \/ SetupAt("done") /\ Status("error", domStatus.tls) /\ domOops' = TRUE /\ UNCHANGED domSeen
        /\ UNCHANGED <<domDNS, domTLS, domCleanup, domAlive,
                       domRecs, domCert, domExpiry, domShake, domClosed>>
    BY <1>10, GoesAt, StatusSet, TrackedSet, Names
      DEF DomTyped, DomCleanupDNS, Deleted, domSetup, domProxy, domOut
  <2>2. DomTyped'
    BY <2>1, Names
      DEF DomTyped, SetupAt, DownAt, Status, Tracked
  <2>3. DomOrder'
    BY <2>1, Names
      DEF DomTyped, DomOrder, SetupAt, DownAt, Status, Tracked
  <2>4. DomRecords'
    BY <2>1, Names
      DEF DomTyped, DomOrder, DomRecords, SetupAt, DownAt, Status, Tracked
  <2>5. DomAnnounced'
    BY <2>1, Names
      DEF DomTyped, DomOrder, DomAnnounced, SetupAt, DownAt, Status, Tracked
  <2>6. DomActive'
    BY <2>1, Names
      DEF DomTyped, DomOrder, DomRecords, DomAnnounced, DomActive, DomTorn, RolledBack,
          TrackerQuiet, SetupAt, DownAt, Status, Tracked
  <2>7. DomTorn'
    BY <2>1, Names
      DEF DomTyped, DomOrder, DomRecords, DomAnnounced, DomActive, DomTorn, RolledBack,
          TrackerQuiet, SetupAt, DownAt, Status, Tracked
  <2>8. RolledBack'
    BY <2>1, Names
      DEF DomTyped, DomOrder, DomRecords, DomAnnounced, DomActive, DomTorn, RolledBack,
          TrackerQuiet, SetupAt, DownAt, Status, Tracked
  <2>9. TrackerQuiet'
    BY <2>1, Names
      DEF DomTyped, DomOrder, DomRecords, DomAnnounced, DomActive, DomTorn, RolledBack,
          TrackerQuiet, SetupAt, DownAt, Status, Tracked
  <2> QED BY <2>2, <2>3, <2>4, <2>5, <2>6, <2>7, <2>8, <2>9
<1>11. CASE DomDeleteRecord("setup")
  <2>1. /\ domAt.setup = "deleting"
        /\ \/ /\ domSeen = {} /\ SetupAt("done") /\ Status("error", domStatus.tls)
              /\ Tracked("none", domTracked.tls) /\ UNCHANGED <<domSeen, domRecs, domOops>>
           \/ \E r \in domSeen :
                \/ /\ domRecs' = domRecs \ {r} /\ domSeen' = domSeen \ {r}
                   /\ UNCHANGED <<domAt, domStatus, domTracked, domOops>>
                \/ /\ domRecs' \in {domRecs, domRecs \ {r}} /\ domSeen' = {} /\ domOops' = TRUE
                   /\ SetupAt("done") /\ Status("error", domStatus.tls) /\ UNCHANGED domTracked
        /\ UNCHANGED <<domDNS, domTLS, domCleanup, domAlive,
                       domCert, domExpiry, domShake, domClosed>>
    BY <1>11, GoesAt, StatusSet, TrackedSet, Names
      DEF DomTyped, DomDeleteRecord, Deleted, domSetup, domProxy, domOut
  <2>2. DomTyped' /\ DomOrder'
    BY <2>1, Names
      DEF DomTyped, DomOrder, SetupAt, DownAt, Status, Tracked
  <2>3. DomRecords' /\ DomAnnounced'
    BY <2>1, Names
      DEF DomTyped, DomOrder, DomRecords, DomAnnounced, SetupAt, DownAt, Status, Tracked
  <2>4. DomActive' /\ DomTorn'
    BY <2>1, Names
      DEF DomTyped, DomOrder, DomRecords, DomAnnounced, DomActive, DomTorn,
          SetupAt, DownAt, Status, Tracked
  <2>5. RolledBack' /\ TrackerQuiet'
    BY <2>1, Names
      DEF DomTyped, DomOrder, DomRecords, DomAnnounced, DomActive, DomTorn, RolledBack,
          TrackerQuiet, SetupAt, DownAt, Status, Tracked
  <2> QED BY <2>2, <2>3, <2>4, <2>5
<1>12. CASE DomCleanupDNS("down")
  <2>1. /\ domAt.down = "delete"
        /\ \/ /\ domDNS = "none" \/ ~domCleanup
              /\ DownAt("close") /\ Status("none", "none")
              /\ UNCHANGED <<domTracked, domSeen, domOops>>
           \/ /\ domDNS = "magicdns" /\ domCleanup
              /\ DownAt("close") /\ Status("none", "none")
              /\ Tracked("none", domTracked.tls) /\ UNCHANGED <<domSeen, domOops>>
           \/ /\ domDNS = "cloudflare" /\ domCleanup /\ UNCHANGED domTracked
              /\ \/ domSeen' = domRecs /\ DownAt("deleting") /\ UNCHANGED <<domStatus, domOops>>
                 \/ DownAt("close") /\ Status("none", "none") /\ domOops' = TRUE /\ UNCHANGED domSeen
        /\ UNCHANGED <<domDNS, domTLS, domCleanup, domAlive,
                       domRecs, domCert, domExpiry, domShake, domClosed>>
    BY <1>12, GoesAt, StatusSet, TrackedSet, Names
      DEF DomTyped, DomCleanupDNS, Deleted, domSetup, domProxy, domOut
  <2>2. DomTyped' /\ DomOrder'
    BY <2>1, Names
      DEF DomTyped, DomOrder, SetupAt, DownAt, Status, Tracked
  <2>3. DomRecords' /\ DomAnnounced'
    BY <2>1, Names
      DEF DomTyped, DomOrder, DomRecords, DomAnnounced, SetupAt, DownAt, Status, Tracked
  <2>4. DomActive' /\ DomTorn'
    BY <2>1, Names
      DEF DomTyped, DomOrder, DomRecords, DomAnnounced, DomActive, DomTorn,
          SetupAt, DownAt, Status, Tracked
  <2>5. RolledBack' /\ TrackerQuiet'
    BY <2>1, Names
      DEF DomTyped, DomOrder, DomRecords, DomAnnounced, DomActive, DomTorn, RolledBack,
          TrackerQuiet, SetupAt, DownAt, Status, Tracked
  <2> QED BY <2>2, <2>3, <2>4, <2>5
<1>13. CASE DomDeleteRecord("down")
  <2>1. /\ domAt.down = "deleting"
        /\ \/ /\ domSeen = {} /\ DownAt("close") /\ Status("none", "none")
              /\ Tracked("none", domTracked.tls) /\ UNCHANGED <<domSeen, domRecs, domOops>>
           \/ \E r \in domSeen :
                \/ /\ domRecs' = domRecs \ {r} /\ domSeen' = domSeen \ {r}
                   /\ UNCHANGED <<domAt, domStatus, domTracked, domOops>>
                \/ /\ domRecs' \in {domRecs, domRecs \ {r}} /\ domSeen' = {} /\ domOops' = TRUE
                   /\ DownAt("close") /\ Status("none", "none") /\ UNCHANGED domTracked
        /\ UNCHANGED <<domDNS, domTLS, domCleanup, domAlive,
                       domCert, domExpiry, domShake, domClosed>>
    BY <1>13, GoesAt, StatusSet, TrackedSet, Names
      DEF DomTyped, DomDeleteRecord, Deleted, domSetup, domProxy, domOut
  <2>2. DomTyped' /\ DomOrder'
    BY <2>1, Names
      DEF DomTyped, DomOrder, SetupAt, DownAt, Status, Tracked
  <2>3. DomRecords' /\ DomAnnounced'
    BY <2>1, Names
      DEF DomTyped, DomOrder, DomRecords, DomAnnounced, SetupAt, DownAt, Status, Tracked
  <2>4. DomActive' /\ DomTorn'
    BY <2>1, Names
      DEF DomTyped, DomOrder, DomRecords, DomAnnounced, DomActive, DomTorn,
          SetupAt, DownAt, Status, Tracked
  <2>5. RolledBack' /\ TrackerQuiet'
    BY <2>1, Names
      DEF DomTyped, DomOrder, DomRecords, DomAnnounced, DomActive, DomTorn, RolledBack,
          TrackerQuiet, SetupAt, DownAt, Status, Tracked
  <2> QED BY <2>2, <2>3, <2>4, <2>5
<1>14. CASE DomTick
  <2>1. /\ \/ domExpiry = "idle" /\ domExpiry' = "get"
           \/ domExpiry = "get" /\ domExpiry' = "idle"
        /\ UNCHANGED <<domDNS, domTLS, domCleanup, domAt, domSeen, domStatus,
                       domTracked, domAlive, domRecs, domCert, domShake, domClosed, domOops>>
    BY <1>14, GoesAt, StatusSet, TrackedSet, Names
      DEF DomTyped, DomTick, domSetup, domProxy, domOut
  <2>2. DomTyped' /\ DomOrder'
    BY <2>1, Names
      DEF DomTyped, DomOrder, SetupAt, DownAt, Status, Tracked
  <2>3. DomRecords' /\ DomAnnounced'
    BY <2>1, Names
      DEF DomTyped, DomOrder, DomRecords, DomAnnounced, SetupAt, DownAt, Status, Tracked
  <2>4. DomActive' /\ DomTorn'
    BY <2>1, Names
      DEF DomTyped, DomOrder, DomRecords, DomAnnounced, DomActive, DomTorn,
          SetupAt, DownAt, Status, Tracked
  <2>5. RolledBack' /\ TrackerQuiet'
    BY <2>1, Names
      DEF DomTyped, DomOrder, DomRecords, DomAnnounced, DomActive, DomTorn, RolledBack,
          TrackerQuiet, SetupAt, DownAt, Status, Tracked
  <2> QED BY <2>2, <2>3, <2>4, <2>5
<1>15. CASE DomTrackerEnds
  <2>1. /\ domExpiry = "idle" /\ domExpiry' = "gone"
        /\ UNCHANGED <<domDNS, domTLS, domCleanup, domAt, domSeen, domStatus,
                       domTracked, domAlive, domRecs, domCert, domShake, domClosed, domOops>>
    BY <1>15, GoesAt, StatusSet, TrackedSet, Names
      DEF DomTyped, DomTrackerEnds, domSetup, domProxy, domOut
  <2>2. DomTyped' /\ DomOrder'
    BY <2>1, Names
      DEF DomTyped, DomOrder, SetupAt, DownAt, Status, Tracked
  <2>3. DomRecords' /\ DomAnnounced'
    BY <2>1, Names
      DEF DomTyped, DomOrder, DomRecords, DomAnnounced, SetupAt, DownAt, Status, Tracked
  <2>4. DomActive' /\ DomTorn'
    BY <2>1, Names
      DEF DomTyped, DomOrder, DomRecords, DomAnnounced, DomActive, DomTorn,
          SetupAt, DownAt, Status, Tracked
  <2>5. RolledBack' /\ TrackerQuiet'
    BY <2>1, Names
      DEF DomTyped, DomOrder, DomRecords, DomAnnounced, DomActive, DomTorn, RolledBack,
          TrackerQuiet, SetupAt, DownAt, Status, Tracked
  <2> QED BY <2>2, <2>3, <2>4, <2>5
<1>16. CASE DomTeardown
  <2>1. /\ domAt.down = "no" /\ domAlive' = FALSE /\ DownAt("wait")
        /\ UNCHANGED <<domDNS, domTLS, domCleanup, domSeen, domStatus, domTracked,
                       domRecs, domCert, domExpiry, domShake, domClosed, domOops>>
    BY <1>16, GoesAt, StatusSet, TrackedSet, Names
      DEF DomTyped, DomTeardown, domSetup, domProxy, domOut
  <2>2. DomTyped'
    BY <2>1, Names
      DEF DomTyped, SetupAt, DownAt, Status, Tracked
  <2>3. DomOrder'
    BY <2>1, Names
      DEF DomTyped, DomOrder, SetupAt, DownAt, Status, Tracked
  <2>4. DomRecords'
    BY <2>1, Names
      DEF DomTyped, DomOrder, DomRecords, SetupAt, DownAt, Status, Tracked
  <2>5. DomAnnounced'
    BY <2>1, Names
      DEF DomTyped, DomOrder, DomAnnounced, SetupAt, DownAt, Status, Tracked
  <2>6. DomActive'
    BY <2>1, Names
      DEF DomTyped, DomOrder, DomRecords, DomAnnounced, DomActive, DomTorn, RolledBack,
          TrackerQuiet, SetupAt, DownAt, Status, Tracked
  <2>7. DomTorn'
    BY <2>1, Names
      DEF DomTyped, DomOrder, DomRecords, DomAnnounced, DomActive, DomTorn, RolledBack,
          TrackerQuiet, SetupAt, DownAt, Status, Tracked
  <2>8. RolledBack'
    BY <2>1, Names
      DEF DomTyped, DomOrder, DomRecords, DomAnnounced, DomActive, DomTorn, RolledBack,
          TrackerQuiet, SetupAt, DownAt, Status, Tracked
  <2>9. TrackerQuiet'
    BY <2>1, Names
      DEF DomTyped, DomOrder, DomRecords, DomAnnounced, DomActive, DomTorn, RolledBack,
          TrackerQuiet, SetupAt, DownAt, Status, Tracked
  <2> QED BY <2>2, <2>3, <2>4, <2>5, <2>6, <2>7, <2>8, <2>9
<1>17. CASE DomSetupDone
  <2>1. /\ domAt.down = "wait" /\ domAt.setup = "done" /\ DownAt("tracker")
        /\ UNCHANGED <<domDNS, domTLS, domCleanup, domSeen, domStatus, domTracked,
                       domAlive, domRecs, domCert, domExpiry, domShake, domClosed, domOops>>
    BY <1>17, GoesAt, StatusSet, TrackedSet, Names
      DEF DomTyped, DomSetupDone, domSetup, domProxy, domOut
  <2>2. DomTyped' /\ DomOrder'
    BY <2>1, Names
      DEF DomTyped, DomOrder, SetupAt, DownAt, Status, Tracked
  <2>3. DomRecords' /\ DomAnnounced'
    BY <2>1, Names
      DEF DomTyped, DomOrder, DomRecords, DomAnnounced, SetupAt, DownAt, Status, Tracked
  <2>4. DomActive' /\ DomTorn'
    BY <2>1, Names
      DEF DomTyped, DomOrder, DomRecords, DomAnnounced, DomActive, DomTorn,
          SetupAt, DownAt, Status, Tracked
  <2>5. RolledBack' /\ TrackerQuiet'
    BY <2>1, Names
      DEF DomTyped, DomOrder, DomRecords, DomAnnounced, DomActive, DomTorn, RolledBack,
          TrackerQuiet, SetupAt, DownAt, Status, Tracked
  <2> QED BY <2>2, <2>3, <2>4, <2>5
<1>18. CASE DomTrackerStopped
  <2>0. domTracked.tls \in Phases /\ domTracked.dns \in Phases
    BY DEF DomTyped, Statuses
  <2>1. /\ domAt.down = "tracker" /\ domExpiry \in {"none", "gone"} /\ DownAt("delete")
        /\ Tracked(domTracked.dns, IF domTLS # "none" /\ domCleanup THEN "none" ELSE domTracked.tls)
        /\ UNCHANGED <<domDNS, domTLS, domCleanup, domSeen, domStatus, domAlive,
                       domRecs, domCert, domExpiry, domShake, domClosed, domOops>>
    BY <1>18, <2>0, GoesAt, StatusSet, TrackedSet, Names
      DEF DomTyped, DomTrackerStopped, CleanupTLS, domSetup, domProxy, domOut
  <2>2. DomTyped' /\ DomOrder'
    BY <2>1, Names
      DEF DomTyped, DomOrder, SetupAt, DownAt, Status, Tracked
  <2>3. DomRecords' /\ DomAnnounced'
    BY <2>1, Names
      DEF DomTyped, DomOrder, DomRecords, DomAnnounced, SetupAt, DownAt, Status, Tracked
  <2>4. DomActive' /\ DomTorn'
    BY <2>1, Names
      DEF DomTyped, DomOrder, DomRecords, DomAnnounced, DomActive, DomTorn,
          SetupAt, DownAt, Status, Tracked
  <2>5. RolledBack' /\ TrackerQuiet'
    BY <2>1, Names
      DEF DomTyped, DomOrder, DomRecords, DomAnnounced, DomActive, DomTorn, RolledBack,
          TrackerQuiet, SetupAt, DownAt, Status, Tracked
  <2> QED BY <2>2, <2>3, <2>4, <2>5
<1>19. CASE DomClose
  <2>1. /\ domAt.down = "close" /\ DownAt("closetls")
        /\ UNCHANGED <<domDNS, domTLS, domCleanup, domSeen, domStatus, domTracked,
                       domAlive, domRecs, domCert, domExpiry, domShake, domClosed, domOops>>
    BY <1>19, GoesAt, StatusSet, TrackedSet, Names
      DEF DomTyped, DomClose, domSetup, domProxy, domOut
  <2>2. DomTyped' /\ DomOrder'
    BY <2>1, Names
      DEF DomTyped, DomOrder, SetupAt, DownAt, Status, Tracked
  <2>3. DomRecords' /\ DomAnnounced'
    BY <2>1, Names
      DEF DomTyped, DomOrder, DomRecords, DomAnnounced, SetupAt, DownAt, Status, Tracked
  <2>4. DomActive' /\ DomTorn'
    BY <2>1, Names
      DEF DomTyped, DomOrder, DomRecords, DomAnnounced, DomActive, DomTorn,
          SetupAt, DownAt, Status, Tracked
  <2>5. RolledBack' /\ TrackerQuiet'
    BY <2>1, Names
      DEF DomTyped, DomOrder, DomRecords, DomAnnounced, DomActive, DomTorn, RolledBack,
          TrackerQuiet, SetupAt, DownAt, Status, Tracked
  <2> QED BY <2>2, <2>3, <2>4, <2>5
<1>20. CASE DomCloseTLS
  <2>1. /\ domAt.down = "closetls" /\ DownAt("done") /\ domClosed' = (domTLS = "acme")
        /\ UNCHANGED <<domDNS, domTLS, domCleanup, domSeen, domStatus, domTracked,
                       domAlive, domRecs, domCert, domExpiry, domShake, domOops>>
    BY <1>20, GoesAt, StatusSet, TrackedSet, Names
      DEF DomTyped, DomCloseTLS, domSetup, domProxy, domOut
  <2>2. DomTyped' /\ DomOrder'
    BY <2>1, Names
      DEF DomTyped, DomOrder, SetupAt, DownAt, Status, Tracked
  <2>3. DomRecords' /\ DomAnnounced'
    BY <2>1, Names
      DEF DomTyped, DomOrder, DomRecords, DomAnnounced, SetupAt, DownAt, Status, Tracked
  <2>4. DomActive' /\ DomTorn'
    BY <2>1, Names
      DEF DomTyped, DomOrder, DomRecords, DomAnnounced, DomActive, DomTorn,
          SetupAt, DownAt, Status, Tracked
  <2>5. RolledBack' /\ TrackerQuiet'
    BY <2>1, Names
      DEF DomTyped, DomOrder, DomRecords, DomAnnounced, DomActive, DomTorn, RolledBack,
          TrackerQuiet, SetupAt, DownAt, Status, Tracked
  <2> QED BY <2>2, <2>3, <2>4, <2>5
<1>21. CASE DomHandshake
  <2>1. /\ \/ domShake' = (IF domStatus.tls = "active" THEN "custom" ELSE "tailscale")
           \/ domShake = "custom" /\ domShake' \in {"served", "tailscale"}
           \/ domShake' = "none"
        /\ UNCHANGED <<domDNS, domTLS, domCleanup, domAt, domSeen, domStatus,
                       domTracked, domAlive, domRecs, domCert, domExpiry, domClosed, domOops>>
    BY <1>21, GoesAt, StatusSet, TrackedSet, Names
      DEF DomTyped, DomHandshake, domSetup, domProxy, domOut
  <2>2. DomTyped' /\ DomOrder'
    BY <2>1, Names
      DEF DomTyped, DomOrder, SetupAt, DownAt, Status, Tracked
  <2>3. DomRecords' /\ DomAnnounced'
    BY <2>1, Names
      DEF DomTyped, DomOrder, DomRecords, DomAnnounced, SetupAt, DownAt, Status, Tracked
  <2>4. DomActive' /\ DomTorn'
    BY <2>1, Names
      DEF DomTyped, DomOrder, DomRecords, DomAnnounced, DomActive, DomTorn,
          SetupAt, DownAt, Status, Tracked
  <2>5. RolledBack' /\ TrackerQuiet'
    BY <2>1, Names
      DEF DomTyped, DomOrder, DomRecords, DomAnnounced, DomActive, DomTorn, RolledBack,
          TrackerQuiet, SetupAt, DownAt, Status, Tracked
  <2> QED BY <2>2, <2>3, <2>4, <2>5
<1>22. CASE DomNodeUp \/ UNCHANGED domvars
  <2>1. UNCHANGED <<domDNS, domTLS, domCleanup, domAt, domSeen, domStatus, domTracked, domAlive,
                    domRecs, domCert, domExpiry, domShake, domClosed, domOops>>
    BY <1>22 DEF DomNodeUp, domvars, domSetup, domProxy, domOut
  <2> QED BY <2>1
    DEF DomTyped, DomOrder, DomRecords, DomAnnounced, DomActive, DomTorn, RolledBack,
                     TrackerQuiet
<1> QED BY <1>1, <1>2, <1>3, <1>4, <1>5, <1>6, <1>7, <1>8, <1>9, <1>10, <1>11, <1>12, <1>13,
           <1>14, <1>15, <1>16, <1>17, <1>18, <1>19, <1>20, <1>21, <1>22
  DEF DomNext

\* It holds of a domain nobody has set up yet.
LEMMA DomInitInv == DomInit => DomInv
<1> SUFFICES ASSUME DomInit PROVE DomInv
  OBVIOUS
<1>1. domAt \in Places /\ domAt.setup = "new" /\ domAt.down = "no"
  BY DEF DomInit, Places, SetupPCs, DownPCs
<1>2. /\ domStatus \in Statuses /\ domStatus.dns = "none" /\ domStatus.tls = "none"
      /\ domTracked \in Statuses /\ domTracked.dns = "none" /\ domTracked.tls = "none"
  BY DEF DomInit, Statuses, Phases, BothNone
<1>3. DomTyped
  BY <1>1, <1>2 DEF DomInit, DomTyped
<1> QED
  BY <1>1, <1>2, <1>3
    DEF DomInit, DomInv, DomOrder, DomRecords, DomAnnounced, DomActive, DomTorn,
                          RolledBack, TrackerQuiet

\* At whatever point of the setup teardown, a failure or a handshake comes: what
\* is announced is there, a failed setup takes its record back, and of a proxy that
\* is torn down no tracker is left, nor a record, unless clean-up is disabled or a
\* deletion failed (domain.go, proxytls.go).
THEOREM DomainSafety == DomSpec => []DomainSafe
<1>1. DomInv => DomainSafe
  <2> SUFFICES ASSUME DomInv PROVE DomainSafe
    OBVIOUS
  <2>1. /\ domStatus = [dns |-> domStatus.dns, tls |-> domStatus.tls]
        /\ domTracked = [dns |-> domTracked.dns, tls |-> domTracked.tls]
    BY DEF DomInv, DomTyped, Statuses
  <2>2. ActiveIsReachable
    BY <2>1 DEF DomInv, DomAnnounced, DomActive, ActiveIsReachable
  <2>3. DomainGone
    BY <2>1 DEF DomInv, DomTorn, DomainGone, BothNone
  <2> QED BY <2>2, <2>3 DEF DomInv, DomainSafe
<1> QED BY <1>1, DomInitInv, DomNextInv, PTL DEF DomSpec

=============================================================================
