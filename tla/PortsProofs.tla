----------------------------- MODULE PortsProofs -----------------------------
(***************************************************************************)
(* Proofs about the ports of a proxy: TCPPort, HTTPPort and UDPPort.  A    *)
(* port's semaphore is a counter of its own, so the argument is in each    *)
(* case that the counter is the cardinality of the set of connections that *)
(* hold a slot, and that this set changes by one element at a time.  The   *)
(* sets of connections need not be finite: finitely many of them hold a    *)
(* slot at any time, which is part of the invariant.                       *)
(*                                                                         *)
(* And about what a port keeps up to a limit (BoundedBuffers).  The rate   *)
(* limiters' invariant is the property itself: of two clients in the list  *)
(* the first has asked later, and a request keeps the order of the others. *)
(* The log's is that the page a reader will have seen is in order, ends    *)
(* with the last line and announces its gaps; a write leaves a page that   *)
(* is the old one less what the drain lost, perhaps a marker, and a line.  *)
(***************************************************************************)
EXTENDS TCPPort, HTTPPort, UDPPort, BoundedBuffers, FiniteSetTheorems, SequenceTheorems, TLAPS

-----------------------------------------------------------------------------
(* Slots. *)

\* A slot is taken by one that had none (the send on p.sem).
LEMMA SlotTaken ==
  ASSUME NEW S, NEW T, NEW x, IsFiniteSet(S), x \notin S, T = S \cup {x}
  PROVE  /\ IsFiniteSet(T) /\ Cardinality(T) = Cardinality(S) + 1
         /\ Cardinality(S) \in Nat
  BY FS_AddElement, FS_CardinalityType

\* A slot is given back by one that had it (the receive from p.sem).
LEMMA SlotGiven ==
  ASSUME NEW S, NEW T, NEW x, IsFiniteSet(S), x \in S, T = S \ {x}
  PROVE  /\ IsFiniteSet(T) /\ Cardinality(T) = Cardinality(S) - 1
         /\ Cardinality(S) \in Nat
  BY FS_RemoveElement, FS_CardinalityType

-----------------------------------------------------------------------------
(* A sequence that lists a set, each element once. *)

Lists(q, S) ==
  /\ q \in Seq(S)
  /\ \A x \in S : \E i \in 1 .. Len(q) : q[i] = x
  /\ \A i, j \in 1 .. Len(q) : q[i] = q[j] => i = j

\* A sequence is one over every set that holds its elements.
LEMMA SeqOver ==
  ASSUME NEW S, NEW T, NEW q \in Seq(S), \A i \in 1 .. Len(q) : q[i] \in T
  PROVE  q \in Seq(T)
<1>1. Len(q) \in Nat /\ q \in [1 .. Len(q) -> T]
  BY LenProperties
<1> QED
  BY <1>1, SeqDef, Zenon

\* It is as long as the set is large.
LEMMA ListsCardinality ==
  ASSUME NEW S, NEW q, Lists(q, S)
  PROVE  IsFiniteSet(S) /\ Cardinality(S) = Len(q) /\ Len(q) \in Nat
<1>1. Len(q) \in Nat /\ q \in [1 .. Len(q) -> S]
  BY LenProperties DEF Lists
<1>2. q \in Bijection(1 .. Len(q), S)
  BY <1>1 DEF Lists, Bijection, Injection, Surjection, IsInjective
<1>3. ExistsBijection(1 .. Len(q), S)
  BY <1>2 DEF ExistsBijection
<1> QED
  BY <1>1, <1>3, FS_CountingElements, FS_NatBijection

\* A new element at the end.
LEMMA ListsAppend ==
  ASSUME NEW S, NEW q, Lists(q, S), NEW x, x \notin S
  PROVE  Lists(Append(q, x), S \cup {x}) /\ Len(Append(q, x)) = Len(q) + 1
<1> DEFINE T == S \cup {x}
<1>1. q \in Seq(T) /\ Len(q) \in Nat
  BY DEF Lists
<1>2. /\ Append(q, x) \in Seq(T) /\ Len(Append(q, x)) = Len(q) + 1
      /\ \A i \in 1 .. Len(q) : Append(q, x)[i] = q[i]
      /\ Append(q, x)[Len(q) + 1] = x
  BY <1>1
<1>3. \A i \in 1 .. Len(q) : q[i] \in S
  BY DEF Lists
<1> QED
  BY <1>1, <1>2, <1>3, SMTT(30) DEF Lists

\* The first element leaves.
LEMMA ListsTail ==
  ASSUME NEW S, NEW q, Lists(q, S), q # <<>>
  PROVE  /\ Head(q) \in S
         /\ Lists(Tail(q), S \ {Head(q)}) /\ Len(Tail(q)) = Len(q) - 1
<1> DEFINE T == S \ {Head(q)}
<1>1. /\ Len(q) \in Nat \ {0} /\ Head(q) = q[1] /\ Len(Tail(q)) = Len(q) - 1
      /\ \A i \in 1 .. Len(q) - 1 : Tail(q)[i] = q[i + 1]
      /\ Tail(q) \in Seq(S)
  BY DEF Lists
<1>2. \A i \in 1 .. Len(q) - 1 : q[i + 1] \in T
  BY <1>1 DEF Lists
<1>3. Tail(q) \in Seq(T)
  BY <1>1, <1>2, SeqOver
<1>4. \A y \in T : \E i \in 1 .. Len(Tail(q)) : Tail(q)[i] = y
  <2> TAKE y \in T
  <2>1. PICK i \in 1 .. Len(q) : q[i] = y
    BY DEF Lists
  <2>2. i # 1 /\ i - 1 \in 1 .. Len(Tail(q)) /\ Tail(q)[i - 1] = y
    BY <1>1, <2>1
  <2> QED
    BY <2>2
<1> QED
  BY <1>1, <1>3, <1>4 DEF Lists

\* An element leaves, wherever it is.
LEMMA ListsRemoveAt ==
  ASSUME NEW S, NEW q, Lists(q, S), NEW k \in 1 .. Len(q)
  PROVE  /\ Lists(RemoveAt(q, k), S \ {q[k]})
         /\ Len(RemoveAt(q, k)) = Len(q) - 1
<1> DEFINE T == S \ {q[k]}  a == SubSeq(q, 1, k - 1)  b == SubSeq(q, k + 1, Len(q))
           r == RemoveAt(q, k)
<1>1. q \in Seq(S) /\ Len(q) \in Nat
  BY DEF Lists
<1>2. /\ a \in Seq(S) /\ Len(a) = k - 1
      /\ \A i \in 1 .. k - 1 : a[i] = q[i]
  BY <1>1, SubSeqProperties
<1>3. /\ b \in Seq(S) /\ Len(b) = Len(q) - k
      /\ \A i \in 1 .. Len(q) - k : b[i] = q[k + i]
  BY <1>1, SubSeqProperties
<1>4. /\ r \in Seq(S) /\ Len(r) = Len(q) - 1
      /\ \A i \in 1 .. Len(r) : r[i] = IF i < k THEN q[i] ELSE q[i + 1]
  <2>1. r = a \o b
    BY DEF RemoveAt
  <2> HIDE DEF a, b, r
  <2>2. /\ r \in Seq(S) /\ Len(r) = Len(a) + Len(b)
        /\ \A i \in 1 .. Len(a) + Len(b) : r[i] = IF i <= Len(a) THEN a[i] ELSE b[i - Len(a)]
    <3>1. a \in Seq(S) /\ b \in Seq(S)
      BY <1>2, <1>3
    <3> QED
      BY <2>1, <3>1, ConcatProperties
  <2>3. Len(r) = Len(q) - 1
    BY <1>1, <1>2, <1>3, <2>2
  <2>4. ASSUME NEW i \in 1 .. Len(r), i < k
        PROVE  r[i] = q[i]
    BY <1>1, <1>2, <2>2, <2>3, <2>4
  <2>5. ASSUME NEW i \in 1 .. Len(r), ~(i < k)
        PROVE  r[i] = q[i + 1]
    <3>1. i - Len(a) \in 1 .. Len(q) - k /\ k + (i - Len(a)) = i + 1 /\ ~(i <= Len(a))
      BY <1>1, <1>2, <2>3, <2>5
    <3>2. r[i] = b[i - Len(a)]
      BY <1>1, <1>2, <1>3, <2>2, <2>3, <3>1
    <3> QED
      BY <1>3, <3>1, <3>2
  <2> QED
    BY <1>1, <2>2, <2>3, <2>4, <2>5
<1> HIDE DEF a, b, r
<1>5. \A i \in 1 .. Len(r) : r[i] \in T
  <2> TAKE i \in 1 .. Len(r)
  <2>1. PICK j \in 1 .. Len(q) : j # k /\ r[i] = q[j]
    <3>1. CASE i < k
      BY <1>1, <1>4, <3>1
    <3>2. CASE ~(i < k)
      BY <1>1, <1>4, <3>2
    <3> QED
      BY <3>1, <3>2
  <2> QED
    BY <1>1, <2>1, ElementOfSeq DEF Lists
<1>6. r \in Seq(T)
  BY <1>4, <1>5, SeqOver
<1>7. \A y \in T : \E i \in 1 .. Len(r) : r[i] = y
  <2> TAKE y \in T
  <2>1. PICK i \in 1 .. Len(q) : q[i] = y
    BY DEF Lists
  <2>2. CASE i < k
    BY <1>1, <1>4, <2>1, <2>2
  <2>3. CASE ~(i < k)
    <3>1. i # k /\ i - 1 \in 1 .. Len(r) /\ r[i - 1] = y
      BY <1>1, <1>4, <2>1, <2>3
    <3> QED
      BY <3>1
  <2> QED
    BY <2>2, <2>3
<1>8. \A i, j \in 1 .. Len(r) : r[i] = r[j] => i = j
  <2> DEFINE at(i) == IF i < k THEN i ELSE i + 1
  <2>1. \A i \in 1 .. Len(r) : at(i) \in 1 .. Len(q) /\ r[i] = q[at(i)]
    BY <1>1, <1>4
  <2>2. \A i, j \in 1 .. Len(r) : at(i) = at(j) => i = j
    BY <1>1, <1>4
  <2>3. \A i, j \in 1 .. Len(q) : q[i] = q[j] => i = j
    BY DEF Lists
  <2> HIDE DEF at
  <2> QED
    BY <2>1, <2>2, <2>3
<1> QED
  BY <1>4, <1>6, <1>7, <1>8 DEF Lists, r

-----------------------------------------------------------------------------
(* The TCP port. *)

\* What keeps TCPSafe: slots are counted, the retries of a loop that sleeps are
\* not used up, a port that has not started or whose loop has drained handles
\* nothing, and close has canceled the context before it looks at started.
TPhase ==
  /\ tCtx \in BOOLEAN /\ tStarted \in BOOLEAN
  /\ tStarted <=> tServe # "new"
  /\ tServe = "sleep" => tRetries < TMaxRetries
  /\ tServe \in {"new", "ended"} => Handled = {}
  /\ tClose \in {"started", "wait", "returned"} => tCtx
  /\ tClose = "wait" => tStarted
  /\ tClose = "returned" => tServe \in {"new", "ended"}

TSlots == IsFiniteSet(Handled) /\ tSem = Cardinality(Handled) /\ tSem <= TMaxConns

TInv == TTypeOK /\ TPhase /\ TSlots

\* The invariant of a TCP port holds at first.
LEMMA TInitInv == TInit => TInv
<1> SUFFICES ASSUME TInit PROVE TInv
  OBVIOUS
<1>1. Handled = {}
  BY DEF TInit, Handled
<1>2. TTypeOK
  BY TMaxConnsAssumption DEF TInit, TTypeOK
<1>3. TPhase
  BY <1>1, Zenon DEF TInit, TPhase
<1>4. TSlots
  BY <1>1, FS_EmptySet, TMaxConnsAssumption DEF TInit, TSlots
<1> QED
  BY <1>2, <1>3, <1>4 DEF TInv

\* A handler that leaves "dial" or "half" for "closed" gives its slot back.
LEMMA TGiveBack ==
  ASSUME TInv, NEW c \in TConns, tConn[c] \in {"dial", "half"},
         tConn' = [tConn EXCEPT ![c] = "closed"], tSem' = tSem - 1,
         UNCHANGED <<tCtx, tListener, tStarted, tServe, tRetries, tClose>>
  PROVE  TInv'
<1>1. c \in Handled /\ Handled' = Handled \ {c}
  BY DEF TInv, TTypeOK, Handled
<1>2. TSlots'
  BY <1>1, SlotGiven, TMaxConnsAssumption DEF TInv, TSlots
<1>3. TTypeOK' /\ TPhase'
  BY <1>1 DEF TInv, TTypeOK, TPhase
<1> QED
  BY <1>2, <1>3 DEF TInv

\* Every step of a TCP port keeps it.
LEMMA TStep == TInv /\ [TNext]_tvars => TInv'
<1> SUFFICES ASSUME TInv, [TNext]_tvars PROVE TInv'
  OBVIOUS
<1> USE DEF TInv, TTypeOK
<1>1. CASE TStart
  <2>1. Handled' = Handled
    BY <1>1 DEF TStart, Handled
  <2> QED
    BY <1>1, <2>1 DEF TStart, TPhase, TSlots
<1>2. CASE TAcceptFails
  <2>1. Handled' = Handled
    BY <1>2 DEF TAcceptFails, Handled
  <2> QED
    BY <1>2, <2>1 DEF TAcceptFails, TPhase, TSlots
<1>3. CASE TSleepEnds
  <2>1. Handled' = Handled
    BY <1>3 DEF TSleepEnds, Handled
  <2> QED
    BY <1>3, <2>1, TMaxConnsAssumption DEF TSleepEnds, TPhase, TSlots
<1>4. CASE TContextCloses
  <2>1. Handled' = Handled
    BY <1>4 DEF TContextCloses, Handled
  <2> QED
    BY <1>4, <2>1 DEF TContextCloses, TPhase, TSlots
<1>5. CASE TServeEnds
  <2>1. Handled' = Handled
    BY <1>5 DEF TServeEnds, Handled
  <2> QED
    BY <1>5, <2>1 DEF TServeEnds, TPhase, TSlots
<1>6. CASE TCloseListener
  <2>1. Handled' = Handled
    BY <1>6 DEF TCloseListener, Handled
  <2> QED
    BY <1>6, <2>1 DEF TCloseListener, TPhase, TSlots
<1>7. CASE TCancel
  <2>1. Handled' = Handled
    BY <1>7 DEF TCancel, Handled
  <2> QED
    BY <1>7, <2>1 DEF TCancel, TPhase, TSlots
<1>8. CASE TCloseReturns
  <2>1. Handled' = Handled
    BY <1>8 DEF TCloseReturns, Handled
  <2> QED
    BY <1>8, <2>1 DEF TCloseReturns, TPhase, TSlots
<1>9. ASSUME NEW c \in TConns, TAccept(c)
      PROVE  TInv'
  <2>1. CASE tSem < TMaxConns
    <3>1. c \notin Handled /\ Handled' = Handled \cup {c}
      BY <1>9, <2>1 DEF TAccept, Handled
    <3>2. TSlots'
      BY <1>9, <2>1, <3>1, SlotTaken, TMaxConnsAssumption DEF TAccept, TSlots
    <3> QED
      BY <1>9, <2>1, <3>1, <3>2, TMaxConnsAssumption DEF TAccept, TPhase
  <2>2. CASE ~(tSem < TMaxConns)
    <3>1. Handled' = Handled
      BY <1>9, <2>2 DEF TAccept, Handled
    <3> QED
      BY <1>9, <2>2, <3>1, TMaxConnsAssumption DEF TAccept, TPhase, TSlots
  <2> QED
    BY <2>1, <2>2
<1>10. ASSUME NEW c \in TConns, TDial(c)
       PROVE  TInv'
  <2>1. CASE tConn' = [tConn EXCEPT ![c] = "copy"] /\ UNCHANGED tSem
    <3>1. Handled' = Handled
      BY <1>10, <2>1 DEF TDial, Handled
    <3> QED
      BY <1>10, <2>1, <3>1 DEF TDial, TPhase, TSlots
  <2>2. CASE tConn' = [tConn EXCEPT ![c] = "closed"] /\ tSem' = tSem - 1
    BY <1>10, <2>2, TGiveBack DEF TDial
  <2> QED
    BY <1>10, <2>1, <2>2 DEF TDial
<1>11. ASSUME NEW c \in TConns, TFirstEnds(c)
       PROVE  TInv'
  <2>1. Handled' = Handled
    BY <1>11 DEF TFirstEnds, Handled
  <2> QED
    BY <1>11, <2>1 DEF TFirstEnds, TPhase, TSlots
<1>12. ASSUME NEW c \in TConns, TSecondEnds(c)
       PROVE  TInv'
  BY <1>12, TGiveBack DEF TSecondEnds
<1>13. CASE UNCHANGED tvars
  <2>1. Handled' = Handled
    BY <1>13 DEF tvars, Handled
  <2> QED
    BY <1>13, <2>1 DEF tvars, TPhase, TSlots
<1> QED
  BY <1>1, <1>2, <1>3, <1>4, <1>5, <1>6, <1>7, <1>8, <1>9, <1>10, <1>11, <1>12,
     <1>13 DEF TNext

\* Whatever the number of connections, the size of the semaphore and the order
\* of start, failures and close: p.sem counts the connections handled, never
\* more than allowed, and a TCP port whose close has returned is quiet
\* (port_tcp.go, serve, handleConn, close).
THEOREM TCPSafety == TSpec => []TCPSafe
<1>1. TInv => TCPSafe
  BY FS_EmptySet DEF TInv, TPhase, TSlots, TCPSafe, TClosedIsQuiet, TSlotsCounted
<1> QED
  BY <1>1, TInitInv, TStep, PTL DEF TSpec

-----------------------------------------------------------------------------
(* The HTTP port. *)

\* What keeps HTTPSafe: Accept holds a connection exactly while it waits for a
\* slot; a server that is shut down has woken the Accept of a registered
\* listener; and a Serve that has ended has closed its listener.
HPhase ==
  /\ hCtx \in BOOLEAN /\ hDone \in BOOLEAN /\ hShut \in BOOLEAN /\ hTracked \in BOOLEAN
  /\ hServe # "slot" => hTaken = {}
  /\ hServe = "slot" => \E c \in HConns : hTaken = {c} /\ hConn[c] = "taken"
  /\ hServe \in {"accept", "slot"} => hTracked = TRUE
  /\ hClose # "idle" => hShut = TRUE
  /\ hShut = TRUE /\ hTracked = TRUE => hDone = TRUE
  /\ hServe = "ended" => hListener = "closed"

HKinds ==
  /\ hListener \in {"given", "open", "closed"}
  /\ hServe \in {"new", "serve", "accept", "slot", "close", "ended"}
  /\ hConn \in [HConns -> {"out", "taken", "active", "idle", "half", "closed"}]
  /\ hClose \in {"idle", "serve", "conns", "cancel", "returned"}

HSlots == IsFiniteSet(Holding) /\ hSem = Cardinality(Holding) /\ hSem <= HMaxConns

HInv == HKinds /\ HPhase /\ HSlots

\* The invariant of an HTTP port holds at first.
LEMMA HInitInv == HInit => HInv
<1> SUFFICES ASSUME HInit PROVE HInv
  OBVIOUS
<1>1. Holding = {}
  BY DEF HInit, Holding
<1>2. HKinds
  BY DEF HInit, HKinds
<1>3. HPhase
  BY Zenon DEF HInit, HPhase
<1>4. HSlots
  BY <1>1, FS_EmptySet, HMaxConnsAssumption DEF HInit, HSlots
<1> QED
  BY <1>2, <1>3, <1>4 DEF HInv

\* Every step of an HTTP port keeps it.
LEMMA HStep == HInv /\ [HNext]_hvars => HInv'
<1> SUFFICES ASSUME HInv, [HNext]_hvars PROVE HInv'
  OBVIOUS
<1> USE DEF HInv, HKinds
<1>1. CASE HStart
  <2>1. Holding' = Holding
    BY <1>1 DEF HStart, Holding
  <2> QED
    BY <1>1, <2>1 DEF HStart, HPhase, HSlots
<1>2. CASE HServe
  <2>1. Holding' = Holding
    BY <1>2 DEF HServe, Holding
  <2> QED
    BY <1>2, <2>1 DEF HServe, HPhase, HSlots
<1>3. CASE HSlot
  <2>1. PICK c \in HConns : hTaken = {c} /\ hConn[c] = "taken"
    BY <1>3 DEF HSlot, HPhase
  <2>2. CASE /\ hSem < HMaxConns
             /\ hSem' = hSem + 1 /\ hConn' = [hConn EXCEPT ![c] = "active"]
             /\ hServe' = "accept"
    <3>1. c \notin Holding /\ Holding' = Holding \cup {c}
      BY <2>1, <2>2 DEF Holding
    <3>2. HSlots'
      BY <2>2, <3>1, SlotTaken, HMaxConnsAssumption DEF HSlots
    <3> QED
      BY <1>3, <2>1, <2>2, <3>2 DEF HSlot, HPhase
  <2>3. CASE /\ hDone
             /\ hConn' = [hConn EXCEPT ![c] = "closed"]
             /\ hServe' = "close" /\ UNCHANGED hSem
    <3>1. Holding' = Holding
      BY <2>1, <2>3 DEF Holding
    <3> QED
      BY <1>3, <2>1, <2>3, <3>1 DEF HSlot, HPhase, HSlots
  <2> QED
    BY <1>3, <2>1, <2>2, <2>3 DEF HSlot
<1>4. CASE HServeReturns
  <2>1. Holding' = Holding
    BY <1>4 DEF HServeReturns, Holding
  <2> QED
    BY <1>4, <2>1 DEF HServeReturns, HPhase, HSlots
<1>5. ASSUME NEW c \in HConns, HAccept(c)
      PROVE  HInv'
  <2>1. Holding' = Holding
    BY <1>5 DEF HAccept, Holding
  <2> QED
    BY <1>5, <2>1 DEF HAccept, HPhase, HSlots
<1>6. ASSUME NEW c \in HConns, HRequest(c)
      PROVE  HInv'
  <2>1. Holding' = Holding
    BY <1>6 DEF HRequest, Holding
  <2> QED
    BY <1>6, <2>1 DEF HRequest, HPhase, HSlots
<1>7. ASSUME NEW c \in HConns, HConnClose(c)
      PROVE  HInv'
  <2>1. c \in Holding /\ Holding' = Holding \ {c}
    BY <1>7 DEF HConnClose, Holding
  <2>2. HSlots'
    BY <1>7, <2>1, SlotGiven, HMaxConnsAssumption DEF HConnClose, HSlots
  <2> QED
    BY <1>7, <2>2 DEF HConnClose, HPhase, Holding
<1>8. ASSUME NEW c \in HConns, HConnCloseAgain(c)
      PROVE  HInv'
  <2>1. Holding' = Holding
    BY <1>8 DEF HConnCloseAgain, Holding
  <2> QED
    BY <1>8, <2>1 DEF HConnCloseAgain, HPhase, HSlots
<1>9. CASE HShutdown
  <2>1. Holding' = Holding
    BY <1>9 DEF HShutdown, Holding
  <2> QED
    BY <1>9, <2>1 DEF HShutdown, HPhase, HSlots
<1>10. CASE HServeGone
  <2>1. Holding' = Holding
    BY <1>10 DEF HServeGone, Holding
  <2> QED
    BY <1>10, <2>1 DEF HServeGone, HPhase, HSlots
<1>11. CASE HConnsGone
  <2>1. Holding' = Holding
    BY <1>11 DEF HConnsGone, Holding
  <2> QED
    BY <1>11, <2>1 DEF HConnsGone, HPhase, HSlots
<1>12. CASE HCancel
  <2>1. Holding' = Holding
    BY <1>12 DEF HCancel, Holding
  <2> QED
    BY <1>12, <2>1 DEF HCancel, HPhase, HSlots
<1>13. CASE UNCHANGED hvars
  <2>1. Holding' = Holding
    BY <1>13 DEF hvars, Holding
  <2> QED
    BY <1>13, <2>1 DEF hvars, HPhase, HSlots
<1> QED
  BY <1>1, <1>2, <1>3, <1>4, <1>5, <1>6, <1>7, <1>8, <1>9, <1>10, <1>11, <1>12,
     <1>13 DEF HNext

\* For any set of clients and any MaxHTTPConns: the slots of an HTTP port are
\* the connections its server holds, Shutdown never waits for an Accept that
\* waits for a slot, and when close and startWithListener have both returned
\* the listener is closed (port_http.go, limitedListener, startWithListener,
\* close).
THEOREM HTTPSafety == HSpec => []HTTPSafe
<1>1. HInv => HTTPSafe
  <2> SUFFICES ASSUME HInv PROVE HTTPSafe
    OBVIOUS
  <2>1. hTaken \subseteq HConns /\ Cardinality(hTaken) <= 1
    <3>1. CASE hServe = "slot"
      <4>1. PICK c \in HConns : hTaken = {c}
        BY <3>1 DEF HInv, HPhase
      <4>2. Cardinality({c}) = 1
        BY FS_Singleton, Zenon
      <4> QED
        BY <4>1, <4>2
    <3>2. CASE hServe # "slot"
      <4>1. hTaken = {}
        BY <3>2 DEF HInv, HPhase
      <4> QED
        BY <4>1, FS_EmptySet
    <3> QED
      BY <3>1, <3>2
  <2>2. hSem \in 0 .. HMaxConns
    BY FS_CardinalityType, HMaxConnsAssumption DEF HInv, HSlots
  <2>3. HSlotsCounted /\ HClosedIsQuiet /\ HWakes
    BY DEF HInv, HKinds, HPhase, HSlots, HSlotsCounted, HClosedIsQuiet, HWakes
  <2> QED
    BY <2>1, <2>2, <2>3 DEF HInv, HKinds, HTypeOK, HTTPSafe
<1> QED
  BY <1>1, HInitInv, HStep, PTL DEF HSpec

-----------------------------------------------------------------------------
(* The UDP port. *)

UKinds ==
  /\ UTypeOK
  /\ uCtx \in BOOLEAN /\ uStarted \in BOOLEAN /\ uWatch \in {"none", "wait", "ended"}
  /\ uPacket \in [from : Clients \cup {0}, session : 0 .. UMaxSessions]
  /\ uOwner \in [Sessions -> Clients \cup {0}]

\* A session in the map is its client's and its copying goroutine has not come
\* to forget it; a goroutine that ends has closed its socket; only the reading
\* goroutine enters sessions, so the client it dials for is not in the map.
USessions ==
  /\ \A c \in Clients : uMap[c] # 0 =>
       uOwner[uMap[c]] = c /\ uRelay[uMap[c]] \in {"run", "forget"}
  /\ \A s \in Sessions :
       /\ uConn[s] = "none" => uRelay[s] = "none"
       /\ uRelay[s] # "none" => uOwner[s] \in Clients
       /\ uRelay[s] \in {"forget", "ended"} => uConn[s] = "closed"
       /\ uConn[s] = "open" => uOwner[s] \in Clients
  /\ uServe \in {"lookup", "dial", "install"} => uPacket.from \in Clients
  /\ uServe \in {"dial", "install"} => uMap[uPacket.from] = 0
  /\ uServe = "install" =>
       /\ uPacket.session \in Sessions /\ uConn[uPacket.session] = "open"
       /\ uOwner[uPacket.session] = uPacket.from /\ uRelay[uPacket.session] = "none"
  /\ NoLostSession

UPhase ==
  /\ uStarted = (uServe # "new")
  /\ uServe = "new" => uSocket = "given" /\ \A s \in Sessions : uConn[s] = "none"
  /\ uSocket = "open" => uWatch = "wait"
  /\ uWatch = "wait" => uServe # "new"
  /\ uClose \in {"started", "wait", "returned"} => uCtx = TRUE
  /\ uClose = "returned" => /\ uServe \in {"new", "ended"} /\ uWatch # "wait"
                            /\ \A s \in Sessions : uRelay[s] \in {"none", "ended"}

UOrder == Lists(uSeen, Known) /\ Len(uSeen) <= UMaxClients

UInv == UKinds /\ USessions /\ UPhase /\ UOrder

\* The invariant of a UDP port holds at first.
LEMMA UInitInv == UInit => UInv
<1> SUFFICES ASSUME UInit PROVE UInv
  OBVIOUS
<1>1. UKinds
  <2>1. 0 \in 0 .. UMaxSessions
    BY UAssumption
  <2>2. UTypeOK
    BY <2>1 DEF UInit, UTypeOK
  <2>3. uPacket \in [from : Clients \cup {0}, session : 0 .. UMaxSessions]
    BY <2>1 DEF UInit, NoPacket
  <2> QED
    BY <2>2, <2>3, Zenon DEF UInit, UKinds
<1>2. USessions
  BY DEF UInit, USessions, NoLostSession
<1>3. UPhase
  BY DEF UInit, UPhase
<1>4. Known = {} /\ uSeen = <<>>
  BY DEF UInit, Known
<1>5. UOrder
  BY <1>4, UAssumption DEF UOrder, Lists
<1> QED
  BY <1>1, <1>2, <1>3, <1>5 DEF UInv

\* Steps that leave the map alone leave its order alone.
LEMMA UOrderKept ==
  ASSUME UInv, UNCHANGED <<uMap, uSeen>>
  PROVE  UOrder'
<1>1. Known' = Known
  BY DEF Known
<1> QED
  BY <1>1 DEF UInv, UOrder

\* A client that is seen again moves to the end (ULookup); one that is not in
\* the map is put there (UInstall).
LEMMA USeenLists ==
  ASSUME UInv, NEW c \in Clients
  PROVE  /\ Lists(Seen(c), Known \cup {c}) /\ Seen(c) # <<>>
         /\ c \notin Known => Seen(c) = Append(uSeen, c)
         /\ Len(Seen(c)) = IF c \in Known THEN Len(uSeen) ELSE Len(uSeen) + 1
<1>1. Lists(uSeen, Known) /\ Len(uSeen) \in Nat /\ DOMAIN uSeen = 1 .. Len(uSeen)
  BY LenProperties DEF UInv, UOrder, Lists
<1>2. ToSet(uSeen) = Known
  BY <1>1, ElementOfSeq DEF ToSet, Lists
<1>3. CASE c \in Known
  <2> DEFINE k == CHOOSE k \in DOMAIN uSeen : uSeen[k] = c
  <2>1. k \in 1 .. Len(uSeen) /\ uSeen[k] = c
    BY <1>1, <1>3 DEF Lists
  <2>2. Unseen(c) = RemoveAt(uSeen, k)
    BY <1>2, <1>3 DEF Unseen
  <2> HIDE DEF k
  <2>3. Lists(Unseen(c), Known \ {c}) /\ Len(Unseen(c)) = Len(uSeen) - 1
    <3>1. /\ Lists(RemoveAt(uSeen, k), Known \ {uSeen[k]})
          /\ Len(RemoveAt(uSeen, k)) = Len(uSeen) - 1
      BY <1>1, <2>1, ListsRemoveAt, Zenon
    <3> QED
      BY <2>1, <2>2, <3>1, Zenon
  <2>4. Lists(Seen(c), (Known \ {c}) \cup {c}) /\ Len(Seen(c)) = Len(Unseen(c)) + 1
    BY <2>3, ListsAppend DEF Seen
  <2>5. (Known \ {c}) \cup {c} = Known \cup {c}
    OBVIOUS
  <2>6. Len(Seen(c)) = Len(uSeen)
    BY <1>1, <2>3, <2>4
  <2>7. Seen(c) # <<>>
    BY <2>4 DEF Lists
  <2> QED
    BY <1>3, <2>4, <2>5, <2>6, <2>7
<1>4. CASE c \notin Known
  <2>1. Seen(c) = Append(uSeen, c)
    BY <1>2, <1>4 DEF Seen, Unseen
  <2>2. Lists(Seen(c), Known \cup {c}) /\ Len(Seen(c)) = Len(uSeen) + 1
    BY <1>1, <1>4, <2>1, ListsAppend
  <2>3. Seen(c) # <<>>
    BY <2>2 DEF Lists
  <2> QED
    BY <1>4, <2>1, <2>2, <2>3
<1> QED
  BY <1>3, <1>4

\* A client that leaves the map leaves the order (UForget).
LEMMA UUnseenLists ==
  ASSUME UInv, NEW c \in Known
  PROVE  Lists(Unseen(c), Known \ {c}) /\ Len(Unseen(c)) = Len(uSeen) - 1
<1>1. Lists(uSeen, Known) /\ Len(uSeen) \in Nat /\ DOMAIN uSeen = 1 .. Len(uSeen)
  BY LenProperties DEF UInv, UOrder, Lists
<1>2. ToSet(uSeen) = Known
  BY <1>1, ElementOfSeq DEF ToSet, Lists
<1> DEFINE k == CHOOSE k \in DOMAIN uSeen : uSeen[k] = c
<1>3. k \in 1 .. Len(uSeen) /\ uSeen[k] = c
  BY <1>1 DEF Lists
<1>4. Unseen(c) = RemoveAt(uSeen, k)
  BY <1>2 DEF Unseen
<1> HIDE DEF k
<1>5. /\ Lists(RemoveAt(uSeen, k), Known \ {uSeen[k]})
      /\ Len(RemoveAt(uSeen, k)) = Len(uSeen) - 1
  BY <1>1, <1>3, ListsRemoveAt, Zenon
<1> QED
  BY <1>3, <1>4, <1>5, Zenon

\* start keeps it.
LEMMA UStartStep == UInv /\ UStart => UInv'
<1> SUFFICES ASSUME UInv, UStart PROVE UInv'
  OBVIOUS
<1> USE DEF UInv, UStart
<1>1. UKinds'
  BY DEF UKinds, UTypeOK
<1>2. USessions'
  BY DEF UKinds, UTypeOK, USessions, NoLostSession
<1>3. UPhase'
  BY DEF UKinds, UTypeOK, UPhase
<1> QED
  BY <1>1, <1>2, <1>3, UOrderKept

\* So does the canceled context.
LEMMA UContextClosesStep == UInv /\ UContextCloses => UInv'
<1> SUFFICES ASSUME UInv, UContextCloses PROVE UInv'
  OBVIOUS
<1> USE DEF UInv, UContextCloses
<1>1. UKinds'
  BY DEF UKinds, UTypeOK
<1>2. USessions'
  BY DEF UKinds, UTypeOK, USessions, NoLostSession
<1>3. UPhase'
  BY DEF UKinds, UTypeOK, UPhase
<1> QED
  BY <1>1, <1>2, <1>3, UOrderKept

\* So does the read of a datagram.
LEMMA UReadStep == ASSUME NEW c \in Clients PROVE UInv /\ URead(c) => UInv'
<1> SUFFICES ASSUME UInv, URead(c) PROVE UInv'
  OBVIOUS
<1> USE DEF UInv, URead
<1>1. UKinds'
  BY UAssumption DEF UKinds, UTypeOK, NoPacket
<1>2. USessions'
  BY DEF UKinds, UTypeOK, USessions, NoLostSession, NoPacket
<1>3. UPhase'
  BY DEF UKinds, UTypeOK, UPhase
<1> QED
  BY <1>1, <1>2, <1>3, UOrderKept

\* So does the lookup of its session.
LEMMA ULookupStep == UInv /\ ULookup => UInv'
<1> SUFFICES ASSUME UInv, ULookup PROVE UInv'
  OBVIOUS
<1> USE DEF UInv, ULookup
<1>1. UKinds'
  BY UAssumption DEF UKinds, UTypeOK, NoPacket
<1>2. USessions'
  BY DEF UKinds, UTypeOK, USessions, NoLostSession, NoPacket, Known
<1>3. UPhase'
  BY DEF UKinds, UTypeOK, UPhase
<1>4. UOrder'
  <2>1. CASE uPacket.from \in Known
    <3>1. uPacket.from \in Clients /\ Known' = Known
      BY DEF USessions, Known
    <3>2. Known \cup {uPacket.from} = Known
      BY <2>1
    <3> QED
      BY <2>1, <3>1, <3>2, USeenLists DEF UOrder
  <2>2. CASE uPacket.from \notin Known
    BY <2>2, UOrderKept
  <2> QED
    BY <2>1, <2>2
<1> QED
  BY <1>1, <1>2, <1>3, <1>4

\* So does the dial of a new session.
LEMMA UDialStep == UInv /\ UDial => UInv'
<1> SUFFICES ASSUME UInv, UDial PROVE UInv'
  OBVIOUS
<1> USE DEF UInv
<1>1. CASE uServe' = "read" /\ uPacket' = NoPacket /\ UNCHANGED <<uConn, uOwner>>
  <2> USE <1>1 DEF UDial
  <2>1. UKinds'
    BY UAssumption DEF UKinds, UTypeOK, NoPacket
  <2>2. USessions'
    BY DEF UKinds, UTypeOK, USessions, NoLostSession
  <2>3. UPhase'
    BY DEF UKinds, UTypeOK, UPhase
  <2> QED
    BY <2>1, <2>2, <2>3, UOrderKept
<1>2. ASSUME NEW s \in Sessions, uConn[s] = "none",
             uConn' = [uConn EXCEPT ![s] = "open"],
             uOwner' = [uOwner EXCEPT ![s] = uPacket.from],
             uPacket' = [uPacket EXCEPT !.session = s],
             uServe' = "install"
      PROVE  UInv'
  <2>0. /\ uServe = "dial"
        /\ UNCHANGED <<uCtx, uSocket, uStarted, uMap, uSeen, uRelay, uWatch, uClose>>
    BY DEF UDial
  <2> USE <1>2, <2>0
  <2>1. UKinds'
    <3>1. UTypeOK'
      BY DEF UKinds, UTypeOK
    <3>2. uPacket' \in [from : Clients \cup {0}, session : 0 .. UMaxSessions]
      BY UAssumption DEF UKinds, Sessions
    <3>3. uOwner' \in [Sessions -> Clients \cup {0}]
      BY DEF UKinds
    <3> QED
      BY <3>1, <3>2, <3>3 DEF UKinds
  <2>2. /\ uPacket.from \in Clients /\ uMap[uPacket.from] = 0
        /\ uPacket'.from = uPacket.from /\ uPacket'.session = s
        /\ uRelay[s] = "none"
    BY DEF UKinds, USessions
  <2>3. USessions'
    BY <2>2 DEF UKinds, UTypeOK, USessions, NoLostSession, Sessions
  <2>4. UPhase'
    BY DEF UKinds, UTypeOK, UPhase
  <2> QED
    BY <2>1, <2>3, <2>4, UOrderKept
<1> QED
  BY <1>1, <1>2 DEF UDial

\* The session is entered, the oldest one evicted at the limit.  The client is
\* not in the map, so the order grows by one, and shrinks by one again when the
\* map was full.
LEMMA UInstallStep == UInv /\ UInstall => UInv'
<1> SUFFICES ASSUME UInv, UInstall PROVE UInv'
  OBVIOUS
<1> USE DEF UInv
<1> DEFINE c == uPacket.from  s == uPacket.session
           full == Cardinality(Known \cup {c}) >= UMaxClients
           old == Head(Seen(c))
<1>1. /\ uServe = "install" /\ uServe' = "read" /\ uPacket' = NoPacket
      /\ UNCHANGED <<uCtx, uSocket, uStarted, uOwner, uWatch, uClose>>
  BY DEF UInstall
<1>2. /\ c \in Clients /\ uMap[c] = 0 /\ s \in Sessions /\ uConn[s] = "open"
      /\ uOwner[s] = c /\ uRelay[s] = "none" /\ s # 0
  BY <1>1, UAssumption DEF USessions, Sessions
<1>3. c \notin Known
  BY <1>2 DEF Known
<1>4. uPacket' \in [from : Clients \cup {0}, session : 0 .. UMaxSessions]
  BY <1>1, UAssumption DEF NoPacket
<1>5. /\ Lists(Seen(c), Known \cup {c}) /\ Seen(c) # <<>>
      /\ Len(Seen(c)) = Len(uSeen) + 1 /\ Len(uSeen) \in Nat
      /\ old \in Known \cup {c}
      /\ Lists(Tail(Seen(c)), (Known \cup {c}) \ {old})
      /\ Len(Tail(Seen(c))) = Len(uSeen)
      /\ Cardinality(Known \cup {c}) = Len(uSeen) + 1
  <2>1. Lists(Seen(c), Known \cup {c}) /\ Seen(c) # <<>> /\ Len(Seen(c)) = Len(uSeen) + 1
    BY <1>2, <1>3, USeenLists
  <2>2. Len(uSeen) \in Nat
    BY ListsCardinality DEF UOrder
  <2>3. old \in Known \cup {c} /\ Lists(Tail(Seen(c)), (Known \cup {c}) \ {old})
        /\ Len(Tail(Seen(c))) = Len(Seen(c)) - 1
    BY <2>1, ListsTail, Zenon
  <2>4. Cardinality(Known \cup {c}) = Len(Seen(c))
    BY <2>1, ListsCardinality, Zenon
  <2> QED
    BY <2>1, <2>2, <2>3, <2>4
<1>6. CASE uCtx
  <2>1. uConn' = [uConn EXCEPT ![s] = "closed"] /\ UNCHANGED <<uMap, uSeen, uRelay>>
    BY <1>6 DEF UInstall
  <2>2. UKinds'
    BY <1>1, <1>4, <2>1 DEF UKinds, UTypeOK
  <2>3. USessions'
    BY <1>1, <1>2, <2>1 DEF UKinds, UTypeOK, USessions, NoLostSession
  <2>4. UPhase'
    BY <1>1, <2>1 DEF UKinds, UTypeOK, UPhase
  <2> QED
    BY <2>1, <2>2, <2>3, <2>4, UOrderKept
<1>7. CASE ~uCtx /\ ~full
  <2>1. /\ uRelay' = [uRelay EXCEPT ![s] = "run"] /\ uMap' = [uMap EXCEPT ![c] = s]
        /\ uSeen' = Seen(c) /\ uConn' = uConn
    BY <1>7 DEF UInstall
  <2>2. UKinds'
    <3>1. s \in 0 .. UMaxSessions
      BY DEF UKinds
    <3> QED
      BY <1>1, <1>4, <2>1, <3>1 DEF UKinds, UTypeOK
  <2>3. USessions'
    <3>1. \A d \in Clients : uMap'[d] = IF d = c THEN s ELSE uMap[d]
      BY <1>2, <2>1 DEF UKinds, UTypeOK
    <3>2. NoLostSession'
      <4> SUFFICES ASSUME NEW r \in Sessions, uConn[r] = "open"
                   PROVE  uMap'[uOwner[r]] = r
        BY <1>1, <2>1 DEF NoLostSession
      <4>1. CASE r = s
        BY <1>2, <3>1, <4>1
      <4>2. CASE r # s
        <5>1. uOwner[r] \in Clients /\ uMap[uOwner[r]] = r
          BY <1>1, <4>2 DEF USessions, NoLostSession
        <5>2. uOwner[r] # c
          BY <1>2, <5>1, UAssumption DEF Sessions
        <5> QED
          BY <3>1, <5>1, <5>2
      <4> QED
        BY <4>1, <4>2
    <3>3. \A d \in Clients : uMap'[d] # 0 =>
            uOwner'[uMap'[d]] = d /\ uRelay'[uMap'[d]] \in {"run", "forget"}
      BY <1>1, <1>2, <2>1, <3>1 DEF UKinds, UTypeOK, USessions
    <3> HIDE DEF c, s
    <3> QED
      BY <1>1, <1>2, <2>1, <3>2, <3>3 DEF UKinds, UTypeOK, USessions
  <2>4. UPhase'
    BY <1>1, <1>7, <2>1 DEF UKinds, UTypeOK, UPhase
  <2>5. Known' = Known \cup {c}
    BY <1>2, <2>1 DEF Known, UKinds, UTypeOK
  <2>6. UOrder'
    BY <1>5, <1>7, <2>1, <2>5, UAssumption DEF UOrder
  <2> QED
    BY <2>2, <2>3, <2>4, <2>6
<1>8. CASE ~uCtx /\ full
  <2> HIDE DEF full
  <2>1. /\ uRelay' = [uRelay EXCEPT ![s] = "run"]
        /\ uMap' = [uMap EXCEPT ![c] = s, ![old] = 0]
        /\ uSeen' = Tail(Seen(c))
        /\ uConn' = IF old # c THEN [uConn EXCEPT ![uMap[old]] = "closed"]
                    ELSE [uConn EXCEPT ![s] = "closed"]
    BY <1>8 DEF UInstall, full
  <2> HIDE DEF old
  <2>2. old \in Clients /\ (old # c => /\ uMap[old] \in Sessions /\ uMap[old] # s
                                      /\ uConn[uMap[old]] # "none")
    BY <1>2, <1>5, UAssumption DEF Known, UKinds, UTypeOK, Sessions, USessions
  <2>3. UKinds'
    <3>1. s \in 0 .. UMaxSessions /\ 0 \in 0 .. UMaxSessions
      BY UAssumption DEF UKinds
    <3> QED
      BY <1>1, <1>4, <2>1, <2>2, <3>1 DEF UKinds, UTypeOK
  <2>4. \A d \in Clients : uMap'[d] = IF d = old THEN 0 ELSE IF d = c THEN s ELSE uMap[d]
    BY <1>2, <2>1, <2>2 DEF UKinds, UTypeOK
  <2>5. USessions'
    <3>1. \A r \in Sessions : uConn'[r] = "open" => uConn[r] = "open"
      BY <2>1, <2>2, <1>2 DEF UKinds, UTypeOK
    <3>2. \A r \in Sessions : uConn'[r] = "none" <=> uConn[r] = "none"
      BY <2>1, <2>2, <1>2 DEF UKinds, UTypeOK, USessions
    <3>3. old = c => uConn'[s] = "closed"
      BY <1>2, <2>1 DEF UKinds, UTypeOK
    <3>4. old # c => uConn'[uMap[old]] = "closed"
      BY <1>2, <2>1, <2>2 DEF UKinds, UTypeOK
    <3>5. NoLostSession'
      <4> SUFFICES ASSUME NEW r \in Sessions, uConn'[r] = "open"
                   PROVE  uMap'[uOwner[r]] = r
        BY <1>1 DEF NoLostSession
      <4>1. uConn[r] = "open" /\ uOwner[r] \in Clients
        BY <3>1 DEF USessions
      <4>2. CASE r = s
        BY <1>2, <2>4, <3>3, <4>2
      <4>3. CASE r # s
        <5>1. uMap[uOwner[r]] = r
          BY <1>1, <4>1, <4>3 DEF USessions, NoLostSession
        <5>2. uOwner[r] # c /\ uOwner[r] # old
          BY <1>2, <3>4, <5>1, UAssumption DEF Sessions
        <5> QED
          BY <2>4, <4>1, <5>1, <5>2
      <4> QED
        BY <4>2, <4>3
    <3>6. \A d \in Clients : uMap'[d] # 0 =>
            uOwner'[uMap'[d]] = d /\ uRelay'[uMap'[d]] \in {"run", "forget"}
      BY <1>1, <1>2, <2>1, <2>4 DEF UKinds, UTypeOK, USessions
    <3>7. \A r \in Sessions : uRelay'[r] \in {"forget", "ended"} => uConn'[r] = "closed"
      BY <1>2, <2>1, <2>2 DEF UKinds, UTypeOK, USessions
    <3> QED
      BY <1>1, <1>2, <2>1, <3>1, <3>2, <3>5, <3>6, <3>7 DEF UKinds, UTypeOK, USessions
  <2>6. UPhase'
    BY <1>1, <1>8, <2>1 DEF UKinds, UTypeOK, UPhase
  <2>7. Known' = (Known \cup {c}) \ {old}
    BY <1>2, <2>4 DEF Known
  <2>8. UOrder'
    BY <1>5, <2>1, <2>7 DEF UOrder, old
  <2> QED
    BY <2>3, <2>5, <2>6, <2>8
<1> QED
  BY <1>6, <1>7, <1>8

\* So does a relay that ends.
LEMMA URelayEndsStep == ASSUME NEW s \in Sessions PROVE UInv /\ URelayEnds(s) => UInv'
<1> SUFFICES ASSUME UInv, URelayEnds(s) PROVE UInv'
  OBVIOUS
<1> USE DEF UInv, URelayEnds
<1>1. UKinds'
  BY DEF UKinds, UTypeOK
<1>2. USessions'
  BY DEF UKinds, UTypeOK, USessions, NoLostSession
<1>3. UPhase'
  BY DEF UKinds, UTypeOK, UPhase, USessions
<1> QED
  BY <1>1, <1>2, <1>3, UOrderKept

\* So does the removal of its session.
LEMMA UForgetStep == ASSUME NEW s \in Sessions PROVE UInv /\ UForget(s) => UInv'
<1> SUFFICES ASSUME UInv, UForget(s) PROVE UInv'
  OBVIOUS
<1> USE DEF UInv
<1>1. /\ uRelay[s] = "forget" /\ uRelay' = [uRelay EXCEPT ![s] = "ended"]
      /\ UNCHANGED <<uCtx, uSocket, uStarted, uServe, uPacket, uConn, uOwner, uWatch,
                     uClose>>
  BY DEF UForget
<1>2. uOwner[s] \in Clients /\ uConn[s] = "closed" /\ s # 0
  BY <1>1, UAssumption DEF USessions, Sessions
<1>3. CASE uMap[uOwner[s]] = s
  <2>1. uMap' = [uMap EXCEPT ![uOwner[s]] = 0] /\ uSeen' = Unseen(uOwner[s])
    BY <1>3 DEF UForget
  <2>2. UKinds'
    <3>1. 0 \in 0 .. UMaxSessions
      BY UAssumption
    <3> QED
      BY <1>1, <1>2, <2>1, <3>1 DEF UKinds, UTypeOK
  <2>3. USessions'
    BY <1>1, <1>2, <1>3, <2>1 DEF UKinds, UTypeOK, USessions, NoLostSession
  <2>4. UPhase'
    BY <1>1, <2>1 DEF UKinds, UTypeOK, UPhase
  <2>5. uOwner[s] \in Known /\ Known' = Known \ {uOwner[s]}
    BY <1>2, <1>3, <2>1 DEF UKinds, UTypeOK, Known
  <2>6. Lists(uSeen', Known') /\ Len(uSeen') = Len(uSeen) - 1 /\ Len(uSeen) \in Nat
    BY <2>1, <2>5, UUnseenLists, ListsCardinality DEF UOrder
  <2>7. UOrder'
    BY <2>6, UAssumption DEF UOrder
  <2> QED
    BY <2>2, <2>3, <2>4, <2>7
<1>4. CASE uMap[uOwner[s]] # s
  <2>1. UNCHANGED <<uMap, uSeen>>
    BY <1>4 DEF UForget
  <2>2. UKinds'
    BY <1>1, <2>1 DEF UKinds, UTypeOK
  <2>3. USessions'
    BY <1>1, <1>2, <1>4, <2>1 DEF UKinds, UTypeOK, USessions, NoLostSession
  <2>4. UPhase'
    BY <1>1, <2>1 DEF UKinds, UTypeOK, UPhase
  <2> QED
    BY <2>1, <2>2, <2>3, <2>4, UOrderKept
<1> QED
  BY <1>3, <1>4

\* closeAllClients closes the sockets of the map, which are all there are but
\* the one being installed.
LEMMA UCloseAllSessions ==
  ASSUME UInv, CloseAll, uServe' = uServe \/ (uServe = "end" /\ uServe' = "ended"),
         UNCHANGED <<uPacket, uMap, uOwner, uRelay>>
  PROVE  USessions' /\ uConn' \in [Sessions -> {"none", "open", "closed"}]
<1>1. \A s \in Sessions : uConn'[s] = IF \E c \in Clients : uMap[c] = s
                                      THEN "closed" ELSE uConn[s]
  BY DEF CloseAll
<1>2. uConn' \in [Sessions -> {"none", "open", "closed"}]
  BY DEF CloseAll, UInv, UKinds, UTypeOK
<1>3. ASSUME uServe = "install"
      PROVE  \A c \in Clients : uMap[c] # uPacket.session
  BY <1>3, UAssumption DEF UInv, UKinds, UTypeOK, USessions, Sessions
<1>4. \A s \in Sessions : uConn'[s] = "none" => uConn[s] = "none"
  BY <1>1
<1>5. \A s \in Sessions : uConn'[s] = "open" => uConn[s] = "open"
  BY <1>1
<1>6. ASSUME uServe' = "install"
      PROVE  uServe = "install" /\ uConn'[uPacket.session] = "open"
  BY <1>1, <1>3, <1>6 DEF UInv, USessions
<1>7. \A s \in Sessions : uConn[s] = "closed" => uConn'[s] = "closed"
  BY <1>1
<1>8. NoLostSession'
  BY <1>1 DEF UInv, USessions, NoLostSession
<1> QED
  BY <1>2, <1>4, <1>5, <1>6, <1>7, <1>8 DEF UInv, UKinds, UTypeOK, USessions

\* So does close.
LEMMA UClosingStep ==
  UInv /\ (URelayPacketsEnds \/ UCloseSocket \/ UCloseClients \/ UCancel \/ UCloseReturns)
    => UInv'
<1> SUFFICES ASSUME UInv,
             URelayPacketsEnds \/ UCloseSocket \/ UCloseClients \/ UCancel \/ UCloseReturns
             PROVE  UInv'
  OBVIOUS
<1> USE DEF UInv
<1>1. CASE URelayPacketsEnds
  <2>1. USessions' /\ uConn' \in [Sessions -> {"none", "open", "closed"}]
    BY <1>1, UCloseAllSessions DEF URelayPacketsEnds
  <2>2. UKinds'
    BY <1>1, <2>1 DEF URelayPacketsEnds, UKinds, UTypeOK
  <2>3. UPhase'
    BY <1>1 DEF URelayPacketsEnds, UKinds, UTypeOK, UPhase
  <2> QED
    BY <1>1, <2>1, <2>2, <2>3, UOrderKept DEF URelayPacketsEnds
<1>2. CASE UCloseSocket
  <2>1. UKinds'
    BY <1>2 DEF UCloseSocket, UKinds, UTypeOK
  <2>2. USessions'
    BY <1>2 DEF UCloseSocket, UKinds, UTypeOK, USessions, NoLostSession
  <2>3. UPhase'
    BY <1>2 DEF UCloseSocket, UKinds, UTypeOK, UPhase
  <2> QED
    BY <1>2, <2>1, <2>2, <2>3, UOrderKept DEF UCloseSocket
<1>3. CASE UCloseClients
  <2>1. USessions' /\ uConn' \in [Sessions -> {"none", "open", "closed"}]
    BY <1>3, UCloseAllSessions DEF UCloseClients
  <2>2. UKinds'
    BY <1>3, <2>1 DEF UCloseClients, UKinds, UTypeOK
  <2>3. UPhase'
    <3>1. uServe = "new" => uConn' = uConn
      BY <1>3, UAssumption
        DEF UCloseClients, CloseAll, UKinds, UTypeOK, UPhase, USessions, Sessions
    <3> QED
      BY <1>3, <3>1 DEF UCloseClients, UKinds, UTypeOK, UPhase
  <2> QED
    BY <1>3, <2>1, <2>2, <2>3, UOrderKept DEF UCloseClients
<1>4. CASE UCancel
  <2>1. UKinds'
    BY <1>4 DEF UCancel, UKinds, UTypeOK
  <2>2. USessions'
    BY <1>4 DEF UCancel, UKinds, UTypeOK, USessions, NoLostSession
  <2>3. UPhase'
    BY <1>4 DEF UCancel, UKinds, UTypeOK, UPhase
  <2> QED
    BY <1>4, <2>1, <2>2, <2>3, UOrderKept DEF UCancel
<1>5. CASE UCloseReturns
  <2>1. UKinds'
    BY <1>5 DEF UCloseReturns, UKinds, UTypeOK
  <2>2. USessions'
    BY <1>5 DEF UCloseReturns, UKinds, UTypeOK, USessions, NoLostSession
  <2>3. UPhase'
    BY <1>5 DEF UCloseReturns, UKinds, UTypeOK, UPhase, USessions
  <2> QED
    BY <1>5, <2>1, <2>2, <2>3, UOrderKept DEF UCloseReturns
<1> QED
  BY <1>1, <1>2, <1>3, <1>4, <1>5

\* Every step of a UDP port keeps the invariant.
LEMMA UStep == UInv /\ [UNext]_uvars => UInv'
<1> SUFFICES ASSUME UInv, [UNext]_uvars PROVE UInv'
  OBVIOUS
<1>1. CASE UNCHANGED uvars
  <2>1. UKinds'
    BY <1>1 DEF uvars, UInv, UKinds, UTypeOK
  <2>2. USessions'
    BY <1>1 DEF uvars, UInv, UKinds, UTypeOK, USessions, NoLostSession
  <2>3. UPhase'
    BY <1>1 DEF uvars, UInv, UKinds, UTypeOK, UPhase
  <2> QED
    BY <1>1, <2>1, <2>2, <2>3, UOrderKept DEF uvars, UInv
<1> QED
  BY <1>1, UStartStep, UContextClosesStep, UReadStep, ULookupStep, UDialStep,
     UInstallStep, URelayEndsStep, UForgetStep, UClosingStep DEF UNext

\* For any set of clients, any limit and any number of sessions: however
\* packets, eviction, expiry and close overlap, every open backend socket is
\* the one its client's packets go to, the limit holds, and when close has
\* returned every socket is closed and every session forgotten (port_udp.go,
\* getOrCreateBackendConn, relayBackendToClient, close).
THEOREM UDPSafety == USpec => []UDPSafe
<1>1. UInv => UDPSafe
  <2> SUFFICES ASSUME UInv PROVE UDPSafe
    OBVIOUS
  <2> USE DEF UInv
  <2>1. UClosedIsQuiet
    BY DEF UClosedIsQuiet, UPhase, USessions, NoLostSession, Known, UKinds, UTypeOK,
           Sessions
  <2>2. SessionsBounded
    <3>1. Cardinality(Known) = Len(uSeen)
      BY ListsCardinality DEF UOrder
    <3>2. DOMAIN uSeen = 1 .. Len(uSeen)
      BY LenProperties DEF UOrder, Lists
    <3>3. ToSet(uSeen) = Known
      BY <3>2, ElementOfSeq DEF ToSet, UOrder, Lists
    <3> QED
      BY <3>1, <3>3 DEF SessionsBounded, UOrder
  <2> QED
    BY <2>1, <2>2 DEF UDPSafe, UKinds, USessions
<1> QED
  BY <1>1, UInitInv, UStep, PTL DEF USpec

-----------------------------------------------------------------------------
(* The rate limiters. *)

\* What the variables hold.
LTyped ==
  /\ lList \in Seq(LClients) /\ lHist \in Seq(LClients)
  /\ lClients \in [ToSet(lList) -> 0 .. LBurst]

\* The inductive invariant.
LInv == LTyped /\ LimiterSafe

\* Of two requests one is the later: nobody asks after its own last request.
LEMMA LaterDiffers ==
  ASSUME NEW c, NEW d, Later(c, d), lHist \in Seq(LClients)
  PROVE  c # d
BY DEF Later

\* Each client is in the list once.
LEMMA LDistinct ==
  ASSUME LInv, NEW i \in 1 .. Len(lList), NEW j \in 1 .. Len(lList), i # j
  PROVE  lList[i] # lList[j]
<1>1. lHist \in Seq(LClients) /\ lList \in Seq(LClients)
  BY DEF LInv, LTyped
<1>2. CASE i < j
  <2>1. Later(lList[i], lList[j])
    BY <1>2 DEF LInv, LimiterSafe
  <2> QED BY <2>1, <1>1, LaterDiffers
<1>3. CASE j < i
  <2>1. Later(lList[j], lList[i])
    BY <1>3 DEF LInv, LimiterSafe
  <2> QED BY <2>1, <1>1, LaterDiffers
<1> QED BY <1>1, <1>2, <1>3

\* The map is as large as the list.
LEMMA LCount ==
  ASSUME LInv
  PROVE  Cardinality(DOMAIN lClients) = Len(lList)
<1>1. lList \in Seq(LClients) /\ DOMAIN lClients = ToSet(lList) /\ Len(lList) \in Nat
  BY DEF LInv, LTyped
<1>2. lList \in [1 .. Len(lList) -> ToSet(lList)]
  BY <1>1 DEF ToSet
<1>3. \A i, j \in 1 .. Len(lList) : lList[i] = lList[j] => i = j
  BY LDistinct
<1>4. lList \in Injection(1 .. Len(lList), ToSet(lList))
  BY <1>2, <1>3 DEF Injection, IsInjective
<1>5. lList \in Surjection(1 .. Len(lList), ToSet(lList))
  BY <1>1, <1>2 DEF Surjection, ToSet
<1>6. ExistsBijection(1 .. Len(lList), ToSet(lList))
  BY <1>4, <1>5 DEF ExistsBijection, Bijection
<1> QED BY <1>1, <1>6, FS_CountingElements

\* The client is at the front of the list afterwards; the others keep their
\* order, and only the last one of a full list may have gone.
LEMMA LGet ==
  ASSUME LInv, NEW c \in LClients, get(c)
  PROVE  /\ lList' \in Seq(LClients) /\ Len(lList') \in 1 .. LSize /\ lList'[1] = c
         /\ \E o \in [2 .. Len(lList') -> 1 .. Len(lList)] :
              \A i \in 2 .. Len(lList') :
                /\ lList'[i] = lList[o[i]] /\ lList[o[i]] # c
                /\ \A j \in i + 1 .. Len(lList') : o[i] < o[j]
         /\ \A j \in 1 .. Len(lList) :
              \/ \E i \in 1 .. Len(lList') : lList'[i] = lList[j]
              \/ j = Len(lList) /\ Len(lList) = LSize
         /\ Len(lList) = LSize => Len(lList') = LSize
<1>1. lList \in Seq(LClients) /\ DOMAIN lClients = ToSet(lList) /\ Len(lList) \in 0 .. LSize
      /\ LSize \in Nat \ {0} /\ DOMAIN lList = 1 .. Len(lList)
      /\ \A i \in 1 .. Len(lList) : lList[i] \in LClients
  BY LAssumption DEF LInv, LTyped, LimiterSafe
<1>2. Cardinality(DOMAIN lClients) = Len(lList)
  BY LCount
<1>3. ASSUME NEW p \in 1 .. Len(lList), lList[p] = c, lList' = MoveToFront(lList, p)
      PROVE  /\ lList' \in Seq(LClients) /\ Len(lList') \in 1 .. LSize /\ lList'[1] = c
             /\ \E o \in [2 .. Len(lList') -> 1 .. Len(lList)] :
                  \A i \in 2 .. Len(lList') :
                    /\ lList'[i] = lList[o[i]] /\ lList[o[i]] # c
                    /\ \A j \in i + 1 .. Len(lList') : o[i] < o[j]
             /\ \A j \in 1 .. Len(lList) : \E i \in 1 .. Len(lList') : lList'[i] = lList[j]
             /\ Len(lList') = Len(lList)
  <2>1. lList' = [i \in 1 .. Len(lList) |-> IF i = 1 THEN lList[p]
                                           ELSE IF i <= p THEN lList[i - 1] ELSE lList[i]]
    BY <1>3 DEF MoveToFront
  <2>2. /\ lList' \in Seq(LClients) /\ Len(lList') = Len(lList) /\ lList'[1] = c
        /\ \A i \in 2 .. Len(lList) : lList'[i] = lList[IF i <= p THEN i - 1 ELSE i]
    BY <2>1, <1>1, <1>3
  <2> DEFINE o == [i \in 2 .. Len(lList) |-> IF i <= p THEN i - 1 ELSE i]
  <2>3. /\ o \in [2 .. Len(lList) -> 1 .. Len(lList)]
        /\ \A i \in 2 .. Len(lList) : o[i] # p /\ \A j \in i + 1 .. Len(lList) : o[i] < o[j]
    BY <1>1, <1>3
  <2>4. \A i \in 2 .. Len(lList) : lList'[i] = lList[o[i]]
    BY <2>2
  <2>5. \A j \in 1 .. Len(lList) : \E i \in 1 .. Len(lList) : lList'[i] = lList[j]
    <3> TAKE j \in 1 .. Len(lList)
    <3>1. CASE j = p
      <4>1. 1 \in 1 .. Len(lList)
        BY <1>1
      <4> QED BY <4>1, <3>1, <2>2, <1>3
    <3>2. CASE j < p
      <4>1. j + 1 \in 2 .. Len(lList) /\ j + 1 <= p /\ j + 1 - 1 = j
        BY <3>2, <1>1
      <4> QED BY <4>1, <2>2
    <3>3. CASE j > p
      <4>1. j \in 2 .. Len(lList) /\ ~(j <= p)
        BY <3>3, <1>1
      <4> QED BY <4>1, <2>2
    <3> QED BY <3>1, <3>2, <3>3, <1>1
  <2> HIDE DEF o
  <2>6. \A i \in 2 .. Len(lList) : lList[o[i]] # c
    BY <2>3, <1>3, LDistinct
  <2>7. PICK oo \in [2 .. Len(lList) -> 1 .. Len(lList)] : oo = o
    BY <2>3
  <2>8. \E q \in [2 .. Len(lList') -> 1 .. Len(lList)] :
          \A i \in 2 .. Len(lList') :
            /\ lList'[i] = lList[q[i]] /\ lList[q[i]] # c
            /\ \A j \in i + 1 .. Len(lList') : q[i] < q[j]
    BY <2>2, <2>3, <2>4, <2>6, <2>7
  <2>9. Len(lList) \in 1 .. LSize
    BY <1>1
  <2> QED BY <2>2, <2>5, <2>8, <2>9
<1>4. Len(lList) \in Nat /\ LSize \in Nat /\ LSize >= 1 /\ Len(lList) <= LSize
  BY <1>1
<1>5. ASSUME c \notin ToSet(lList),
             lList' = <<c>> \o (IF Len(lList) >= LSize THEN Front(lList) ELSE lList)
      PROVE  /\ lList' \in Seq(LClients) /\ Len(lList') \in 1 .. LSize /\ lList'[1] = c
             /\ \E o \in [2 .. Len(lList') -> 1 .. Len(lList)] :
                  \A i \in 2 .. Len(lList') :
                    /\ lList'[i] = lList[o[i]] /\ lList[o[i]] # c
                    /\ \A j \in i + 1 .. Len(lList') : o[i] < o[j]
             /\ \A j \in 1 .. Len(lList) :
                  \/ \E i \in 1 .. Len(lList') : lList'[i] = lList[j]
                  \/ j = Len(lList) /\ Len(lList) = LSize
             /\ Len(lList) = LSize => Len(lList') = LSize
  <2>1. \A i \in 1 .. Len(lList) : lList[i] # c
    BY <1>1, <1>5 DEF ToSet
  <2> DEFINE kept == IF Len(lList) >= LSize THEN Len(lList) - 1 ELSE Len(lList)
  <2>2. kept \in Nat
    BY <1>4
  <2>3. PICK n \in Nat : n = kept
    BY <2>2, Zenon
  <2>4. n <= Len(lList) /\ n + 1 <= LSize /\ (Len(lList) = LSize => n + 1 = LSize)
        /\ (n = Len(lList) \/ (n = Len(lList) - 1 /\ Len(lList) = LSize))
    BY <1>4, <2>3
  <2>5. /\ lList' \in Seq(LClients) /\ Len(lList') = n + 1 /\ lList'[1] = c
        /\ \A i \in 2 .. n + 1 : lList'[i] = lList[i - 1]
    <3>1. CASE Len(lList) >= LSize
      <4>1. Len(lList) = LSize /\ n = Len(lList) - 1
        BY <3>1, <1>4, <2>3
      <4>2. lList' = <<c>> \o SubSeq(lList, 1, n)
        BY <1>5, <3>1, <4>1 DEF Front
      <4> QED BY <4>1, <4>2, <1>1
    <3>2. CASE ~(Len(lList) >= LSize)
      <4>1. lList' = <<c>> \o lList /\ n = Len(lList)
        BY <1>5, <3>2, <2>3
      <4> QED BY <4>1, <1>1
    <3> QED BY <3>1, <3>2
  <2> HIDE DEF kept
  <2>6. [i \in 2 .. n + 1 |-> i - 1] \in [2 .. n + 1 -> 1 .. Len(lList)]
    BY <2>4, <1>4
  <2>7. PICK o \in [2 .. n + 1 -> 1 .. Len(lList)] : o = [i \in 2 .. n + 1 |-> i - 1]
    BY <2>6
  <2>8. \A i \in 2 .. n + 1 : o[i] = i - 1
    BY <2>7
  <2>9. \A i \in 2 .. n + 1 : \A j \in i + 1 .. n + 1 : o[i] < o[j]
    BY <2>8
  <2>10. \A i \in 2 .. n + 1 : lList'[i] = lList[o[i]] /\ lList[o[i]] # c
    BY <2>1, <2>5, <2>8, <2>7
  <2>11. \A j \in 1 .. Len(lList) : j <= n =>
            j + 1 \in 1 .. Len(lList') /\ lList'[j + 1] = lList[j]
    BY <2>5, <1>1
  <2>12. \A j \in 1 .. Len(lList) :
            \/ \E i \in 1 .. Len(lList') : lList'[i] = lList[j]
            \/ j = Len(lList) /\ Len(lList) = LSize
    BY <2>11, <2>4, <1>4
  <2>13. \E q \in [2 .. Len(lList') -> 1 .. Len(lList)] :
           \A i \in 2 .. Len(lList') :
             /\ lList'[i] = lList[q[i]] /\ lList[q[i]] # c
             /\ \A j \in i + 1 .. Len(lList') : q[i] < q[j]
    BY <2>5, <2>7, <2>9, <2>10
  <2>14. n + 1 \in 1 .. LSize
    BY <2>4, <1>4
  <2> QED BY <2>4, <2>5, <2>12, <2>13, <2>14
<1>6. CASE c \in DOMAIN lClients
  <2>1. PICK p \in 1 .. Len(lList) : lList[p] = c /\ lList' = MoveToFront(lList, p)
    BY <1>6 DEF get
  <2> QED BY <2>1, <1>3
<1>7. CASE c \notin DOMAIN lClients
  <2>1. c \notin ToSet(lList) /\ \A i \in 1 .. Len(lList) : lList[i] # c
    BY <1>7, <1>1 DEF ToSet
  <2>2. lList' = <<c>> \o (IF Len(lList) >= LSize THEN Front(lList) ELSE lList)
    BY <1>7, <1>2 DEF get
  <2> QED BY <2>1, <2>2, <1>5
<1> QED BY <1>6, <1>7

\* A request makes its client the latest, and leaves the others in their order.
LEMMA LaterStep ==
  ASSUME NEW c \in LClients, lHist \in Seq(LClients), lHist' = Append(lHist, c)
  PROVE  /\ \A x, y : Later(x, y) /\ y # c =>
              \E k \in 1 .. Len(lHist') :
                lHist'[k] = x /\ \A m \in k .. Len(lHist') : lHist'[m] # y
         /\ \A y : y # c =>
              \E k \in 1 .. Len(lHist') :
                lHist'[k] = c /\ \A m \in k .. Len(lHist') : lHist'[m] # y
<1>1. /\ Len(lHist) \in Nat /\ Len(lHist') = Len(lHist) + 1
      /\ lHist'[Len(lHist) + 1] = c
      /\ \A i \in 1 .. Len(lHist) : lHist'[i] = lHist[i]
  OBVIOUS
<1>2. PICK n \in Nat : n = Len(lHist)
  BY <1>1
<1>3. Len(lHist') = n + 1 /\ lHist'[n + 1] = c /\ \A i \in 1 .. n : lHist'[i] = lHist[i]
  BY <1>1, <1>2
<1>4. ASSUME NEW x, NEW y, Later(x, y), y # c
      PROVE  \E k \in 1 .. n + 1 : lHist'[k] = x /\ \A m \in k .. n + 1 : lHist'[m] # y
  <2>1. PICK k \in 1 .. n : lHist[k] = x /\ \A m \in k .. n : lHist[m] # y
    BY <1>4, <1>2 DEF Later
  <2>2. k \in 1 .. n + 1 /\ lHist'[k] = x
    BY <2>1, <1>3
  <2>3. ASSUME NEW m \in k .. n + 1
        PROVE  lHist'[m] # y
    <3>1. CASE m = n + 1
      BY <3>1, <1>3, <1>4
    <3>2. CASE m # n + 1
      <4>1. m \in k .. n /\ m \in 1 .. n
        BY <3>2
      <4> QED BY <4>1, <2>1, <1>3
    <3> QED BY <3>1, <3>2
  <2> QED BY <2>2, <2>3
<1>5. ASSUME NEW y, y # c
      PROVE  \E k \in 1 .. n + 1 : lHist'[k] = c /\ \A m \in k .. n + 1 : lHist'[m] # y
  <2>1. n + 1 \in 1 .. n + 1 /\ \A m \in n + 1 .. n + 1 : m = n + 1
    OBVIOUS
  <2> QED BY <2>1, <1>3, <1>5
<1> QED BY <1>3, <1>4, <1>5

\* A request keeps the invariant.
LEMMA LRequestStep ==
  ASSUME LInv, NEW c \in LClients, LRequest(c)
  PROVE  LInv'
<1>1. lHist' = Append(lHist, c) /\ lHist \in Seq(LClients) /\ get(c)
      /\ LBurst \in Nat /\ lClients \in [ToSet(lList) -> 0 .. LBurst]
  BY LAssumption DEF LRequest, LInv, LTyped
<1>2. /\ lList' \in Seq(LClients) /\ Len(lList') \in 1 .. LSize /\ lList'[1] = c
      /\ \E o \in [2 .. Len(lList') -> 1 .. Len(lList)] :
           \A i \in 2 .. Len(lList') :
             /\ lList'[i] = lList[o[i]] /\ lList[o[i]] # c
             /\ \A j \in i + 1 .. Len(lList') : o[i] < o[j]
      /\ \A j \in 1 .. Len(lList) :
           \/ \E i \in 1 .. Len(lList') : lList'[i] = lList[j]
           \/ j = Len(lList) /\ Len(lList) = LSize
      /\ Len(lList) = LSize => Len(lList') = LSize
  BY <1>1, LGet
<1>3. PICK o \in [2 .. Len(lList') -> 1 .. Len(lList)] :
        \A i \in 2 .. Len(lList') :
          /\ lList'[i] = lList[o[i]] /\ lList[o[i]] # c
          /\ \A j \in i + 1 .. Len(lList') : o[i] < o[j]
  BY <1>2
<1>4. PICK n \in Nat, p \in Nat, h \in Nat :
        n = Len(lList') /\ p = Len(lList) /\ h = Len(lHist)
  BY <1>1, <1>2 DEF LInv, LTyped
<1>5. /\ lHist' \in Seq(LClients) /\ Len(lHist') = h + 1 /\ lHist'[h + 1] = c
      /\ \A k \in 1 .. h : lHist'[k] = lHist[k]
  BY <1>1, <1>4
<1>6. \A x, y : Later(x, y) /\ y # c =>
        \E k \in 1 .. h + 1 : lHist'[k] = x /\ \A m \in k .. h + 1 : lHist'[m] # y
  BY <1>1, <1>5, LaterStep
<1>7. \A y : y # c =>
        \E k \in 1 .. h + 1 : lHist'[k] = c /\ \A m \in k .. h + 1 : lHist'[m] # y
  BY <1>1, <1>5, LaterStep
<1>8. n \in 1 .. LSize /\ 1 \in 1 .. n /\ \A i \in 1 .. n : i = 1 \/ i \in 2 .. n
  BY <1>2, <1>4, LAssumption
<1>9. ToSet(lList') = {lList'[i] : i \in 1 .. n} /\ ToSet(lList) = {lList[i] : i \in 1 .. p}
      /\ ToSet(lHist') = {lHist'[i] : i \in 1 .. h + 1}
      /\ ToSet(lHist) = {lHist[i] : i \in 1 .. h}
  <2>1. lList \in Seq(LClients) /\ lHist \in Seq(LClients)
    BY DEF LInv, LTyped
  <2>2. DOMAIN lList' = 1 .. n /\ DOMAIN lList = 1 .. p
    BY <2>1, <1>2, <1>4
  <2>3. DOMAIN lHist' = 1 .. h + 1 /\ DOMAIN lHist = 1 .. h
    BY <2>1, <1>4, <1>5
  <2> QED BY <2>2, <2>3 DEF ToSet
<1>10. \A i \in 2 .. n : lList'[i] = lList[o[i]] /\ lList[o[i]] # c /\ o[i] \in 1 .. p
                         /\ lList[o[i]] \in ToSet(lList)
  BY <1>3, <1>4, <1>9
<1>11. LTyped'
  <2>1. lClients' = [d \in ToSet(lList') |->
                       IF d # c THEN lClients[d]
                       ELSE IF (IF c \in DOMAIN lClients THEN lClients[c] ELSE LBurst) > 0
                            THEN (IF c \in DOMAIN lClients THEN lClients[c] ELSE LBurst) - 1
                            ELSE 0]
    BY DEF LRequest
  <2>2. \A d \in ToSet(lList') : d # c => d \in ToSet(lList)
    BY <1>2, <1>4, <1>8, <1>9, <1>10
  <2>3. PICK t \in 0 .. LBurst : t = IF c \in DOMAIN lClients THEN lClients[c] ELSE LBurst
    BY <1>1
  <2>4. lClients' = [d \in ToSet(lList') |->
                       IF d # c THEN lClients[d] ELSE IF t > 0 THEN t - 1 ELSE 0]
    BY <2>1, <2>3
  <2>5. (IF t > 0 THEN t - 1 ELSE 0) \in 0 .. LBurst
    BY <1>1
  <2>6. lClients' \in [ToSet(lList') -> 0 .. LBurst]
    BY <2>2, <2>4, <2>5, <1>1
  <2> QED BY <2>6, <1>2, <1>5 DEF LTyped
<1>12. ASSUME NEW i \in 1 .. n, NEW j \in 1 .. n, i < j
       PROVE  \E k \in 1 .. h + 1 :
                lHist'[k] = lList'[i] /\ \A m \in k .. h + 1 : lHist'[m] # lList'[j]
  <2>1. j \in 2 .. n /\ lList'[j] = lList[o[j]] /\ lList[o[j]] # c
    BY <1>10, <1>12
  <2>2. CASE i = 1
    BY <2>1, <2>2, <1>2, <1>7
  <2>3. CASE i # 1
    <3>1. i \in 2 .. n /\ j \in i + 1 .. n
      BY <1>12, <2>3
    <3>2. lList'[i] = lList[o[i]] /\ o[i] < o[j] /\ o[i] \in 1 .. p /\ o[j] \in 1 .. p
      BY <3>1, <2>1, <1>3, <1>4, <1>10
    <3>3. Later(lList[o[i]], lList[o[j]])
      BY <3>2, <1>4 DEF LInv, LimiterSafe
    <3> QED BY <3>2, <3>3, <2>1, <1>6
  <2> QED BY <2>2, <2>3
<1>13. ASSUME NEW k \in 1 .. h + 1
       PROVE  \/ lHist'[k] \in ToSet(lList')
              \/ /\ n = LSize
                 /\ \A i \in 1 .. n : \E l \in 1 .. h + 1 :
                      lHist'[l] = lList'[i] /\ \A m \in l .. h + 1 : lHist'[m] # lHist'[k]
  <2>1. CASE lHist'[k] = c
    BY <2>1, <1>2, <1>8, <1>9
  <2>2. ASSUME lHist'[k] # c, NEW j \in 1 .. p, lList[j] = lHist'[k]
        PROVE  \/ lHist'[k] \in ToSet(lList')
               \/ /\ n = LSize
                  /\ \A i \in 1 .. n : \E l \in 1 .. h + 1 :
                       lHist'[l] = lList'[i] /\ \A m \in l .. h + 1 : lHist'[m] # lHist'[k]
    <3>1. SUFFICES ASSUME \A i \in 1 .. n : lList'[i] # lList[j]
                   PROVE  /\ n = LSize
                          /\ \A i \in 1 .. n : \E l \in 1 .. h + 1 :
                               /\ lHist'[l] = lList'[i]
                               /\ \A m \in l .. h + 1 : lHist'[m] # lHist'[k]
      BY <2>2, <1>9
    <3>2. j = p /\ p = LSize /\ n = LSize
      BY <3>1, <1>2, <1>4
    <3>3. ASSUME NEW i \in 1 .. n
          PROVE  \E l \in 1 .. h + 1 :
                   lHist'[l] = lList'[i] /\ \A m \in l .. h + 1 : lHist'[m] # lHist'[k]
      <4>1. CASE i = 1
        BY <4>1, <2>2, <1>2, <1>7
      <4>2. CASE i \in 2 .. n
        <5>1. o[i] \in 1 .. p /\ lList'[i] = lList[o[i]] /\ o[i] # j
          BY <4>2, <1>10, <3>1, <3>3
        <5>2. o[i] < j
          BY <5>1, <3>2
        <5>3. Later(lList[o[i]], lList[j])
          BY <5>1, <5>2, <1>4 DEF LInv, LimiterSafe
        <5> QED BY <5>1, <5>3, <2>2, <1>6
      <4> QED BY <4>1, <4>2, <1>8
    <3> QED BY <3>2, <3>3
  <2>3. CASE lHist'[k] # c
    <3>1. k \in 1 .. h /\ lHist'[k] = lHist[k]
      BY <2>3, <1>5
    <3>2. \/ lHist[k] \in ToSet(lList)
          \/ p = LSize /\ \A i \in 1 .. p : Later(lList[i], lHist[k])
      BY <3>1, <1>4 DEF LInv, LimiterSafe
    <3>3. CASE lHist[k] \in ToSet(lList)
      <4>1. PICK j \in 1 .. p : lList[j] = lHist[k]
        BY <3>3, <1>9
      <4> QED BY <4>1, <3>1, <2>2, <2>3
    <3>4. CASE p = LSize /\ \A i \in 1 .. p : Later(lList[i], lHist[k])
      <4>1. n = LSize
        BY <3>4, <1>2, <1>4
      <4>2. ASSUME NEW i \in 1 .. n
            PROVE  \E l \in 1 .. h + 1 :
                     lHist'[l] = lList'[i] /\ \A m \in l .. h + 1 : lHist'[m] # lHist'[k]
        <5>1. CASE i = 1
          BY <5>1, <2>3, <1>2, <1>7
        <5>2. CASE i \in 2 .. n
          <6>1. o[i] \in 1 .. p /\ lList'[i] = lList[o[i]]
            BY <5>2, <1>10
          <6>2. Later(lList[o[i]], lHist[k])
            BY <6>1, <3>4
          <6> QED BY <6>1, <6>2, <3>1, <2>3, <1>6
        <5> QED BY <5>1, <5>2, <1>8
      <4> QED BY <4>1, <4>2
    <3> QED BY <3>2, <3>3, <3>4
  <2> QED BY <2>1, <2>3
<1>14. ToSet(lList') \subseteq ToSet(lHist')
  <2>1. c \in ToSet(lHist') /\ ToSet(lHist) \subseteq ToSet(lHist')
    BY <1>5, <1>9
  <2>2. ToSet(lList) \subseteq ToSet(lHist)
    BY DEF LInv, LimiterSafe
  <2>3. ASSUME NEW i \in 1 .. n
        PROVE  lList'[i] \in ToSet(lHist')
    <3>1. CASE i = 1
      BY <3>1, <2>1, <1>2
    <3>2. CASE i \in 2 .. n
      BY <3>2, <2>1, <2>2, <1>10
    <3> QED BY <3>1, <3>2, <1>8
  <2> QED BY <2>3, <1>9
<1>15. DOMAIN lClients' = ToSet(lList') /\ \A d \in DOMAIN lClients' : lClients'[d] \in 0 .. LBurst
  BY <1>11 DEF LTyped
<1>16. LimiterSafe'
  <2>1. Len(lList') = n /\ Len(lHist') = h + 1
    BY <1>4, <1>5
  <2>2. (\A i, j \in 1 .. Len(lList) : i < j => Later(lList[i], lList[j]))'
    <3>1. \A i, j \in 1 .. Len(lList') : i < j => \E k \in 1 .. Len(lHist') :
            lHist'[k] = lList'[i] /\ \A m \in k .. Len(lHist') : lHist'[m] # lList'[j]
      <4> SUFFICES ASSUME NEW i \in 1 .. Len(lList'), NEW j \in 1 .. Len(lList'), i < j
                   PROVE  \E k \in 1 .. Len(lHist') :
                            /\ lHist'[k] = lList'[i]
                            /\ \A m \in k .. Len(lHist') : lHist'[m] # lList'[j]
        OBVIOUS
      <4>1. i \in 1 .. n /\ j \in 1 .. n
        BY <2>1
      <4>2. PICK k \in 1 .. h + 1 :
              lHist'[k] = lList'[i] /\ \A m \in k .. h + 1 : lHist'[m] # lList'[j]
        BY <4>1, <1>12
      <4> QED BY <4>2, <2>1, Zenon
    <3> QED BY <3>1, Zenon DEF Later
  <2>3. (\A k \in 1 .. Len(lHist) :
            \/ lHist[k] \in ToSet(lList)
            \/ Len(lList) = LSize /\ \A i \in 1 .. Len(lList) : Later(lList[i], lHist[k]))'
    <3>1. \A k \in 1 .. Len(lHist') :
            \/ lHist'[k] \in ToSet(lList')
            \/ /\ Len(lList') = LSize
               /\ \A i \in 1 .. Len(lList') : \E l \in 1 .. Len(lHist') :
                    /\ lHist'[l] = lList'[i]
                    /\ \A m \in l .. Len(lHist') : lHist'[m] # lHist'[k]
      <4> SUFFICES ASSUME NEW k \in 1 .. Len(lHist'), lHist'[k] \notin ToSet(lList')
                   PROVE  /\ Len(lList') = LSize
                          /\ \A i \in 1 .. Len(lList') : \E l \in 1 .. Len(lHist') :
                               /\ lHist'[l] = lList'[i]
                               /\ \A m \in l .. Len(lHist') : lHist'[m] # lHist'[k]
        OBVIOUS
      <4>1. k \in 1 .. h + 1
        BY <2>1
      <4>2. n = LSize /\ \A i \in 1 .. n : \E l \in 1 .. h + 1 :
              lHist'[l] = lList'[i] /\ \A m \in l .. h + 1 : lHist'[m] # lHist'[k]
        BY <4>1, <1>13, Zenon
      <4>3. ASSUME NEW i \in 1 .. Len(lList')
            PROVE  \E l \in 1 .. Len(lHist') :
                     lHist'[l] = lList'[i] /\ \A m \in l .. Len(lHist') : lHist'[m] # lHist'[k]
        <5>1. PICK l \in 1 .. h + 1 :
                lHist'[l] = lList'[i] /\ \A m \in l .. h + 1 : lHist'[m] # lHist'[k]
          BY <4>2, <2>1
        <5> QED BY <5>1, <2>1, Zenon
      <4> QED BY <4>2, <4>3, <2>1
    <3> QED BY <3>1, Zenon DEF Later
  <2>4. (ToSet(lList) \subseteq ToSet(lHist) /\ Len(lList) <= LSize)'
    BY <1>2, <1>14, LAssumption
  <2> QED BY <2>2, <2>3, <2>4, <1>15 DEF LimiterSafe
<1> QED BY <1>11, <1>16 DEF LInv

\* Time keeps it.
LEMMA LRefillStep ==
  ASSUME LInv, NEW c \in LClients, LRefill(c)
  PROVE  LInv'
<1>1. /\ UNCHANGED <<lList, lHist>> /\ c \in DOMAIN lClients /\ lClients[c] < LBurst
      /\ lClients' = [lClients EXCEPT ![c] = @ + 1] /\ LBurst \in Nat
      /\ lClients \in [ToSet(lList) -> 0 .. LBurst]
  BY LAssumption DEF LRefill, LInv, LTyped
<1>2. lClients' \in [ToSet(lList) -> 0 .. LBurst]
  BY <1>1
<1>3. DOMAIN lClients' = ToSet(lList) /\ \A d \in DOMAIN lClients' : lClients'[d] \in 0 .. LBurst
  BY <1>2
<1>4. LTyped'
  BY <1>1, <1>2 DEF LInv, LTyped
<1> QED BY <1>1, <1>3, <1>4 DEF LInv, LimiterSafe, Later

\* It holds when nothing has been asked yet, at the start and after a close.
LEMMA LEmpty ==
  lClients = <<>> /\ lList = <<>> /\ lHist = <<>> => LInv
<1> SUFFICES ASSUME lClients = <<>>, lList = <<>>, lHist = <<>>
             PROVE  LInv
  OBVIOUS
<1>1. LSize \in Nat /\ LBurst \in Nat
  BY LAssumption
<1>2. ToSet(lList) = {} /\ ToSet(lHist) = {} /\ Len(lList) = 0 /\ Len(lHist) = 0
      /\ 1 .. 0 = {} /\ DOMAIN lClients = {}
  BY DEF ToSet
<1>3. lClients \in [ToSet(lList) -> 0 .. LBurst]
  BY <1>2
<1>4. LTyped
  BY <1>3 DEF LTyped
<1>5. LimiterSafe
  BY <1>1, <1>2 DEF LimiterSafe
<1> QED BY <1>4, <1>5 DEF LInv

\* The limiters that a port keeps are those of its last clients, for every
\* number of clients and of requests (ratelimit.go, get).
THEOREM LimiterSafety == LSpec => []LimiterSafe
<1>1. LInit => LInv
  BY LEmpty DEF LInit
<1>2. LInv /\ [LNext]_lvars => LInv'
  <2> SUFFICES ASSUME LInv, [LNext]_lvars
               PROVE  LInv'
    OBVIOUS
  <2>1. ASSUME NEW c \in LClients, LRequest(c)
        PROVE  LInv'
    BY <2>1, LRequestStep
  <2>2. ASSUME NEW c \in LClients, LRefill(c)
        PROVE  LInv'
    BY <2>2, LRefillStep
  <2>3. CASE LClose
    <3>1. (lClients = <<>> /\ lList = <<>> /\ lHist = <<>>)'
      BY <2>3 DEF LClose
    <3> QED BY <3>1, LEmpty, PTL
  <2>4. CASE UNCHANGED lvars
    BY <2>4 DEF lvars, LInv, LTyped, LimiterSafe, Later
  <2> QED BY <2>1, <2>2, <2>3, <2>4 DEF LNext
<1>3. LInv => LimiterSafe
  BY DEF LInv
<1> QED BY <1>1, <1>2, <1>3, PTL DEF LSpec

-----------------------------------------------------------------------------
(* The access log. *)

\* What the variables hold.
GTyped ==
  /\ gLines \in [0 .. GSize - 1 -> Int] /\ gPos \in 0 .. GSize - 1 /\ gFull \in BOOLEAN
  /\ gCount \in 0 .. GMaxLines
  /\ gSub \in [Readers -> {"out", "snapshot", "stream", "closed", "gone"}]
  /\ gChan \in [Readers -> Seq(Int)] /\ gGot \in [Readers -> Seq(Int)]
  /\ gPending \in [Readers -> 0 .. 2 * GSize] /\ gFirst \in [Readers -> Nat]
  /\ \A r \in Readers : Len(gChan[r]) <= GSize

\* The ring: what is before the position was written last.
GRing ==
  IF gFull
  THEN /\ gCount >= GSize
       /\ \A i \in 0 .. GSize - 1 :
            gLines[i] = IF i < gPos THEN gCount - gPos + i + 1
                                    ELSE gCount - gPos - GSize + i + 1
  ELSE gPos = gCount /\ \A i \in 0 .. gPos - 1 : gLines[i] = i + 1

\* Nobody has what has not been written, and who has not subscribed has nothing.
GKnown ==
  \A r \in Readers :
    /\ \A i \in 1 .. Len(Shown(r)) : Shown(r)[i] <= gCount
    /\ gSub[r] = "out" => gChan[r] = <<>> /\ gPending[r] = 0

\* The inductive invariant.
GInv == GTyped /\ GRing /\ GKnown /\ InOrder /\ GapsAnnounced

\* The elements of a concatenation.
LEMMA ConcatParts ==
  ASSUME NEW s \in Seq(Int), NEW t \in Seq(Int)
  PROVE  /\ s \o t \in Seq(Int) /\ Len(s \o t) = Len(s) + Len(t)
         /\ \A i \in 1 .. Len(s) : (s \o t)[i] = s[i]
         /\ \A i \in Len(s) + 1 .. Len(s) + Len(t) : (s \o t)[i] = t[i - Len(s)]
BY ConcatProperties

\* Three sequences may be joined from either end.
LEMMA ConcatGroups ==
  ASSUME NEW s \in Seq(Int), NEW t \in Seq(Int), NEW u \in Seq(Int)
  PROVE  (s \o t) \o u = s \o (t \o u)
OBVIOUS

\* The first n elements of t are elements of s in their order, and where s has
\* no more of them, a marker; l is the length of s.
Thinned(s, l, t, n) ==
  \E q \in [1 .. n -> 1 .. l + 1] : \A i \in 1 .. n :
    /\ q[i] <= l => t[i] = s[q[i]]
    /\ q[i] = l + 1 => t[i] < 0
    /\ \A j \in i + 1 .. n : q[i] < q[j]

\* Nothing of s is missing, and what was owed to reader r is behind it.
Whole(r, s, l, t, n) ==
  /\ n >= l
  /\ \A i \in 1 .. l : t[i] = s[i]
  /\ \A i \in l + 1 .. n : t[i] < 0
  /\ gPending[r] > 0 => n = l + 1 /\ t[l + 1] < 0

\* A write that gives f to reader r leaves such a page, with the line at its end.
Given(r, f, line) ==
  /\ f.chan \in Seq(Int) /\ Len(f.chan) <= GSize /\ f.got \in Seq(Int)
  /\ f.pending \in 0 .. 2 * GSize
  /\ \E s \in Seq(Int), l \in Nat, t \in Seq(Int), n \in Nat :
       /\ s = Shown(r) /\ l = Len(s)
       /\ t = (gGot[r] \o f.got) \o f.chan /\ Len(t) = n + 1 /\ t[n + 1] = line
       /\ Thinned(s, l, t, n)
       /\ f.pending > 0 \/ Whole(r, s, l, t, n)

\* What a subscriber is given by one write: the page that it had, less what the
\* drain of a full channel lost, perhaps a marker, and the line.
LEMMA FanOut ==
  ASSUME GTyped, NEW r \in Readers, NEW line \in Nat \ {0}, NEW taken \in Rising,
         NEW f, f = fanOut(r, line, taken)
  PROVE  Given(r, f, line)
<1>1. PICK ch \in Seq(Int), old \in Seq(Int), p \in 0 .. 2 * GSize :
        ch = gChan[r] /\ old = gGot[r] /\ p = gPending[r]
  BY DEF GTyped
<1>2. PICK b \in Nat, a \in Nat : b = Len(ch) /\ a = Len(old)
  OBVIOUS
<1>3. b <= GSize /\ GSize \in Nat /\ GSize >= 1
  BY <1>1, <1>2, GAssumption DEF GTyped
<1>4. PICK d \in 0 .. GSize : d = IF p > GSize THEN GSize ELSE p
  BY <1>3
<1>5. d > 0 <=> p > 0
  BY <1>3, <1>4
<1>6. PICK k \in 0 .. GSize : taken \in [1 .. k -> 1 .. GSize]
                              /\ \A i, j \in 1 .. k : i < j => taken[i] < taken[j]
  BY DEF Rising
<1>7. PICK s \in Seq(Int), l \in Nat : s = Shown(r) /\ s = old \o ch /\ l = Len(s)
  <2>1. old \o ch \in Seq(Int) /\ Len(old \o ch) \in Nat
    BY ConcatProperties
  <2> QED BY <2>1, <1>1, Zenon DEF Shown
<1>8. /\ Len(s) = a + b /\ l = a + b
      /\ \A i \in 1 .. a : s[i] = old[i]
      /\ \A i \in a + 1 .. a + b : s[i] = ch[i - a]
  BY <1>2, <1>7, ConcatProperties
<1>9. PICK m \in Seq(Int), z \in Nat :
        /\ z = Len(m) /\ (\A i \in 1 .. b : m[i] = ch[i])
        /\ \/ z = b + 1 /\ m[b + 1] = -d /\ p > 0 /\ b < GSize
           \/ z = b /\ ~(p > 0 /\ b < GSize)
        /\ m = IF p > 0 /\ b < GSize THEN Append(ch, -d) ELSE ch
  <2>1. CASE p > 0 /\ b < GSize
    <3>1. Append(ch, -d) \in Seq(Int) /\ Len(Append(ch, -d)) = b + 1
          /\ (\A i \in 1 .. b : Append(ch, -d)[i] = ch[i]) /\ Append(ch, -d)[b + 1] = -d
      BY <1>2, <1>4
    <3> WITNESS Append(ch, -d) \in Seq(Int), b + 1 \in Nat
    <3> QED BY <2>1, <3>1
  <2>2. CASE ~(p > 0 /\ b < GSize)
    BY <2>2, <1>2
  <2> QED BY <2>1, <2>2
<1>10. z \in Nat /\ b <= z /\ z <= b + 1
  BY <1>9
<1>11. z <= GSize
  BY <1>3, <1>9
<1> DEFINE g == [i \in DOMAIN taken |-> m[taken[i]]]
           pe == IF p > 0 /\ b < GSize THEN 0 ELSE d
<1>12. f = IF z < GSize
           THEN [chan |-> Append(m, line), pending |-> pe, got |-> <<>>]
           ELSE [chan |-> <<line>>, got |-> g, pending |-> Capped(pe + 1 + z - Len(g))]
  BY <1>1, <1>2, <1>4, <1>9 DEF fanOut
<1> HIDE DEF g, pe
<1>13. CASE z < GSize
  <2>1. f.chan = Append(m, line) /\ f.got = <<>> /\ f.pending = pe
    BY <1>12, <1>13
  <2>2. pe \in 0 .. 2 * GSize /\ (pe > 0 \/ (z = b /\ p = 0) \/ z = b + 1)
    BY <1>3, <1>4, <1>5, <1>9, <1>13 DEF pe
  <2>3. f.chan \in Seq(Int) /\ Len(f.chan) = z + 1 /\ f.chan[z + 1] = line
        /\ \A i \in 1 .. z : f.chan[i] = m[i]
    BY <2>1, <1>9
  <2>4. PICK c \in Seq(Int) : c = f.chan
    BY <2>3
  <2>5. PICK t \in Seq(Int) : t = old \o c
    BY ConcatProperties
  <2>6. t = (gGot[r] \o f.got) \o f.chan
    <3>1. old \o <<>> = old
      BY ConcatEmptySeq
    <3> QED BY <3>1, <2>1, <2>4, <2>5, <1>1
  <2>7. /\ Len(t) = a + z + 1
        /\ \A i \in 1 .. a : t[i] = old[i]
        /\ \A i \in a + 1 .. a + z + 1 : t[i] = c[i - a]
    <3>1. Len(c) = z + 1 /\ z + 1 \in Nat
      BY <2>3, <2>4, <1>9
    <3>2. /\ Len(t) = a + (z + 1)
          /\ \A i \in 1 .. a : t[i] = old[i]
          /\ \A i \in a + 1 .. a + (z + 1) : t[i] = c[i - a]
      <4>1. /\ Len(t) = Len(old) + Len(c)
            /\ \A i \in 1 .. Len(old) : t[i] = old[i]
            /\ \A i \in Len(old) + 1 .. Len(old) + Len(c) : t[i] = c[i - Len(old)]
        BY <2>5, ConcatParts
      <4> QED BY <4>1, <3>1, <1>2
    <3>3. a + (z + 1) = a + z + 1
      BY <1>2, <1>9
    <3> QED BY <3>2, <3>3
  <2>8. t[a + z + 1] = line /\ \A i \in a + 1 .. a + z : t[i] = m[i - a]
    <3>1. c[z + 1] = line /\ \A i \in 1 .. z : c[i] = m[i]
      BY <2>3, <2>4
    <3>2. a + z + 1 \in a + 1 .. a + z + 1 /\ a + z + 1 - a = z + 1
      BY <1>2, <1>9
    <3>3. \A i \in a + 1 .. a + z : i \in a + 1 .. a + z + 1 /\ i - a \in 1 .. z
      BY <1>2, <1>9
    <3>4. PICK x \in a + 1 .. a + z + 1 : x = a + z + 1 /\ x - a = z + 1
      BY <3>2
    <3>5. t[x] = c[x - a]
      BY <2>7
    <3>6. t[a + z + 1] = c[z + 1]
      BY <3>4, <3>5
    <3>7. \A i \in a + 1 .. a + z : t[i] = c[i - a]
      BY <3>3, <2>7
    <3> QED BY <3>1, <3>3, <3>6, <3>7
  <2>9. ASSUME NEW i \in 1 .. a + z
        PROVE  (i <= a + b => t[i] = s[i]) /\ (i = a + b + 1 => t[i] < 0)
    <3>1. CASE i <= a
      <4>1. i \in 1 .. a
        BY <3>1
      <4>2. t[i] = s[i]
        BY <4>1, <2>7, <1>8
      <4> QED BY <4>1, <4>2
    <3>2. CASE i > a /\ i <= a + b
      <4>1. i \in a + 1 .. a + b /\ i \in a + 1 .. a + z /\ i - a \in 1 .. b /\ i # a + b + 1
        BY <3>2
      <4>2. t[i] = s[i]
        BY <4>1, <2>8, <1>8, <1>9
      <4> QED BY <4>1, <4>2
    <3>3. CASE i = a + b + 1
      <4>1. z = b + 1 /\ i \in a + 1 .. a + z /\ i - a = b + 1
        BY <3>3, <1>9
      <4>2. m[b + 1] = -d
        BY <4>1, <1>9
      <4>3. t[i] = -d
        BY <4>1, <4>2, <2>8
      <4> QED BY <3>3, <4>1, <4>3, <1>4, <1>5, <1>9
    <3> QED BY <3>1, <3>2, <3>3, <1>9
  <2>10. [i \in 1 .. a + z |-> i] \in [1 .. a + z -> 1 .. a + b + 1]
    <3>1. \A i \in 1 .. a + z : i \in 1 .. a + b + 1
      BY <1>2, <1>9
    <3> QED BY <3>1
  <2>11. PICK q \in [1 .. a + z -> 1 .. a + b + 1] : q = [i \in 1 .. a + z |-> i]
    BY <2>10
  <2>12. \A i \in 1 .. a + z :
           /\ q[i] <= a + b => t[i] = s[q[i]]
           /\ q[i] = a + b + 1 => t[i] < 0
           /\ \A j \in i + 1 .. a + z : q[i] < q[j]
    BY <2>9, <2>11
  <2>13. a + z \in Nat /\ a + z + 1 = (a + z) + 1
    BY <1>2, <1>9
  <2>14. PICK n \in Nat : n = a + z
    BY <2>13
  <2>15. \A i \in 1 .. a + b : i \in 1 .. a + z /\ i <= a + b
    BY <1>10
  <2>16. z >= b /\ \A i \in 1 .. a + b : t[i] = s[i]
    BY <2>9, <2>15, <1>10
  <2>17. q \in [1 .. n -> 1 .. l + 1] /\ \A i \in 1 .. n :
           /\ q[i] <= l => t[i] = s[q[i]]
           /\ q[i] = l + 1 => t[i] < 0
           /\ \A j \in i + 1 .. n : q[i] < q[j]
    BY <2>12, <2>14, <1>8
  <2>18. /\ n >= l
         /\ \A i \in 1 .. l : t[i] = s[i]
         /\ \A i \in l + 1 .. n : t[i] < 0
    <3>1. \A i \in a + b + 1 .. a + z : i = a + b + 1 /\ i \in 1 .. a + z
      BY <1>10
    <3>2. \A i \in a + b + 1 .. a + z : t[i] < 0
      BY <3>1, <2>9
    <3>3. n = a + z /\ l = a + b
      BY <2>14, <1>8
    <3> QED BY <3>2, <3>3, <2>16
  <2>19. f.pending > 0 \/ (gPending[r] > 0 => n = l + 1 /\ t[l + 1] < 0)
    BY <2>1, <2>2, <2>9, <2>14, <1>1, <1>8
  <2>20. Len(t) = n + 1 /\ t[n + 1] = line
    BY <2>7, <2>8, <2>13, <2>14
  <2>21. Len(f.chan) <= GSize /\ f.got \in Seq(Int)
    BY <2>1, <2>3, <1>3, <1>13
  <2>22. f.chan \in Seq(Int) /\ f.pending \in 0 .. 2 * GSize
    BY <2>1, <2>2, <2>3
  <2>23. \E s2 \in Seq(Int), l2 \in Nat, t2 \in Seq(Int), n2 \in Nat :
           /\ s2 = Shown(r) /\ l2 = Len(s2)
           /\ t2 = (gGot[r] \o f.got) \o f.chan /\ Len(t2) = n2 + 1 /\ t2[n2 + 1] = line
           /\ Thinned(s2, l2, t2, n2)
           /\ f.pending > 0 \/ Whole(r, s2, l2, t2, n2)
    <3> s \in Seq(Int) /\ l \in Nat /\ t \in Seq(Int) /\ n \in Nat
      BY <1>7, <2>5, <2>14
    <3> WITNESS s \in Seq(Int), l \in Nat, t \in Seq(Int), n \in Nat
    <3>1. Thinned(s, l, t, n)
      BY <2>17, Zenon DEF Thinned
    <3>2. f.pending > 0 \/ Whole(r, s, l, t, n)
      BY <2>18, <2>19, <2>20, Zenon DEF Whole
    <3> QED BY <3>1, <3>2, <2>6, <2>18, <2>19, <2>20, <1>7, Zenon
  <2> QED BY <2>23, <2>21, <2>22, Zenon DEF Given
<1>14. CASE ~(z < GSize)
  <2>1. z = GSize
    BY <1>3, <1>11, <1>14
  <2>2. f.chan = <<line>> /\ f.got = g /\ f.pending = Capped(pe + 1 + z - Len(g))
    BY <1>12, <1>14
  <2>3. g \in Seq(Int) /\ Len(g) = k /\ \A i \in 1 .. k : g[i] = m[taken[i]]
    BY <1>6, <1>9, <2>1 DEF g
  <2>4. pe \in 0 .. GSize
    BY <1>3, <1>4 DEF pe
  <2>5. f.pending \in 0 .. 2 * GSize /\ f.pending > 0
    <3>1. PICK x \in Nat : x = pe + 1 + z - Len(g) /\ x > 0
      BY <2>1, <2>3, <2>4, <1>3
    <3>2. f.pending = IF x > 2 * GSize THEN GSize ELSE x
      BY <2>2, <3>1 DEF Capped
    <3> QED BY <3>1, <3>2, <1>3
  <2>6. PICK v \in Seq(Int) : v = g
    BY <2>3
  <2>7. PICK u \in Seq(Int) : u = old \o v
    BY ConcatProperties
  <2>8. /\ Len(u) = a + k
        /\ \A i \in 1 .. a : u[i] = old[i]
        /\ \A i \in a + 1 .. a + k : u[i] = v[i - a]
    <3>1. /\ Len(u) = Len(old) + Len(v)
          /\ \A i \in 1 .. Len(old) : u[i] = old[i]
          /\ \A i \in Len(old) + 1 .. Len(old) + Len(v) : u[i] = v[i - Len(old)]
      BY <2>7, ConcatParts
    <3>2. Len(v) = k
      BY <2>3, <2>6
    <3> QED BY <3>1, <3>2, <1>2
  <2>9. Append(u, line) \in Seq(Int)
    OBVIOUS
  <2>10. PICK t \in Seq(Int) : t = Append(u, line)
    BY <2>9
  <2>11. Append(u, line) = u \o <<line>>
    BY AppendIsConcat
  <2>12. t = (gGot[r] \o f.got) \o f.chan
    BY <2>2, <2>6, <2>7, <2>10, <2>11, <1>1
  <2>13. Len(t) = a + k + 1 /\ t[a + k + 1] = line /\ \A i \in 1 .. a + k : t[i] = u[i]
    <3>1. /\ Len(t) = Len(u) + 1 /\ t[Len(u) + 1] = line
          /\ \A i \in 1 .. Len(u) : t[i] = u[i]
      BY <2>10
    <3> QED BY <3>1, <2>8
  <2> DEFINE qq == [i \in 1 .. a + k |-> IF i <= a THEN i ELSE a + taken[i - a]]
  <2>14. PICK tk \in [1 .. k -> 1 .. GSize] : tk = taken
    BY <1>6
  <2>15. ASSUME NEW i \in 1 .. a + k
         PROVE  /\ i <= a => qq[i] = i
                /\ i > a => i - a \in 1 .. k /\ tk[i - a] \in 1 .. GSize /\ qq[i] = a + tk[i - a]
    BY <2>14
  <2>16. qq \in [1 .. a + k -> 1 .. a + b + 1]
    <3>1. z <= b + 1
      BY <1>9
    <3> HIDE DEF qq
    <3>2. ASSUME NEW i \in 1 .. a + k
          PROVE  qq[i] \in 1 .. a + b + 1
      <4>1. CASE i <= a
        BY <4>1, <2>15
      <4>2. CASE i > a
        <5>1. PICK x \in 1 .. z : x = tk[i - a]
          BY <4>2, <2>1, <2>15
        <5>2. qq[i] = a + x
          BY <5>1, <4>2, <2>15
        <5>3. a + x \in 1 .. a + b + 1
          BY <3>1
        <5> QED BY <5>2, <5>3
      <4> QED BY <4>1, <4>2
    <3> USE DEF qq
    <3> QED BY <3>2
  <2>17. \A i, j \in 1 .. k : i < j => tk[i] < tk[j]
    BY <2>14, <1>6
  <2>18. ASSUME NEW i \in 1 .. a + k, NEW j \in i + 1 .. a + k
         PROVE  qq[i] < qq[j]
    <3>1. j \in 1 .. a + k /\ i < j
      OBVIOUS
    <3> HIDE DEF qq
    <3>2. CASE i <= a
      <4>1. qq[i] = i
        BY <3>2, <2>15
      <4>2. CASE j <= a
        BY <3>1, <4>1, <4>2, <2>15
      <4>3. CASE j > a
        <5>1. qq[j] = a + tk[j - a] /\ tk[j - a] \in 1 .. GSize
          BY <3>1, <4>3, <2>15
        <5>2. PICK x \in 1 .. GSize : x = tk[j - a]
          BY <5>1
        <5>3. qq[j] = a + x /\ x >= 1
          BY <5>1, <5>2
        <5>4. i < a + x
          BY <3>2, <5>3
        <5> QED BY <4>1, <5>3, <5>4
      <4> QED BY <4>2, <4>3, <3>1
    <3>3. CASE i > a
      <4>1. i - a \in 1 .. k /\ j - a \in 1 .. k /\ i - a < j - a
            /\ qq[i] = a + tk[i - a] /\ qq[j] = a + tk[j - a]
        BY <3>1, <3>3, <2>15
      <4>2. tk[i - a] < tk[j - a]
        BY <4>1, <2>17
      <4>3. tk[i - a] \in Int /\ tk[j - a] \in Int
        BY <4>1
      <4> QED BY <4>1, <4>2, <4>3
    <3> QED BY <3>2, <3>3
  <2> HIDE DEF qq
  <2>19. ASSUME NEW i \in 1 .. a + k
         PROVE  (qq[i] <= a + b => t[i] = s[qq[i]]) /\ (qq[i] = a + b + 1 => t[i] < 0)
    <3>1. CASE i <= a
      <4>1. i \in 1 .. a /\ qq[i] = i /\ i <= a + b /\ i # a + b + 1
        BY <3>1, <2>15
      <4>2. t[i] = s[i]
        BY <4>1, <2>13, <2>8, <1>8
      <4> QED BY <4>1, <4>2
    <3>2. CASE i > a
      <4>1. PICK x \in 1 .. z, y \in 1 .. k : y = i - a /\ x = tk[y]
        BY <3>2, <2>1, <2>15
      <4>2. qq[i] = a + x /\ i \in a + 1 .. a + k
        BY <3>2, <4>1, <2>15
      <4>3. t[i] = v[y] /\ v[y] = m[taken[y]] /\ taken[y] = x
        BY <4>1, <4>2, <2>3, <2>6, <2>8, <2>13, <2>14
      <4>4. CASE x <= b
        <5>1. a + x \in a + 1 .. a + b /\ a + x - a = x /\ x \in 1 .. b /\ a + x # a + b + 1
          BY <4>4
        <5>2. s[a + x] = m[x]
          BY <5>1, <1>8, <1>9
        <5> QED BY <5>1, <5>2, <4>2, <4>3
      <4>5. CASE x = b + 1
        <5>1. z = b + 1 /\ t[i] = -d /\ -d < 0
          BY <4>3, <4>5, <1>4, <1>5, <1>9
        <5> QED BY <4>2, <4>5, <5>1
      <4>6. x <= b \/ x = b + 1
        BY <1>10
      <4> QED BY <4>4, <4>5, <4>6
    <3> QED BY <3>1, <3>2
  <2>20. PICK n \in Nat : n = a + k
    BY <1>2, <1>6
  <2>21. PICK q \in [1 .. n -> 1 .. l + 1] : q = qq
    BY <2>16, <2>20, <1>8
  <2>22. \A i \in 1 .. n :
           /\ q[i] <= l => t[i] = s[q[i]]
           /\ q[i] = l + 1 => t[i] < 0
           /\ \A j \in i + 1 .. n : q[i] < q[j]
    BY <2>18, <2>19, <2>20, <2>21, <1>8
  <2>23. Len(t) = n + 1 /\ t[n + 1] = line
    BY <2>13, <2>20
  <2>24. f.chan \in Seq(Int) /\ Len(f.chan) <= GSize /\ f.got \in Seq(Int)
    BY <2>2, <2>3, <1>3
  <2>25. \E s2 \in Seq(Int), l2 \in Nat, t2 \in Seq(Int), n2 \in Nat :
           /\ s2 = Shown(r) /\ l2 = Len(s2)
           /\ t2 = (gGot[r] \o f.got) \o f.chan /\ Len(t2) = n2 + 1 /\ t2[n2 + 1] = line
           /\ Thinned(s2, l2, t2, n2)
           /\ f.pending > 0 \/ Whole(r, s2, l2, t2, n2)
    <3> s \in Seq(Int) /\ l \in Nat /\ t \in Seq(Int) /\ n \in Nat
      BY <1>7, <2>10, <2>20
    <3> WITNESS s \in Seq(Int), l \in Nat, t \in Seq(Int), n \in Nat
    <3>1. Thinned(s, l, t, n)
      BY <2>21, <2>22, Zenon DEF Thinned
    <3>2. f.pending > 0 \/ Whole(r, s, l, t, n)
      BY <2>5, Zenon DEF Whole
    <3> QED BY <3>1, <3>2, <2>5, <2>12, <2>23, <1>7, Zenon
  <2> QED BY <2>25, <2>5, <2>24, Zenon DEF Given
<1> QED BY <1>13, <1>14

\* Page t, of n entries, is in order and ends with line c.
Orderly(t, n, c) ==
  /\ \A i \in 1 .. n : t[i] <= c
  /\ \A i, j \in 1 .. n : i < j /\ IsLine(t[i]) /\ IsLine(t[j]) => t[i] < t[j]
  /\ \E i \in 1 .. n : t[i] = c /\ \A j \in i + 1 .. n : ~IsLine(t[j])

\* Its gaps after line `first' are announced, or something is pending.
Announced(t, n, first, pending) ==
  \A i \in 1 .. n :
    IsLine(t[i]) /\ t[i] > first + 1 /\ (\A j \in 1 .. i - 1 : t[j] # t[i] - 1) =>
      pending > 0 \/ \E j \in i + 1 .. n : ~IsLine(t[j])

\* The page of a subscriber after a write: still in order, with the line at its
\* end, and with every new gap announced.
LEMMA PageOfWrite ==
  ASSUME GInv, NEW r \in Subscribers, NEW taken \in Rising,
         NEW f, f = fanOut(r, gCount + 1, taken)
  PROVE  \E t \in Seq(Int), n \in Nat :
           /\ t = (gGot[r] \o f.got) \o f.chan /\ Len(t) = n
           /\ Orderly(t, n, gCount + 1) /\ Announced(t, n, gFirst[r], f.pending)
<1>1. r \in Readers /\ GTyped
  BY DEF Subscribers, GInv
<1>2. PICK c \in Nat, line \in Nat \ {0}, l0 \in Nat :
        c = gCount /\ line = gCount + 1 /\ l0 = gFirst[r]
  <2>1. gCount \in Nat /\ gFirst[r] \in Nat
    BY <1>1, GAssumption DEF GTyped
  <2>2. gCount + 1 \in Nat \ {0}
    BY <2>1
  <2> QED BY <2>1, <2>2, Zenon
<1>3. PICK s \in Seq(Int), l \in Nat, t \in Seq(Int), n \in Nat :
        /\ s = Shown(r) /\ l = Len(s)
        /\ t = (gGot[r] \o f.got) \o f.chan /\ Len(t) = n + 1 /\ t[n + 1] = line
        /\ Thinned(s, l, t, n)
        /\ f.pending > 0 \/ Whole(r, s, l, t, n)
  <2>1. f = fanOut(r, line, taken)
    BY <1>2
  <2>2. taken \in Rising /\ line \in Nat \ {0} /\ r \in Readers /\ GTyped
    BY <1>1, <1>2
  <2>3. Given(r, f, line)
    BY <2>1, <2>2, FanOut
  <2> QED BY <2>3, Zenon DEF Given
<1>4. s = Shown(r) /\ l = Len(s)
  BY <1>3
<1>5. PICK q \in [1 .. n -> 1 .. l + 1] : \A i \in 1 .. n :
        /\ q[i] <= l => t[i] = s[q[i]]
        /\ q[i] = l + 1 => t[i] < 0
        /\ \A j \in i + 1 .. n : q[i] < q[j]
  BY <1>3 DEF Thinned
<1>6. Len(t) = n + 1 /\ t[n + 1] = line
  BY <1>3
<1>7. \A i \in 1 .. l : s[i] <= c
  BY <1>1, <1>2, <1>4 DEF GInv, GKnown
<1>8. \A i, j \in 1 .. l : i < j /\ s[i] > 0 /\ s[j] > 0 => s[i] < s[j]
  BY <1>1, <1>4 DEF GInv, InOrder, IsLine
<1>9. c > 0 => \E i \in 1 .. l : s[i] = c /\ \A j \in i + 1 .. l : ~(s[j] > 0)
  BY <1>1, <1>2, <1>4 DEF GInv, InOrder, IsLine
<1>10. \A i \in 1 .. l :
         s[i] > 0 /\ s[i] > l0 + 1 /\ (\A j \in 1 .. i - 1 : s[j] # s[i] - 1) =>
           gPending[r] > 0 \/ \E j \in i + 1 .. l : ~(s[j] > 0)
  BY <1>2, <1>4 DEF GInv, GapsAnnounced, IsLine
<1>11. ASSUME NEW i \in 1 .. n
       PROVE  \/ q[i] \in 1 .. l /\ t[i] = s[q[i]] /\ t[i] <= c
              \/ t[i] < 0
  <2>1. CASE q[i] <= l
    BY <2>1, <1>5, <1>7
  <2>2. CASE q[i] = l + 1
    BY <2>2, <1>5
  <2> QED BY <2>1, <2>2, <1>5
<1>12. \A i \in 1 .. n + 1 : t[i] <= line
  <2> SUFFICES ASSUME NEW i \in 1 .. n + 1
               PROVE  t[i] <= line
    OBVIOUS
  <2>1. PICK x \in Int : x = t[i]
    BY <1>6
  <2>2. CASE i = n + 1
    BY <2>2, <1>6
  <2>3. CASE i # n + 1
    <3>1. i \in 1 .. n
      BY <2>3
    <3>2. x <= c \/ x < 0
      BY <3>1, <2>1, <1>11
    <3>3. c <= line
      BY <1>2
    <3> QED BY <3>2, <3>3, <2>1
  <2> QED BY <2>2, <2>3
<1>13. ASSUME NEW i \in 1 .. n + 1, NEW j \in 1 .. n + 1, i < j, t[i] > 0, t[j] > 0
       PROVE  t[i] < t[j]
  <2>1. PICK x \in Int, y \in Int : x = t[i] /\ y = t[j]
    <3>1. t[i] \in Int /\ t[j] \in Int
      BY <1>6
    <3> QED BY <3>1, Zenon
  <2>2. i \in 1 .. n
    BY <1>13
  <2>3. q[i] \in 1 .. l /\ t[i] = s[q[i]] /\ t[i] <= c
    BY <2>1, <2>2, <1>11, <1>13
  <2>4. CASE j = n + 1
    BY <2>1, <2>3, <2>4, <1>2, <1>6
  <2>5. CASE j # n + 1
    <3>1. j \in i + 1 .. n /\ j \in 1 .. n
      BY <2>5, <1>13
    <3>2. q[j] \in 1 .. l /\ t[j] = s[q[j]]
      BY <3>1, <2>1, <1>11, <1>13
    <3>3. q[i] < q[j]
      BY <3>1, <2>2, <1>5
    <3> QED BY <3>2, <3>3, <2>3, <1>8, <1>13
  <2> QED BY <2>4, <2>5
<1>14. ASSUME NEW i \in 1 .. n + 1, t[i] > 0, t[i] > l0 + 1,
              \A j \in 1 .. i - 1 : t[j] # t[i] - 1
       PROVE  f.pending > 0 \/ \E j \in i + 1 .. n + 1 : ~(t[j] > 0)
  <2> SUFFICES ASSUME ~(f.pending > 0)
               PROVE  \E j \in i + 1 .. n + 1 : ~(t[j] > 0)
    OBVIOUS
  <2>1. /\ n >= l /\ \A k \in 1 .. l : t[k] = s[k]
        /\ \A k \in l + 1 .. n : t[k] < 0
        /\ gPending[r] > 0 => n = l + 1 /\ t[l + 1] < 0
    BY <1>3 DEF Whole
  <2>2. CASE i = n + 1
    <3>1. c > 0
      BY <2>2, <1>2, <1>6, <1>14
    <3>2. PICK k \in 1 .. l : s[k] = c
      BY <3>1, <1>9
    <3>3. k \in 1 .. i - 1 /\ t[k] = c
      BY <3>2, <2>1, <2>2
    <3>4. t[i] - 1 = c
      BY <2>2, <1>2, <1>6
    <3> QED BY <3>3, <3>4, <1>14
  <2>3. CASE i # n + 1
    <3>1. i \in 1 .. n
      BY <2>3
    <3>2. CASE i > l
      <4>1. i \in l + 1 .. n
        BY <3>1, <3>2
      <4>2. PICK x \in Int : x = t[i]
        BY <1>6
      <4> QED BY <4>1, <4>2, <2>1, <1>14
    <3>3. CASE i <= l
      <4>1. i \in 1 .. l /\ t[i] = s[i] /\ \A j \in 1 .. i - 1 : j \in 1 .. l /\ t[j] = s[j]
        BY <3>3, <2>1
      <4>2. gPending[r] > 0 \/ \E j \in i + 1 .. l : ~(s[j] > 0)
        BY <4>1, <1>10, <1>14
      <4>3. CASE gPending[r] > 0
        <5>1. n = l + 1 /\ t[l + 1] < 0 /\ l + 1 \in i + 1 .. n + 1
          BY <4>3, <3>3, <2>1
        <5>2. PICK x \in Int : x = t[l + 1]
          BY <5>1, <1>6
        <5> QED BY <5>1, <5>2
      <4>4. CASE \E j \in i + 1 .. l : ~(s[j] > 0)
        <5>1. PICK j \in i + 1 .. l : ~(s[j] > 0)
          BY <4>4
        <5>2. j \in 1 .. l /\ j \in i + 1 .. n + 1
          BY <2>1
        <5> QED BY <5>1, <5>2, <2>1
      <4> QED BY <4>2, <4>3, <4>4
    <3> QED BY <3>2, <3>3
  <2> QED BY <2>2, <2>3
<1>15. n + 1 \in 1 .. n + 1 /\ \A j \in n + 1 + 1 .. n + 1 : FALSE
  OBVIOUS
<1>16. \E i \in 1 .. n + 1 : t[i] = line /\ \A j \in i + 1 .. n + 1 : ~IsLine(t[j])
  BY <1>6, <1>15
<1>17. \A i, j \in 1 .. n + 1 : i < j /\ IsLine(t[i]) /\ IsLine(t[j]) => t[i] < t[j]
  BY <1>13 DEF IsLine
<1>18. \A i \in 1 .. n + 1 :
         IsLine(t[i]) /\ t[i] > gFirst[r] + 1 /\ (\A j \in 1 .. i - 1 : t[j] # t[i] - 1) =>
           f.pending > 0 \/ \E j \in i + 1 .. n + 1 : ~IsLine(t[j])
  BY <1>2, <1>14 DEF IsLine
<1>19. PICK k \in Nat : k = n + 1
  OBVIOUS
<1>20. t = (gGot[r] \o f.got) \o f.chan /\ Len(t) = k /\ line = gCount + 1
  BY <1>2, <1>3, <1>19, Zenon
<1> t \in Seq(Int) /\ k \in Nat
  BY <1>3, <1>19
<1> WITNESS t \in Seq(Int), k \in Nat
<1>21. Orderly(t, k, gCount + 1)
  BY <1>12, <1>16, <1>17, <1>19, <1>20, Zenon DEF Orderly
<1>22. Announced(t, k, gFirst[r], f.pending)
  BY <1>18, <1>19, Zenon DEF Announced
<1> QED BY <1>20, <1>21, <1>22, Zenon

\* The snapshot is the last lines that the ring can hold.
LEMMA RingIsExact ==
  ASSUME GTyped, GRing
  PROVE  /\ RingExact
         /\ snapshotLocked \in Seq(Int)
         /\ \A i \in 1 .. Len(snapshotLocked) : snapshotLocked[i] <= gCount
         /\ \A i, j \in 1 .. Len(snapshotLocked) : i < j => snapshotLocked[i] < snapshotLocked[j]
         /\ gCount > 0 => /\ Len(snapshotLocked) \in 1 .. Len(snapshotLocked)
                          /\ snapshotLocked[Len(snapshotLocked)] = gCount
<1>1. PICK c \in Nat, p \in Nat, g \in Nat \ {0} : c = gCount /\ p = gPos /\ g = GSize /\ p < g
  <2>1. gCount \in Nat /\ gPos \in Nat /\ GSize \in Nat \ {0} /\ gPos < GSize
    BY GAssumption DEF GTyped
  <2> QED BY <2>1, Zenon
<1>2. PICK n \in Nat : n = IF c < g THEN c ELSE g
  BY <1>1
<1>3. PICK w \in Seq(Int) : w = [i \in 1 .. n |-> c - n + i]
  <2>1. [i \in 1 .. n |-> c - n + i] \in Seq(Int)
    OBVIOUS
  <2> QED BY <2>1, Zenon
<1>4. Len(w) = n /\ \A i \in 1 .. n : w[i] = c - n + i
  BY <1>3
<1> DEFINE before == [i \in 1 .. p |-> gLines[i - 1]]
           after  == [i \in 1 .. g - p |-> gLines[p + i - 1]]
<1>5. before \in Seq(Int) /\ after \in Seq(Int)
  <2>1. gLines \in [0 .. g - 1 -> Int]
    BY <1>1 DEF GTyped
  <2>2. \A i \in 1 .. p : gLines[i - 1] \in Int
    BY <2>1, <1>1
  <2>3. \A i \in 1 .. g - p : gLines[p + i - 1] \in Int
    BY <2>1, <1>1
  <2>4. before \in Seq(Int)
    BY <2>2
  <2>5. PICK k \in Nat : k = g - p
    BY <1>1
  <2>6. [i \in 1 .. k |-> gLines[p + i - 1]] \in Seq(Int)
    BY <2>3, <2>5
  <2> QED BY <2>4, <2>5, <2>6
<1>6. PICK be \in Seq(Int), af \in Seq(Int) : be = before /\ af = after
  BY <1>5
<1>7. Len(be) = p /\ (\A i \in 1 .. p : be[i] = gLines[i - 1])
  BY <1>1, <1>6
<1>8. Len(af) = g - p /\ (\A i \in 1 .. g - p : af[i] = gLines[p + i - 1])
  BY <1>1, <1>6
<1>9. snapshotLocked = IF gFull THEN af \o be ELSE be
  BY <1>1, <1>6 DEF snapshotLocked
<1> HIDE DEF before, after
<1>10. ASSUME ~gFull
       PROVE  snapshotLocked = w
  <2>1. p = c /\ \A i \in 0 .. p - 1 : gLines[i] = i + 1
    BY <1>1, <1>10 DEF GRing
  <2>2. n = p
    BY <2>1, <1>1, <1>2
  <2>3. \A i \in 1 .. n : be[i] = w[i]
    <3>1. \A i \in 1 .. n : i - 1 \in 0 .. p - 1 /\ i - 1 + 1 = i /\ c - n + i = i
      BY <2>1, <2>2
    <3> SUFFICES ASSUME NEW i \in 1 .. n
                 PROVE  be[i] = w[i]
      OBVIOUS
    <3>2. be[i] = gLines[i - 1]
      BY <2>2, <1>7
    <3>3. PICK x \in 0 .. p - 1 : x = i - 1 /\ x + 1 = i
      BY <3>1
    <3>4. gLines[x] = i
      BY <3>3, <2>1
    <3>5. w[i] = i
      BY <3>1, <1>4
    <3> QED BY <3>2, <3>3, <3>4, <3>5
  <2>4. Len(be) = n
    BY <2>2, <1>7
  <2>5. be = w
    BY <2>3, <2>4, <1>4, SeqEqual
  <2> QED BY <2>5, <1>9, <1>10
<1>11. ASSUME gFull
       PROVE  snapshotLocked = w
  <2>1. /\ c >= g
        /\ \A i \in 0 .. g - 1 : gLines[i] = IF i < p THEN c - p + i + 1 ELSE c - p - g + i + 1
    BY <1>1, <1>11 DEF GRing
  <2>2. n = g
    BY <2>1, <1>1, <1>2
  <2>3. PICK u \in Seq(Int) : u = af \o be
    BY ConcatParts
  <2>4. /\ Len(u) = g
        /\ \A i \in 1 .. g - p : u[i] = af[i]
        /\ \A i \in g - p + 1 .. g : u[i] = be[i - (g - p)]
    <3>1. /\ Len(u) = Len(af) + Len(be)
          /\ \A i \in 1 .. Len(af) : u[i] = af[i]
          /\ \A i \in Len(af) + 1 .. Len(af) + Len(be) : u[i] = be[i - Len(af)]
      BY <2>3, ConcatParts
    <3> QED BY <3>1, <1>7, <1>8
  <2>5. ASSUME NEW i \in 1 .. g
        PROVE  u[i] = w[i]
    <3>1. w[i] = c - g + i
      BY <2>2, <1>4
    <3>2. CASE i <= g - p
      <4>1. i \in 1 .. g - p /\ p + i - 1 \in 0 .. g - 1 /\ ~(p + i - 1 < p)
        BY <3>2, <1>1
      <4>2. u[i] = gLines[p + i - 1]
        BY <4>1, <2>4, <1>8
      <4>3. PICK x \in 0 .. g - 1 : x = p + i - 1 /\ ~(x < p)
        BY <4>1
      <4>4. gLines[x] = c - p - g + x + 1
        BY <4>3, <2>1
      <4> QED BY <4>2, <4>3, <4>4, <3>1
    <3>3. CASE i > g - p
      <4>1. i \in g - p + 1 .. g /\ i - (g - p) \in 1 .. p
        BY <3>3, <1>1
      <4>2. PICK x \in 1 .. p : x = i - (g - p)
        BY <4>1
      <4>3. u[i] = gLines[x - 1] /\ x - 1 \in 0 .. g - 1 /\ x - 1 < p
        BY <4>1, <4>2, <2>4, <1>1, <1>7
      <4>4. PICK y \in 0 .. g - 1 : y = x - 1 /\ y < p
        BY <4>3
      <4>5. gLines[y] = c - p + y + 1
        BY <4>4, <2>1
      <4> QED BY <4>2, <4>3, <4>4, <4>5, <3>1
    <3> QED BY <3>2, <3>3, <1>1
  <2>6. u = w
    BY <2>2, <2>4, <2>5, <1>4, SeqEqual
  <2> QED BY <2>3, <2>6, <1>9, <1>11
<1>12. snapshotLocked = w
  BY <1>10, <1>11
<1>13. \A i, j \in 1 .. n : i < j => w[i] < w[j]
  BY <1>4
<1>14. \A i \in 1 .. n : w[i] <= c
  BY <1>4
<1>15. c > 0 => n \in 1 .. n /\ w[n] = c
  <2> SUFFICES ASSUME c > 0
               PROVE  n \in 1 .. n /\ w[n] = c
    OBVIOUS
  <2>1. n >= 1
    BY <1>1, <1>2
  <2> QED BY <2>1, <1>4
<1>16. RingExact
  BY <1>1, <1>2, <1>3, <1>12 DEF RingExact
<1> QED BY <1>1, <1>4, <1>12, <1>13, <1>14, <1>15, <1>16

\* The position after the one that is written.
LEMMA NextPosition ==
  ASSUME NEW n \in Nat \ {0}, NEW k \in 0 .. n - 1
  PROVE  (k + 1) % n = IF k + 1 = n THEN 0 ELSE k + 1
OBVIOUS

\* A write keeps the ring.
LEMMA RingStep ==
  ASSUME GTyped, GRing, GWrite
  PROVE  /\ gLines' \in [0 .. GSize - 1 -> Int] /\ gPos' \in 0 .. GSize - 1
         /\ gFull' \in BOOLEAN /\ gCount' \in 0 .. GMaxLines /\ gCount' = gCount + 1
         /\ GRing'
<1>1. PICK g \in Nat \ {0}, p \in Nat, c \in Nat :
        g = GSize /\ p = gPos /\ c = gCount /\ p \in 0 .. g - 1
  <2>1. GSize \in Nat \ {0} /\ gPos \in 0 .. GSize - 1 /\ gCount \in Nat /\ gPos \in Nat
    BY GAssumption DEF GTyped
  <2> QED BY <2>1, Zenon
<1>2. gLines \in [0 .. g - 1 -> Int] /\ gFull \in BOOLEAN
  BY <1>1 DEF GTyped
<1>3. /\ gCount' = c + 1 /\ gLines' = [gLines EXCEPT ![p] = c + 1]
      /\ gPos' = (p + 1) % g /\ gFull' = (gFull \/ (p + 1) % g = 0)
  BY <1>1 DEF GWrite
<1>4. gPos' = IF p + 1 = g THEN 0 ELSE p + 1
  BY <1>1, <1>3, NextPosition
<1>5. (p + 1) % g = 0 <=> p + 1 = g
  BY <1>1, NextPosition
<1>6. gLines' \in [0 .. g - 1 -> Int] /\ gLines'[p] = c + 1
      /\ \A i \in 0 .. g - 1 : i # p => gLines'[i] = gLines[i]
  BY <1>1, <1>2, <1>3
<1>7. gPos' \in 0 .. g - 1
  BY <1>1, <1>4
<1>8. gFull' \in BOOLEAN
  BY <1>3
<1>9. gCount' \in 0 .. GMaxLines /\ gCount' = gCount + 1
  <2>1. gCount < GMaxLines /\ gCount' = gCount + 1 /\ gCount \in Nat /\ GMaxLines \in Nat
    BY GAssumption DEF GWrite, GTyped
  <2> QED BY <2>1
<1>10. CASE gFull
  <2>1. gFull'
    BY <1>3, <1>10
  <2>2. /\ c >= g
        /\ \A i \in 0 .. g - 1 : gLines[i] = IF i < p THEN c - p + i + 1 ELSE c - p - g + i + 1
    BY <1>1, <1>10 DEF GRing
  <2>3. ASSUME NEW i \in 0 .. g - 1
        PROVE  gLines'[i] = IF i < gPos' THEN c + 1 - gPos' + i + 1
                                         ELSE c + 1 - gPos' - g + i + 1
    <3>1. CASE p + 1 = g
      <4>1. gPos' = 0 /\ ~(i < gPos')
        BY <3>1, <1>4
      <4>2. CASE i = p
        BY <4>1, <4>2, <3>1, <1>6
      <4>3. CASE i # p
        <5>1. i < p /\ gLines'[i] = c - p + i + 1
          BY <4>3, <3>1, <2>2, <1>6
        <5> QED BY <5>1, <4>1, <3>1
      <4> QED BY <4>2, <4>3
    <3>2. CASE p + 1 # g
      <4>1. gPos' = p + 1
        BY <3>2, <1>4
      <4>2. CASE i = p
        BY <4>1, <4>2, <1>6
      <4>3. CASE i < p
        <5>1. gLines'[i] = gLines[i]
          BY <4>3, <1>6
        <5>2. gLines[i] = c - p + i + 1
          BY <4>3, <2>2
        <5>3. gLines'[i] = c - p + i + 1
          BY <5>1, <5>2
        <5> QED BY <5>3, <4>1, <4>3
      <4>4. CASE i > p
        <5>1. gLines'[i] = gLines[i]
          BY <4>4, <1>6
        <5>2. gLines[i] = c - p - g + i + 1
          BY <4>4, <2>2
        <5>3. gLines'[i] = c - p - g + i + 1
          BY <5>1, <5>2
        <5> QED BY <5>3, <4>1, <4>4
      <4> QED BY <4>2, <4>3, <4>4
    <3> QED BY <3>1, <3>2
  <2>4. gCount' >= g
    BY <2>2, <1>3
  <2>5. GRing'
    BY <2>1, <2>3, <2>4, <1>1, <1>3 DEF GRing
  <2> QED BY <2>5, <1>1, <1>6, <1>7, <1>8, <1>9
<1>11. CASE ~gFull
  <2>1. p = c /\ \A i \in 0 .. p - 1 : gLines[i] = i + 1
    BY <1>1, <1>11 DEF GRing
  <2>2. CASE p + 1 = g
    <3>1. gFull' /\ gPos' = 0 /\ gCount' = g
      BY <2>1, <2>2, <1>3, <1>4, <1>5
    <3>2. ASSUME NEW i \in 0 .. g - 1
          PROVE  gLines'[i] = i + 1
      <4>1. CASE i = p
        BY <4>1, <2>1, <1>6
      <4>2. CASE i # p
        <5>1. i \in 0 .. p - 1
          BY <4>2, <2>2
        <5> QED BY <5>1, <4>2, <2>1, <1>6
      <4> QED BY <4>1, <4>2
    <3>3. ASSUME NEW i \in 0 .. g - 1
          PROVE  gLines'[i] = IF i < gPos' THEN gCount' - gPos' + i + 1
                                           ELSE gCount' - gPos' - g + i + 1
      BY <3>1, <3>2
    <3>4. gCount' >= g
      BY <3>1
    <3>5. GRing'
      BY <3>1, <3>3, <3>4, <1>1 DEF GRing
    <3> QED BY <3>5, <1>1, <1>6, <1>7, <1>8, <1>9
  <2>3. CASE p + 1 # g
    <3>1. ~gFull' /\ gPos' = p + 1 /\ gCount' = p + 1
      BY <2>1, <2>3, <1>3, <1>4, <1>5, <1>11
    <3>2. ASSUME NEW i \in 0 .. p
          PROVE  gLines'[i] = i + 1
      <4>1. CASE i = p
        BY <4>1, <2>1, <1>6
      <4>2. CASE i # p
        <5>1. i \in 0 .. p - 1 /\ i \in 0 .. g - 1
          BY <4>2, <1>1
        <5> QED BY <5>1, <4>2, <2>1, <1>6
      <4> QED BY <4>1, <4>2
    <3>3. \A i \in 0 .. gPos' - 1 : gLines'[i] = i + 1
      BY <3>1, <3>2
    <3>4. GRing'
      BY <3>1, <3>3 DEF GRing
    <3> QED BY <3>4, <1>1, <1>6, <1>7, <1>8, <1>9
  <2> QED BY <2>2, <2>3
<1> QED BY <1>2, <1>10, <1>11

\* A write keeps the invariant.
LEMMA WriteStep ==
  ASSUME GInv, GWrite
  PROVE  GInv'
<1>1. GTyped /\ GRing /\ GKnown /\ InOrder
  BY DEF GInv
<1>2. /\ gLines' \in [0 .. GSize - 1 -> Int] /\ gPos' \in 0 .. GSize - 1
      /\ gFull' \in BOOLEAN /\ gCount' \in 0 .. GMaxLines /\ gCount' = gCount + 1
      /\ GRing'
  BY <1>1, RingStep
<1>3. gSub' = gSub /\ gFirst' = gFirst /\ Subscribers' = Subscribers
  BY DEF GWrite, Subscribers
<1>4. PICK taken \in [Subscribers -> Rising] :
        /\ gChan' = [r \in Readers |-> IF r \in Subscribers
             THEN fanOut(r, gCount + 1, taken[r]).chan ELSE gChan[r]]
        /\ gPending' = [r \in Readers |-> IF r \in Subscribers
             THEN fanOut(r, gCount + 1, taken[r]).pending ELSE gPending[r]]
        /\ gGot' = [r \in Readers |-> IF r \in Subscribers
             THEN gGot[r] \o fanOut(r, gCount + 1, taken[r]).got ELSE gGot[r]]
  BY DEF GWrite
<1>5. PICK c \in Nat : c = gCount
  BY <1>1, GAssumption DEF GTyped
<1>6. ASSUME NEW r \in Subscribers
      PROVE  /\ gChan'[r] \in Seq(Int) /\ Len(gChan'[r]) <= GSize /\ gGot'[r] \in Seq(Int)
             /\ gPending'[r] \in 0 .. 2 * GSize
             /\ \E t \in Seq(Int), n \in Nat :
                  /\ t = gGot'[r] \o gChan'[r] /\ Len(t) = n
                  /\ Orderly(t, n, gCount + 1) /\ Announced(t, n, gFirst[r], gPending'[r])
  <2>1. r \in Readers /\ taken[r] \in Rising
    BY DEF Subscribers
  <2>2. PICK f : f = fanOut(r, gCount + 1, taken[r])
    OBVIOUS
  <2>3. /\ gChan'[r] = f.chan /\ gPending'[r] = f.pending /\ gGot'[r] = gGot[r] \o f.got
    BY <2>1, <2>2, <1>4
  <2>4. PICK line \in Nat \ {0} : line = gCount + 1
    <3>1. c + 1 \in Nat \ {0}
      OBVIOUS
    <3> QED BY <3>1, <1>5
  <2>5. Given(r, f, line)
    <3>1. f = fanOut(r, line, taken[r])
      BY <2>2, <2>4
    <3> QED BY <3>1, <2>1, <2>4, <1>1, FanOut
  <2>6. f.chan \in Seq(Int) /\ Len(f.chan) <= GSize /\ f.got \in Seq(Int)
        /\ f.pending \in 0 .. 2 * GSize
    BY <2>5, Zenon DEF Given
  <2>7. gGot[r] \o f.got \in Seq(Int)
    <3>1. gGot[r] \in Seq(Int)
      BY <2>1, <1>1 DEF GTyped
    <3> QED BY <3>1, <2>6, ConcatParts
  <2>8. PICK t \in Seq(Int), n \in Nat :
          /\ t = (gGot[r] \o f.got) \o f.chan /\ Len(t) = n
          /\ Orderly(t, n, gCount + 1) /\ Announced(t, n, gFirst[r], f.pending)
    BY <2>1, <2>2, PageOfWrite
  <2>9. t = gGot'[r] \o gChan'[r] /\ Announced(t, n, gFirst[r], gPending'[r])
    BY <2>3, <2>8
  <2>10. \E t2 \in Seq(Int), n2 \in Nat :
           /\ t2 = gGot'[r] \o gChan'[r] /\ Len(t2) = n2
           /\ Orderly(t2, n2, gCount + 1) /\ Announced(t2, n2, gFirst[r], gPending'[r])
    BY <2>8, <2>9, Zenon
  <2> QED BY <2>3, <2>6, <2>7, <2>10
<1>7. ASSUME NEW r \in Readers \ Subscribers
      PROVE  gChan'[r] = gChan[r] /\ gPending'[r] = gPending[r] /\ gGot'[r] = gGot[r]
  BY <1>4
<1>8. ASSUME NEW r \in Readers
      PROVE  /\ gChan'[r] \in Seq(Int) /\ Len(gChan'[r]) <= GSize /\ gGot'[r] \in Seq(Int)
             /\ gPending'[r] \in 0 .. 2 * GSize
  <2>1. CASE r \in Subscribers
    BY <2>1, <1>6
  <2>2. CASE r \notin Subscribers
    BY <2>2, <1>1, <1>7 DEF GTyped
  <2> QED BY <2>1, <2>2
<1>9. GTyped'
  <2>1. gChan' \in [Readers -> Seq(Int)] /\ gGot' \in [Readers -> Seq(Int)]
        /\ gPending' \in [Readers -> 0 .. 2 * GSize]
    <3>1. gChan' = [r \in Readers |-> gChan'[r]] /\ gGot' = [r \in Readers |-> gGot'[r]]
          /\ gPending' = [r \in Readers |-> gPending'[r]]
      BY <1>4
    <3> QED BY <3>1, <1>8
  <2> QED BY <2>1, <1>1, <1>2, <1>3, <1>8 DEF GTyped
<1>10. ASSUME NEW r \in Subscribers
       PROVE  /\ \A i \in 1 .. Len(Shown(r)') : Shown(r)'[i] <= gCount'
              /\ \A i, j \in 1 .. Len(Shown(r)') :
                   i < j /\ IsLine(Shown(r)'[i]) /\ IsLine(Shown(r)'[j]) =>
                     Shown(r)'[i] < Shown(r)'[j]
              /\ \E i \in 1 .. Len(Shown(r)') :
                   /\ Shown(r)'[i] = gCount'
                   /\ \A j \in i + 1 .. Len(Shown(r)') : ~IsLine(Shown(r)'[j])
              /\ \A i \in 1 .. Len(Shown(r)') :
                   /\ IsLine(Shown(r)'[i]) /\ Shown(r)'[i] > gFirst'[r] + 1
                   /\ \A j \in 1 .. i - 1 : Shown(r)'[j] # Shown(r)'[i] - 1
                   => gPending'[r] > 0 \/ \E j \in i + 1 .. Len(Shown(r)') : ~IsLine(Shown(r)'[j])
  <2>1. PICK t \in Seq(Int), n \in Nat :
          /\ t = gGot'[r] \o gChan'[r] /\ Len(t) = n
          /\ Orderly(t, n, gCount + 1) /\ Announced(t, n, gFirst[r], gPending'[r])
    BY <1>6
  <2>2. Shown(r)' = t /\ Len(Shown(r)') = n
    BY <2>1 DEF Shown
  <2>3. Orderly(Shown(r)', Len(Shown(r)'), gCount')
    BY <2>1, <2>2, <1>2
  <2>4. Announced(Shown(r)', Len(Shown(r)'), gFirst'[r], gPending'[r])
    BY <2>1, <2>2, <1>3
  <2> QED BY <2>3, <2>4, Zenon DEF Orderly, Announced
<1>11. ASSUME NEW r \in Readers \ Subscribers
       PROVE  /\ Shown(r)' = Shown(r)
              /\ \A i \in 1 .. Len(Shown(r)') : Shown(r)'[i] <= gCount'
              /\ \A i, j \in 1 .. Len(Shown(r)') :
                   i < j /\ IsLine(Shown(r)'[i]) /\ IsLine(Shown(r)'[j]) =>
                     Shown(r)'[i] < Shown(r)'[j]
  <2>1. Shown(r)' = Shown(r)
    BY <1>7 DEF Shown
  <2>2. PICK s \in Seq(Int) : s = Shown(r)
    <3>1. PICK got \in Seq(Int), ch \in Seq(Int) : got = gGot[r] /\ ch = gChan[r]
      BY <1>1 DEF GTyped
    <3>2. got \o ch \in Seq(Int)
      BY ConcatParts
    <3> QED BY <3>1, <3>2 DEF Shown
  <2>3. \A i \in 1 .. Len(s) : s[i] <= c
    BY <2>2, <1>1, <1>5 DEF GKnown
  <2>4. gCount' = c + 1
    BY <1>2, <1>5
  <2>5. \A i \in 1 .. Len(s) : s[i] <= gCount'
    <3>1. \A i \in 1 .. Len(s) : s[i] \in Int
      OBVIOUS
    <3> QED BY <3>1, <2>3, <2>4
  <2>6. \A i, j \in 1 .. Len(s) : i < j /\ IsLine(s[i]) /\ IsLine(s[j]) => s[i] < s[j]
    BY <2>2, <1>1 DEF InOrder
  <2> QED BY <2>1, <2>2, <2>5, <2>6
<1>12. GKnown'
  <2> SUFFICES ASSUME NEW r \in Readers
               PROVE  (/\ \A i \in 1 .. Len(Shown(r)) : Shown(r)[i] <= gCount
                       /\ gSub[r] = "out" => gChan[r] = <<>> /\ gPending[r] = 0)'
    BY DEF GKnown
  <2>1. (\A i \in 1 .. Len(Shown(r)) : Shown(r)[i] <= gCount)'
    BY <1>10, <1>11
  <2>2. ASSUME gSub'[r] = "out"
        PROVE  gChan'[r] = <<>> /\ gPending'[r] = 0
    <3>1. gSub[r] = "out" /\ r \notin Subscribers
      BY <2>2, <1>3 DEF Subscribers
    <3> QED BY <3>1, <1>1, <1>7 DEF GKnown
  <2> QED BY <2>1, <2>2
<1>13. InOrder'
  <2> SUFFICES ASSUME NEW r \in Readers
               PROVE  (/\ \A i, j \in 1 .. Len(Shown(r)) :
                            i < j /\ IsLine(Shown(r)[i]) /\ IsLine(Shown(r)[j]) =>
                              Shown(r)[i] < Shown(r)[j]
                       /\ r \in Subscribers /\ gCount > 0 =>
                            \E i \in 1 .. Len(Shown(r)) :
                              /\ Shown(r)[i] = gCount
                              /\ \A j \in i + 1 .. Len(Shown(r)) : ~IsLine(Shown(r)[j]))'
    BY DEF InOrder
  <2>1. CASE r \in Subscribers
    BY <2>1, <1>10 DEF IsLine
  <2>2. CASE r \notin Subscribers
    BY <2>2, <1>3, <1>11 DEF IsLine
  <2> QED BY <2>1, <2>2
<1>14. GapsAnnounced'
  <2> SUFFICES ASSUME NEW r \in Subscribers
               PROVE  (\A i \in 1 .. Len(Shown(r)) :
                         /\ IsLine(Shown(r)[i]) /\ Shown(r)[i] > gFirst[r] + 1
                         /\ \A j \in 1 .. i - 1 : Shown(r)[j] # Shown(r)[i] - 1
                         => gPending[r] > 0
                            \/ \E j \in i + 1 .. Len(Shown(r)) : ~IsLine(Shown(r)[j]))'
    BY <1>3 DEF GapsAnnounced
  <2> QED BY <1>10 DEF IsLine
<1> QED BY <1>2, <1>9, <1>12, <1>13, <1>14 DEF GInv

\* A step that changes nobody's page keeps the invariant.
LEMMA SamePages ==
  ASSUME GInv, UNCHANGED <<gLines, gPos, gFull, gCount, gPending, gFirst>>,
         \A r \in Readers : Shown(r)' = Shown(r),
         Subscribers' \subseteq Subscribers,
         gSub' \in [Readers -> {"out", "snapshot", "stream", "closed", "gone"}],
         gChan' \in [Readers -> Seq(Int)], gGot' \in [Readers -> Seq(Int)],
         \A r \in Readers : Len(gChan'[r]) <= GSize,
         \A r \in Readers : gSub'[r] = "out" => gSub[r] = "out" /\ gChan'[r] = gChan[r]
  PROVE  GInv'
<1>1. GTyped'
  BY DEF GInv, GTyped
<1>2. GRing'
  BY DEF GInv, GRing
<1>3. GKnown'
  BY DEF GInv, GKnown
<1>4. InOrder'
  <2> SUFFICES ASSUME NEW r \in Readers
               PROVE  (/\ \A i, j \in 1 .. Len(Shown(r)) :
                            i < j /\ IsLine(Shown(r)[i]) /\ IsLine(Shown(r)[j]) =>
                              Shown(r)[i] < Shown(r)[j]
                       /\ r \in Subscribers /\ gCount > 0 =>
                            \E i \in 1 .. Len(Shown(r)) :
                              /\ Shown(r)[i] = gCount
                              /\ \A j \in i + 1 .. Len(Shown(r)) : ~IsLine(Shown(r)[j]))'
    BY DEF InOrder
  <2>1. InOrder
    BY DEF GInv
  <2> QED BY <2>1 DEF InOrder, IsLine
<1>5. GapsAnnounced'
  <2> SUFFICES ASSUME NEW r \in Subscribers
               PROVE  (\A i \in 1 .. Len(Shown(r)) :
                         /\ IsLine(Shown(r)[i]) /\ Shown(r)[i] > gFirst[r] + 1
                         /\ \A j \in 1 .. i - 1 : Shown(r)[j] # Shown(r)[i] - 1
                         => gPending[r] > 0
                            \/ \E j \in i + 1 .. Len(Shown(r)) : ~IsLine(Shown(r)[j]))'
    BY DEF GapsAnnounced
  <2>1. GapsAnnounced /\ r \in Readers
    BY DEF GInv, Subscribers
  <2> QED BY <2>1 DEF GapsAnnounced, IsLine
<1> QED BY <1>1, <1>2, <1>3, <1>4, <1>5 DEF GInv

\* What a reader takes out of its channel is on its page already.
LEMMA ReadStep ==
  ASSUME GInv, NEW r \in Readers, GRead(r)
  PROVE  GInv'
<1>1. GTyped
  BY DEF GInv
<1>2. PICK got \in Seq(Int), ch \in Seq(Int) : got = gGot[r] /\ ch = gChan[r]
  BY <1>1 DEF GTyped
<1>3. PICK n \in 1 .. Len(ch) :
        /\ gGot' = [gGot EXCEPT ![r] = got \o SubSeq(ch, 1, n)]
        /\ gChan' = [gChan EXCEPT ![r] = SubSeq(ch, n + 1, Len(ch))]
  BY <1>1, <1>2 DEF GRead, GTyped
<1>4. PICK a \in Seq(Int), b \in Seq(Int) :
        a = SubSeq(ch, 1, n) /\ b = SubSeq(ch, n + 1, Len(ch))
  <2>1. SubSeq(ch, 1, n) \in Seq(Int) /\ SubSeq(ch, n + 1, Len(ch)) \in Seq(Int)
    OBVIOUS
  <2> QED BY <2>1, Zenon
<1>5. Len(b) <= Len(ch)
  BY <1>4
<1>6. a \o b = ch
  <2>1. SubSeq(ch, 1, n) \o SubSeq(ch, n + 1, Len(ch)) = SubSeq(ch, 1, Len(ch))
    BY ConcatAdjacentSubSeq
  <2>2. SubSeq(ch, 1, Len(ch)) = ch
    OBVIOUS
  <2> QED BY <2>1, <2>2, <1>4
<1>7. (got \o a) \o b = got \o ch
  <2>1. (got \o a) \o b = got \o (a \o b)
    <3>1. got \in Seq(Int) /\ a \in Seq(Int) /\ b \in Seq(Int)
      BY <1>2, <1>4
    <3> QED BY <3>1, ConcatGroups
  <2> QED BY <2>1, <1>6
<1>8. got \o a \in Seq(Int)
  BY ConcatParts
<1>9. gGot' = [gGot EXCEPT ![r] = got \o a] /\ gChan' = [gChan EXCEPT ![r] = b]
  BY <1>3, <1>4
<1>10. gChan' \in [Readers -> Seq(Int)] /\ gGot' \in [Readers -> Seq(Int)]
  BY <1>1, <1>8, <1>9 DEF GTyped
<1>11. \A q \in Readers : Len(gChan'[q]) <= GSize
  <2> SUFFICES ASSUME NEW q \in Readers
               PROVE  Len(gChan'[q]) <= GSize
    OBVIOUS
  <2>1. CASE q = r
    <3>1. gChan'[q] = b /\ Len(ch) <= GSize
      BY <2>1, <1>1, <1>2, <1>9 DEF GTyped
    <3>2. Len(b) \in Nat /\ Len(ch) \in Nat /\ GSize \in Nat
      BY GAssumption
    <3> QED BY <3>1, <3>2, <1>5
  <2>2. CASE q # r
    BY <2>2, <1>1, <1>9 DEF GTyped
  <2> QED BY <2>1, <2>2
<1>12. \A q \in Readers : Shown(q)' = Shown(q)
  <2> SUFFICES ASSUME NEW q \in Readers
               PROVE  Shown(q)' = Shown(q)
    OBVIOUS
  <2>1. CASE q = r
    <3>1. gGot'[q] = got \o a /\ gChan'[q] = b
      BY <2>1, <1>1, <1>9 DEF GTyped
    <3> QED BY <3>1, <2>1, <1>2, <1>7, Zenon DEF Shown
  <2>2. CASE q # r
    <3>1. gGot'[q] = gGot[q] /\ gChan'[q] = gChan[q]
      BY <2>2, <1>1, <1>9 DEF GTyped
    <3> QED BY <3>1, Zenon DEF Shown
  <2> QED BY <2>1, <2>2
<1>13. UNCHANGED <<gLines, gPos, gFull, gCount, gSub, gPending, gFirst>>
       /\ gSub[r] \in {"stream", "closed"}
  BY DEF GRead
<1>14. Subscribers' \subseteq Subscribers
  BY <1>13 DEF Subscribers
<1>15. \A q \in Readers : gSub'[q] = "out" => gSub[q] = "out" /\ gChan'[q] = gChan[q]
  BY <1>1, <1>9, <1>13 DEF GTyped
<1>16. gSub' \in [Readers -> {"out", "snapshot", "stream", "closed", "gone"}]
  BY <1>1, <1>13 DEF GTyped
<1> QED BY <1>10, <1>11, <1>12, <1>13, <1>14, <1>15, <1>16, SamePages

\* The page of a reader that is rendered, leaves or is closed does not change.
LEMMA StatusStep ==
  ASSUME GInv, GClose \/ (\E r \in Readers : GRender(r) \/ GLeave(r))
  PROVE  GInv'
<1>1. GTyped
  BY DEF GInv
<1>2. UNCHANGED <<gLines, gPos, gFull, gCount, gChan, gPending, gFirst, gGot>>
  BY DEF GClose, GRender, GLeave
<1>3. \A q \in Readers : Shown(q)' = Shown(q)
  BY <1>2 DEF Shown
<1>4. /\ gSub' \in [Readers -> {"out", "snapshot", "stream", "closed", "gone"}]
      /\ \A q \in Readers : gSub'[q] = "out" => gSub[q] = "out"
      /\ Subscribers' \subseteq Subscribers
  <2>1. gSub \in [Readers -> {"out", "snapshot", "stream", "closed", "gone"}]
    BY <1>1 DEF GTyped
  <2>2. CASE GClose
    <3>1. gSub' = [r \in Readers |-> IF r \in Subscribers THEN "closed" ELSE gSub[r]]
      BY <2>2 DEF GClose
    <3>2. \A q \in Readers : gSub'[q] = IF q \in Subscribers THEN "closed" ELSE gSub[q]
      BY <3>1
    <3>3. gSub' \in [Readers -> {"out", "snapshot", "stream", "closed", "gone"}]
      BY <3>1, <2>1
    <3> QED BY <3>2, <3>3 DEF Subscribers
  <2>3. ASSUME NEW r \in Readers, GRender(r)
        PROVE  /\ gSub' \in [Readers -> {"out", "snapshot", "stream", "closed", "gone"}]
               /\ \A q \in Readers : gSub'[q] = "out" => gSub[q] = "out"
               /\ Subscribers' \subseteq Subscribers
    BY <2>1, <2>3 DEF GRender, Subscribers
  <2>4. ASSUME NEW r \in Readers, GLeave(r)
        PROVE  /\ gSub' \in [Readers -> {"out", "snapshot", "stream", "closed", "gone"}]
               /\ \A q \in Readers : gSub'[q] = "out" => gSub[q] = "out"
               /\ Subscribers' \subseteq Subscribers
    BY <2>1, <2>4 DEF GLeave, Subscribers
  <2> QED BY <2>2, <2>3, <2>4
<1>5. gChan' \in [Readers -> Seq(Int)] /\ gGot' \in [Readers -> Seq(Int)]
      /\ \A q \in Readers : Len(gChan'[q]) <= GSize
  BY <1>1, <1>2 DEF GTyped
<1> QED BY <1>2, <1>3, <1>4, <1>5, SamePages

\* A reader begins with the snapshot, and what comes is what comes after it.
LEMMA SubscribeStep ==
  ASSUME GInv, NEW r \in Readers, GSubscribe(r)
  PROVE  GInv'
<1>1. GTyped /\ GRing
  BY DEF GInv
<1>2. /\ gSub' = [gSub EXCEPT ![r] = "snapshot"] /\ gFirst' = [gFirst EXCEPT ![r] = gCount]
      /\ gGot' = [gGot EXCEPT ![r] = snapshotLocked] /\ gSub[r] = "out"
      /\ UNCHANGED <<gLines, gPos, gFull, gCount, gChan, gPending>>
  BY DEF GSubscribe
<1>3. PICK w \in Seq(Int), c \in Nat : w = snapshotLocked /\ c = gCount
  <2>1. snapshotLocked \in Seq(Int) /\ gCount \in Nat
    BY <1>1, RingIsExact, GAssumption DEF GTyped
  <2> QED BY <2>1, Zenon
<1>4. /\ \A i \in 1 .. Len(w) : w[i] <= c
      /\ \A i, j \in 1 .. Len(w) : i < j => w[i] < w[j]
      /\ c > 0 => Len(w) \in 1 .. Len(w) /\ w[Len(w)] = c
  BY <1>1, <1>3, RingIsExact
<1>5. /\ gSub' \in [Readers -> {"out", "snapshot", "stream", "closed", "gone"}]
      /\ gFirst' \in [Readers -> Nat] /\ gGot' \in [Readers -> Seq(Int)]
      /\ gGot'[r] = w /\ gFirst'[r] = c /\ gChan[r] = <<>>
      /\ \A q \in Readers : q # r => gSub'[q] = gSub[q] /\ gFirst'[q] = gFirst[q]
                                     /\ gGot'[q] = gGot[q]
  BY <1>1, <1>2, <1>3 DEF GInv, GTyped, GKnown
<1>6. GTyped'
  BY <1>1, <1>2, <1>5 DEF GTyped
<1>7. Shown(r)' = w
  <2>1. w \o <<>> = w
    BY ConcatEmptySeq
  <2> QED BY <2>1, <1>2, <1>5 DEF Shown
<1>8. \A q \in Readers : q # r => Shown(q)' = Shown(q)
  BY <1>2, <1>5 DEF Shown
<1>9. GRing'
  BY <1>1, <1>2 DEF GRing
<1>10. Subscribers' = Subscribers \cup {r}
  BY <1>1, <1>2 DEF Subscribers, GTyped
<1>11. GKnown'
  <2> SUFFICES ASSUME NEW q \in Readers
               PROVE  (/\ \A i \in 1 .. Len(Shown(q)) : Shown(q)[i] <= gCount
                       /\ gSub[q] = "out" => gChan[q] = <<>> /\ gPending[q] = 0)'
    BY DEF GKnown
  <2>1. CASE q = r
    <3>1. gSub'[q] = "snapshot"
      BY <2>1, <1>1, <1>2 DEF GTyped
    <3>2. \A i \in 1 .. Len(Shown(q)') : Shown(q)'[i] <= gCount'
      BY <2>1, <1>2, <1>3, <1>4, <1>7
    <3> QED BY <3>1, <3>2
  <2>2. CASE q # r
    <3>1. GKnown
      BY DEF GInv
    <3> QED BY <3>1, <2>2, <1>2, <1>5, <1>8 DEF GKnown
  <2> QED BY <2>1, <2>2
<1>12. InOrder'
  <2> SUFFICES ASSUME NEW q \in Readers
               PROVE  (/\ \A i, j \in 1 .. Len(Shown(q)) :
                            i < j /\ IsLine(Shown(q)[i]) /\ IsLine(Shown(q)[j]) =>
                              Shown(q)[i] < Shown(q)[j]
                       /\ q \in Subscribers /\ gCount > 0 =>
                            \E i \in 1 .. Len(Shown(q)) :
                              /\ Shown(q)[i] = gCount
                              /\ \A j \in i + 1 .. Len(Shown(q)) : ~IsLine(Shown(q)[j]))'
    BY DEF InOrder
  <2>1. CASE q = r
    <3>1. \A i, j \in 1 .. Len(Shown(q)') :
            i < j /\ IsLine(Shown(q)'[i]) /\ IsLine(Shown(q)'[j]) => Shown(q)'[i] < Shown(q)'[j]
      BY <2>1, <1>4, <1>7
    <3>2. ASSUME gCount' > 0
          PROVE  \E i \in 1 .. Len(Shown(q)') :
                   /\ Shown(q)'[i] = gCount'
                   /\ \A j \in i + 1 .. Len(Shown(q)') : ~IsLine(Shown(q)'[j])
      <4>1. Len(w) \in 1 .. Len(w) /\ w[Len(w)] = gCount'
        BY <3>2, <1>2, <1>3, <1>4
      <4>2. \A j \in Len(w) + 1 .. Len(w) : FALSE
        OBVIOUS
      <4> QED BY <4>1, <4>2, <2>1, <1>7
    <3> QED BY <3>1, <3>2 DEF IsLine
  <2>2. CASE q # r
    <3>1. InOrder /\ (q \in Subscribers' => q \in Subscribers)
      BY <2>2, <1>10 DEF GInv
    <3> QED BY <3>1, <2>2, <1>2, <1>8 DEF InOrder, IsLine
  <2> QED BY <2>1, <2>2
<1>13. GapsAnnounced'
  <2> SUFFICES ASSUME NEW q \in Subscribers'
               PROVE  (\A i \in 1 .. Len(Shown(q)) :
                         /\ IsLine(Shown(q)[i]) /\ Shown(q)[i] > gFirst[q] + 1
                         /\ \A j \in 1 .. i - 1 : Shown(q)[j] # Shown(q)[i] - 1
                         => gPending[q] > 0
                            \/ \E j \in i + 1 .. Len(Shown(q)) : ~IsLine(Shown(q)[j]))'
    BY DEF GapsAnnounced
  <2>1. CASE q = r
    <3>1. \A i \in 1 .. Len(w) : w[i] \in Int /\ w[i] <= c /\ ~(w[i] > c + 1)
      BY <1>4
    <3>2. \A i \in 1 .. Len(Shown(q)') : ~(Shown(q)'[i] > gFirst'[q] + 1)
      BY <3>1, <2>1, <1>5, <1>7
    <3> QED BY <3>2
  <2>2. CASE q # r
    <3>1. GapsAnnounced /\ q \in Subscribers /\ q \in Readers
      BY <2>2, <1>10 DEF GInv, Subscribers
    <3>2. Announced(Shown(q), Len(Shown(q)), gFirst[q], gPending[q])
      BY <3>1, Zenon DEF GapsAnnounced, Announced
    <3>3. Shown(q)' = Shown(q) /\ gFirst'[q] = gFirst[q] /\ gPending'[q] = gPending[q]
      BY <3>1, <2>2, <1>2, <1>5, <1>8
    <3>4. Announced(Shown(q)', Len(Shown(q)'), gFirst'[q], gPending'[q])
      BY <3>2, <3>3
    <3> QED BY <3>4, Zenon DEF Announced
  <2> QED BY <2>1, <2>2
<1> QED BY <1>6, <1>9, <1>11, <1>12, <1>13 DEF GInv

\* At the start nothing has been written and nobody is there.
LEMMA LogStart ==
  ASSUME GInit
  PROVE  GInv
<1>1. GSize \in Nat \ {0} /\ GMaxLines \in Nat
  BY GAssumption
<1>2. GTyped
  <2>1. gLines \in [0 .. GSize - 1 -> Int] /\ gPos \in 0 .. GSize - 1 /\ gFull \in BOOLEAN
        /\ gCount \in 0 .. GMaxLines
    BY <1>1 DEF GInit
  <2>2. gSub \in [Readers -> {"out", "snapshot", "stream", "closed", "gone"}]
    BY DEF GInit
  <2>3. <<>> \in Seq(Int) /\ Len(<<>>) = 0
    OBVIOUS
  <2>4. gChan \in [Readers -> Seq(Int)] /\ gGot \in [Readers -> Seq(Int)]
        /\ \A r \in Readers : Len(gChan[r]) <= GSize
    BY <2>3, <1>1 DEF GInit
  <2>5. gPending \in [Readers -> 0 .. 2 * GSize] /\ gFirst \in [Readers -> Nat]
    BY <1>1 DEF GInit
  <2> QED BY <2>1, <2>2, <2>4, <2>5 DEF GTyped
<1>3. GRing
  BY DEF GInit, GRing
<1>4. \A r \in Readers : Shown(r) = <<>> /\ Len(Shown(r)) = 0
  BY DEF GInit, Shown
<1>5. Subscribers = {}
  BY DEF GInit, Subscribers
<1>6. GKnown
  BY <1>4 DEF GInit, GKnown
<1>7. InOrder
  BY <1>4, <1>5 DEF InOrder
<1>8. GapsAnnounced
  BY <1>5 DEF GapsAnnounced
<1> QED BY <1>2, <1>3, <1>6, <1>7, <1>8 DEF GInv

\* A reader of the access log sees it in order, from the snapshot on without a
\* seam, never without the last line, and is told of every gap, for every number of
\* readers and lines and every size of the buffer (logbuffer.go, fanOutLocked).
THEOREM LogSafety == GSpec => []LogSafe
<1>1. GInit => GInv
  BY LogStart
<1>2. GInv /\ [GNext]_gvars => GInv'
  <2> SUFFICES ASSUME GInv, [GNext]_gvars
               PROVE  GInv'
    OBVIOUS
  <2>1. CASE GWrite
    BY <2>1, WriteStep
  <2>2. CASE GClose \/ (\E r \in Readers : GRender(r) \/ GLeave(r))
    BY <2>2, StatusStep
  <2>3. ASSUME NEW r \in Readers, GSubscribe(r)
        PROVE  GInv'
    BY <2>3, SubscribeStep
  <2>4. ASSUME NEW r \in Readers, GRead(r)
        PROVE  GInv'
    BY <2>4, ReadStep
  <2>5. CASE UNCHANGED gvars
    <3>1. \A r \in Readers : Shown(r)' = Shown(r)
      BY <2>5 DEF gvars, Shown
    <3>2. GTyped /\ Subscribers' = Subscribers
      BY <2>5 DEF GInv, gvars, Subscribers
    <3> QED BY <2>5, <3>1, <3>2, SamePages DEF gvars, GTyped
  <2> QED BY <2>1, <2>2, <2>3, <2>4, <2>5 DEF GNext
<1>3. GInv => LogSafe
  <2> SUFFICES ASSUME GInv
               PROVE  LogSafe
    OBVIOUS
  <2>1. GTyped /\ RingExact /\ InOrder /\ GapsAnnounced
    BY RingIsExact DEF GInv
  <2>2. GTypeOK
    BY <2>1 DEF GTyped, GTypeOK
  <2> QED BY <2>1, <2>2 DEF LogSafe
<1> QED BY <1>1, <1>2, <1>3, PTL DEF GSpec

\* The two together: what a port keeps of its clients and of its past is bounded,
\* and it is the right part.
THEOREM BoundsKeptSafety == LSpec /\ GSpec => []BoundsKept
<1>1. LimiterSafe /\ LogSafe => BoundsKept
  BY DEF BoundsKept
<1> QED BY <1>1, LimiterSafety, LogSafety, PTL
=============================================================================
