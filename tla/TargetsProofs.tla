---------------------------- MODULE TargetsProofs ----------------------------
(***************************************************************************)
(* Proxies follow their targets: the Docker and Incus providers, which     *)
(* watch a target, the Proxmox provider, which polls a guest, and the list *)
(* provider, which watches a file.                                         *)
(*                                                                         *)
(* The argument is the same for the three.  Whenever a target wants a      *)
(* proxy that it does not have, something that will make one is under way: *)
(* an event in the stream, an action being sent, the scan, an action in    *)
(* the queue.  And whatever will take its proxy down, or make one from an  *)
(* older configuration, has something under way behind it that will make   *)
(* the right one.                                                          *)
(***************************************************************************)
EXTENDS TargetFollowing, ListFile, SequenceTheorems, TLAPS

Actions == {"start", "stop", "restart"}
Makes(a) == a \in {"start", "restart"}

-----------------------------------------------------------------------------
(* The providers that watch a target. *)

InstanceStates == [st : {"running", "stopped", "frozen", "absent"}, on : BOOLEAN,
                   cfg : Nat \ {0}]

\* What the variables hold.
TGTyped ==
  /\ tKind \in {"docker", "incus"} /\ tInst \in InstanceStates
  /\ tLink \in {"wait", "open", "up"} /\ tScan \in {"none", "list", "send"}
  /\ tFeed \in Seq(Actions \cup {"update", "delete"}) /\ tSend \in Actions \cup {"none"}
  /\ tKind = "docker" => tFeed \in Seq(Actions)
  /\ tQueue \in Seq(Actions) /\ tAdd \in Nat /\ tTracked \in Nat /\ tProxy \in Nat
  /\ tHeld \in BOOLEAN /\ tLost \in BOOLEAN /\ tOvertaken \in BOOLEAN
  /\ tFailed \in BOOLEAN /\ tBackoff \in 1 .. MaxWatchBackoff

\* The stream and the scan are at work while the stream is up; the deletion is
\* the last event.
TGStream ==
  /\ tLink # "up" => tFeed = <<>> /\ tSend = "none" /\ tScan = "none"
  /\ \A i \in 1 .. Len(tFeed) : tFeed[i] = "delete" => tInst.st = "absent"

\* The entry is that of the proxy, if that could be made and started; it is not
\* younger than what AddTarget has read, which is not younger than the
\* configuration of now.  The handler that has the lock is that of the first action.
TGOrder ==
  /\ tLost \/ tProxy = tTracked
  /\ tTracked <= tInst.cfg
  /\ tAdd # 0 => /\ tHeld /\ tQueue[1] = "start"
                 /\ tTracked <= tAdd /\ tAdd <= tInst.cfg
  /\ tHeld => tQueue # <<>>

Wants == tInst.st = "running" /\ tInst.on

\* An event in the stream that ends in a start if the target wants a proxy.
Brings(e) == e \in {"start", "restart", "update"}
Brought == \E i \in 1 .. Len(tFeed) : Brings(tFeed[i])

\* Every stop on its way to a target that wants a proxy is overtaken by such an event.
TGStops ==
  Wants => /\ \A i \in 1 .. Len(tFeed) :
                tFeed[i] = "stop" => \E j \in i + 1 .. Len(tFeed) : Brings(tFeed[j])
           /\ tSend = "stop" => Brought

\* No stop after position i of the queue.
Last(i) == \A j \in i + 1 .. Len(tQueue) : tQueue[j] # "stop"

\* The queue ends in an entry with the configuration of now: one is made by a
\* handler that has not read an older one, or is there and stays.
Settles ==
  \/ \E i \in 1 .. Len(tQueue) :
       Makes(tQueue[i]) /\ Last(i) /\ (i = 1 /\ tAdd # 0 => tAdd = tInst.cfg)
  \/ tTracked = tInst.cfg /\ Last(0) /\ (tAdd # 0 => tAdd = tInst.cfg)

TGUnderWay ==
  Wants /\ ~tFailed /\ ~tOvertaken /\ tLink = "up" /\ tScan # "list" =>
    Brought \/ Makes(tSend) \/ tScan = "send" \/ Settles

\* The inductive invariant.
TGInv == TGTyped /\ TGStream /\ TGOrder /\ TGStops /\ TGUnderWay

-----------------------------------------------------------------------------
(* The provider that polls a guest. *)

GuestStates == [st : {"running", "stopped", "absent"}, on : BOOLEAN, cfg : Nat \ {0}]
Snapshots == [known : BOOLEAN, st : {"none", "running", "stopped"}, notes : Nat]

\* What the variables hold.
QTyped ==
  /\ qGuest \in GuestStates /\ qPoll \in {"idle", "listed", "send", "store"}
  /\ qListed \in {"none", "running", "stopped", "absent"}
  /\ qAction \in [do : Actions \cup {"none"}, seen : Snapshots] /\ qSeen \in Snapshots
  /\ qQueue \in Seq(Actions) /\ qAdd \in Nat /\ qTracked \in BOOLEAN /\ qProxy \in Nat
  /\ qHeld \in BOOLEAN /\ qLost \in BOOLEAN /\ qOvertaken \in BOOLEAN
  /\ qFailed \in BOOLEAN /\ qQuiet \in 0 .. 2

\* The guest is tracked while it has a proxy; its notes are not younger than
\* what AddTarget has read, which is not younger than those of now, and neither
\* is a snapshot.  The handler that has the lock is that of the first action.
QOrder ==
  /\ qSeen.notes <= qGuest.cfg /\ qAction.seen.notes <= qGuest.cfg
  /\ qProxy # 0 => qTracked
  /\ qProxy <= qGuest.cfg
  /\ qAdd # 0 => /\ qHeld /\ qQueue[1] = "start"
                 /\ qProxy <= qAdd /\ qAdd <= qGuest.cfg
  /\ qHeld => qQueue # <<>>

\* A snapshot from which the guest is not started again.
Settled(s) == s.known /\ s.st = "running" /\ s.notes = qGuest.cfg

\* Every stop in the queue is made good by an action behind it, and the queue ends
\* in a proxy with the notes of now, unless a start fails.
QRight ==
  /\ \A i \in 1 .. Len(qQueue) :
       qQueue[i] = "stop" => \E j \in i + 1 .. Len(qQueue) : Makes(qQueue[j])
  /\ \/ qFailed \/ (qLost /\ qAdd = 0) \/ qProxy = qGuest.cfg
     \/ \E i \in 1 .. Len(qQueue) :
          Makes(qQueue[i]) /\ (i = 1 /\ qAdd # 0 => qAdd = qGuest.cfg)

QEnds == qOvertaken \/ QRight

\* A guest is left alone when its proxy is there or under way.
QUnderWay ==
  /\ qPoll \in {"idle", "listed"} /\ Settled(qSeen) => QEnds
  /\ qPoll = "send" /\ Settled(qAction.seen) => Makes(qAction.do) \/ (qAction.do = "none" /\ QEnds)
  /\ qPoll = "store" /\ Settled(qAction.seen) => QEnds

Enabled == qGuest.st = "running" /\ qGuest.on
Disabled == qGuest.st = "stopped" \/ (qGuest.st = "running" /\ ~qGuest.on)

\* What the second poll after the guest came to rest has found.
QRested ==
  qQuiet = 2 =>
    /\ qPoll = "listed" => qListed = qGuest.st
    /\ Enabled => /\ qPoll = "idle" => Settled(qSeen)
                  /\ qPoll \in {"send", "store"} => Settled(qAction.seen)
    /\ Disabled => /\ qAdd = 0 /\ \A i \in 1 .. Len(qQueue) : qQueue[i] = "stop"
                   /\ qPoll = "send" => /\ qAction.do \in {"none", "stop"}
                                        /\ qTracked => qAction.do = "stop"
                   /\ qPoll \in {"idle", "store"} /\ qTracked => qQueue # <<>>

\* The inductive invariant.
QInv == QTyped /\ QOrder /\ QUnderWay /\ QRested

-----------------------------------------------------------------------------
(* The provider that watches a file. *)

FKinds == FNames \X Actions

\* What the variables hold.
FTyped ==
  /\ fFile \in [FNames -> Nat \cup {Bad}] /\ fConfig \in [FNames -> Nat] /\ fChanges \in Nat
  /\ fSends \in [1 .. FReloads -> SUBSET FKinds] /\ fScan \in SUBSET FNames
  /\ fQueue \in [FNames -> Seq(Actions)] /\ fAdd \in [FNames -> Nat]
  /\ fProxy \in [FNames -> Nat] /\ fHeld \in [FNames -> BOOLEAN] /\ fLost \in [FNames -> BOOLEAN]
  /\ fCrossed \in [FNames -> BOOLEAN] /\ fTorn \in [FNames -> BOOLEAN]

\* The handler that has the lock is that of the first action.
FOrder(n) ==
  /\ fAdd[n] # 0 => fHeld[n] /\ fQueue[n][1] = "start"
  /\ fHeld[n] => fQueue[n] # <<>>

\* Every stop is made good by an action behind it.
Overtaken(q) == \A i \in 1 .. Len(q) :
                  q[i] = "stop" => \E j \in i + 1 .. Len(q) : Makes(q[j])
MadeFrom(q, i) == \E j \in i .. Len(q) : Makes(q[j])

\* A handler takes the proxy down, and any that is being made.
Stopped(q, add) == \E i \in 1 .. Len(q) : q[i] \in {"stop", "restart"} /\ (add # 0 => i > 1)

\* A start of the name is still to be dispatched.
Coming(n) == n \in fScan \/ Unsent(n, "start") \/ Unsent(n, "restart")

\* The queue ends in a proxy with the entry of the map, or in one that failed.
FEnds(n) ==
  /\ Overtaken(fQueue[n])
  /\ fAdd[n] \notin {0, fConfig[n]} => MadeFrom(fQueue[n], 2)
  /\ fLost[n] \/ fProxy[n] = fConfig[n] \/ MadeFrom(fQueue[n], 1)

\* A listed name has its proxy, or that is under way.
FListed(n) == ~Unsent(n, "stop") /\ (Coming(n) \/ FEnds(n))

\* A name that is not listed: its proxy is gone, or will be.
FUnlisted(n) ==
  (fProxy[n] = 0 /\ fAdd[n] = 0) \/ Unsent(n, "stop") \/ Stopped(fQueue[n], fAdd[n])

FRight(n) == IF fConfig[n] = 0 THEN FUnlisted(n) ELSE FListed(n)
FGood(n) == FOrder(n) /\ (~fCrossed[n] /\ ~fTorn[n] => FRight(n))

\* The map is that of the last file that could be loaded.
FSynced == ~fArmed /\ fLoaded => fConfig = fFile

\* The inductive invariant.
FInv == FTyped /\ FSynced /\ \A n \in FNames : FGood(n)

-----------------------------------------------------------------------------
(* Queues. *)

\* What is left of a queue without its head.
LEMMA Popped ==
  ASSUME NEW S, NEW q \in Seq(S), q # <<>>
  PROVE  /\ Tail(q) \in Seq(S) /\ Len(q) \in Nat \ {0} /\ Len(Tail(q)) = Len(q) - 1
         /\ \A i \in 1 .. Len(Tail(q)) : Tail(q)[i] = q[i + 1]
         /\ Head(q) = q[1] /\ q[1] \in S
BY HeadTailProperties, ElementOfSeq

\* A queue to which an element is added.
LEMMA Pushed ==
  ASSUME NEW S, NEW q \in Seq(S), NEW e \in S
  PROVE  /\ Append(q, e) \in Seq(S) /\ Len(q) \in Nat /\ Len(Append(q, e)) = Len(q) + 1
         /\ \A i \in 1 .. Len(q) : Append(q, e)[i] = q[i]
         /\ Append(q, e)[Len(q) + 1] = e
BY AppendProperties

\* A queue whose head is replaced.
LEMMA Replaced ==
  ASSUME NEW S, NEW q \in Seq(S), q # <<>>, NEW e \in S
  PROVE  /\ <<e>> \o Tail(q) \in Seq(S) /\ Len(<<e>> \o Tail(q)) = Len(q)
         /\ (<<e>> \o Tail(q))[1] = e
         /\ \A i \in 2 .. Len(q) : (<<e>> \o Tail(q))[i] = q[i]
         /\ <<e>> \o Tail(q) # <<>>
<1>1. Tail(q) \in Seq(S) /\ Len(Tail(q)) = Len(q) - 1 /\ Len(q) \in Nat \ {0}
      /\ \A i \in 1 .. Len(Tail(q)) : Tail(q)[i] = q[i + 1]
  BY Popped
<1>2. <<e>> \in Seq(S) /\ Len(<<e>>) = 1 /\ <<e>>[1] = e
  OBVIOUS
<1>3. <<e>> \o Tail(q) \in Seq(S) /\ Len(<<e>> \o Tail(q)) = 1 + Len(Tail(q))
      /\ \A i \in 1 .. 1 + Len(Tail(q)) :
           (<<e>> \o Tail(q))[i] = IF i <= 1 THEN <<e>>[i] ELSE Tail(q)[i - 1]
  BY <1>1, <1>2, ConcatProperties
<1>4. \A i \in 2 .. Len(q) : (<<e>> \o Tail(q))[i] = q[i]
  <2> TAKE i \in 2 .. Len(q)
  <2>1. i - 1 \in 1 .. Len(Tail(q)) /\ i \in 1 .. 1 + Len(Tail(q)) /\ ~(i <= 1)
    BY <1>1
  <2> QED BY <2>1, <1>1, <1>3
<1> QED BY <1>1, <1>2, <1>3, <1>4

\* The handler of the last action leaves an empty queue.
LEMMA NothingLeft ==
  ASSUME NEW S, NEW q \in Seq(S)
  PROVE  q = <<>> <=> Len(q) = 0
BY EmptySeq

\* A queue of which another element comes first.
LEMMA Moved ==
  ASSUME NEW S, NEW q \in Seq(S), NEW i \in 1 .. Len(q)
  PROVE  /\ ToFront(q, i) \in Seq(S) /\ Len(ToFront(q, i)) = Len(q)
         /\ i = 1 => ToFront(q, i) = q
         /\ ToFront(q, i) # <<>>
         /\ \A k \in 1 .. Len(q) : \E j \in 1 .. Len(q) : ToFront(q, i)[k] = q[j]
<1>1. Len(q) \in Nat /\ q = [j \in 1 .. Len(q) |-> q[j]] /\ \A j \in 1 .. Len(q) : q[j] \in S
  BY ElementOfSeq, LenProperties
<1> DEFINE r == ToFront(q, i)
<1>2. /\ r = [j \in 1 .. Len(q) |-> IF j = 1 THEN q[i] ELSE IF j <= i THEN q[j - 1] ELSE q[j]]
      /\ \A k \in 1 .. Len(q) : \E j \in 1 .. Len(q) : r[k] = q[j]
  <2>1. \A j \in 1 .. Len(q) : j # 1 => j - 1 \in 1 .. Len(q)
    BY <1>1
  <2> QED BY <2>1 DEF ToFront
<1>3. r \in [1 .. Len(q) -> S]
  <2>1. \A k \in 1 .. Len(q) : r[k] \in S
    BY <1>1, <1>2
  <2>2. DOMAIN r = 1 .. Len(q) /\ r = [k \in 1 .. Len(q) |-> r[k]]
    BY <1>2
  <2> QED BY <2>1, <2>2
<1>4. r \in Seq(S) /\ Len(r) = Len(q)
  BY <1>1, <1>3, SeqDef, LenProperties
<1>5. i = 1 => r = q
  <2> SUFFICES ASSUME i = 1 PROVE r = q
    OBVIOUS
  <2>1. \A j \in 1 .. Len(q) : r[j] = q[j]
    BY <1>1, <1>2
  <2> QED BY <2>1, <1>4, SeqEqual
<1>6. r # <<>>
  BY <1>4, <1>1, NothingLeft
<1> QED BY <1>2, <1>4, <1>5, <1>6

-----------------------------------------------------------------------------
(* The providers that watch a target: the proof. *)

\* The invariant holds at first: nothing runs.
LEMMA TGInitInv == TGInit => TGInv
<1> SUFFICES ASSUME TGInit PROVE TGInv
  OBVIOUS
<1> USE DEF TGInit
<1>1. TGTyped
  <2>1. <<>> \in Seq(Actions) /\ <<>> \in Seq(Actions \cup {"update", "delete"})
    OBVIOUS
  <2>2. tBackoff \in 1 .. MaxWatchBackoff
    BY TAssumption
  <2>3. tInst \in InstanceStates
    BY DEF InstanceStates
  <2> QED BY <2>1, <2>2, <2>3 DEF TGTyped
<1>2. TGStream /\ TGOrder /\ TGStops /\ TGUnderWay
  BY DEF TGStream, TGOrder, TGStops, TGUnderWay, Wants
<1> QED BY <1>1, <1>2 DEF TGInv

\* What happens to a target that wants a proxy brings one, if the stream is up.
LEMMA TGHappens ==
  ASSUME TGInv, NEW e \in Actions \cup {"update", "delete"}, NEW inst \in InstanceStates,
         Happens(e, inst), tKind = "docker" => e \in Actions,
         inst.cfg \in {tInst.cfg, tInst.cfg + 1}, tInst.st # "absent",
         e = "delete" => inst.st = "absent",
         inst.st = "running" /\ inst.on => Brings(e)
  PROVE  TGInv'
<1> USE DEF Happens, handling
<1>1. tFeed \in Seq(Actions \cup {"update", "delete"}) /\ (tKind = "docker" => tFeed \in Seq(Actions))
  BY DEF TGInv, TGTyped
<1>2. /\ tFeed' \in Seq(Actions \cup {"update", "delete"})
      /\ tKind = "docker" => tFeed' \in Seq(Actions)
      /\ tLink = "up" => /\ Len(tFeed) \in Nat /\ Len(tFeed') = Len(tFeed) + 1
                         /\ \A i \in 1 .. Len(tFeed) : tFeed'[i] = tFeed[i]
                         /\ tFeed'[Len(tFeed) + 1] = e
  BY <1>1, Pushed
<1>3. TGTyped'
  BY <1>2 DEF TGInv, TGTyped
<1>4. TGStream'
  <2>1. ASSUME tLink = "up", NEW i \in 1 .. Len(tFeed'), tFeed'[i] = "delete" PROVE tInst'.st = "absent"
    BY <1>2, <2>1 DEF TGInv, TGStream
  <2> QED BY <2>1 DEF TGInv, TGStream
<1>5. TGOrder'
  <2>1. tInst.cfg \in Nat /\ tTracked \in Nat /\ tAdd \in Nat /\ tInst'.cfg \in {tInst.cfg, tInst.cfg + 1}
    BY DEF TGInv, TGTyped, InstanceStates
  <2> QED BY <2>1 DEF TGInv, TGOrder
<1>6. Wants' /\ tLink = "up" => Brings(tFeed'[Len(tFeed')])
  BY <1>2 DEF Wants
<1>7. TGStops'
  <2> SUFFICES ASSUME Wants'
               PROVE  /\ \A i \in 1 .. Len(tFeed') :
                           tFeed'[i] = "stop" => \E j \in i + 1 .. Len(tFeed') : Brings(tFeed'[j])
                      /\ tSend = "stop" => Brought'
    BY DEF TGStops, Brings
  <2>1. CASE tLink = "up"
    <3>1. Len(tFeed') \in Nat \ {0}
      BY <1>2, <2>1
    <3>2. Brought'
      BY <1>6, <3>1, <2>1 DEF Brought, Brings
    <3>3. ASSUME NEW i \in 1 .. Len(tFeed'), tFeed'[i] = "stop"
          PROVE  \E j \in i + 1 .. Len(tFeed') : Brings(tFeed'[j])
      <4>1. i # Len(tFeed')
        BY <1>6, <2>1, <3>3 DEF Brings
      <4> QED BY <4>1, <1>6, <2>1, <3>1
    <3> QED BY <3>2, <3>3
  <2>2. CASE tLink # "up"
    BY <2>2 DEF TGInv, TGStream
  <2> QED BY <2>1, <2>2
<1>8. TGUnderWay'
  <2> SUFFICES ASSUME Wants', tLink = "up" PROVE Brought'
    BY DEF TGUnderWay
  <2>1. Len(tFeed') \in Nat \ {0}
    BY <1>2
  <2> QED BY <1>6, <2>1 DEF Brought, Brings
<1> QED BY <1>3, <1>4, <1>5, <1>7, <1>8 DEF TGInv

\* The target is started, stopped, frozen, restarted or deleted.
LEMMA TGLifecycleInv == TGInv /\ TLifecycle => TGInv'
<1> SUFFICES ASSUME TGInv, TLifecycle PROVE TGInv'
  OBVIOUS
<1>1. PICK c \in IF tKind = "docker" THEN Docker ELSE Incus :
        tInst.st = c[2] /\ Happens(c[1], [tInst EXCEPT !.st = c[3]])
  BY DEF TLifecycle
<1> DEFINE inst == [tInst EXCEPT !.st = c[3]]
<1>2. /\ c[1] \in {"start", "stop", "restart", "delete"}
      /\ c[2] \in {"stopped", "running", "frozen"}
      /\ c[3] \in {"running", "stopped", "frozen", "absent"}
      /\ tKind = "docker" => c[1] \in {"start", "stop"}
      /\ c[3] = "running" => c[1] \in {"start", "restart"}
      /\ c[1] = "delete" => c[3] = "absent"
  BY DEF Docker, Incus
<1>3. inst \in InstanceStates /\ inst.cfg = tInst.cfg /\ inst.st = c[3]
  BY <1>2 DEF TGInv, TGTyped, InstanceStates
<1> HIDE DEF inst
<1>4. Happens(c[1], inst)
  BY <1>1 DEF inst
<1>5. c[1] \in Actions \cup {"update", "delete"} /\ (tKind = "docker" => c[1] \in Actions)
  BY <1>2 DEF Actions
<1>6. inst.st = "running" /\ inst.on => Brings(c[1])
  BY <1>2, <1>3 DEF Brings
<1>7. tInst.st # "absent"
  BY <1>1, <1>2
<1> QED BY <1>2, <1>3, <1>4, <1>5, <1>6, <1>7, TGHappens

\* The target is enabled, disabled or gets another configuration.
LEMMA TGUpdatedInv == TGInv /\ TUpdated => TGInv'
<1> SUFFICES ASSUME TGInv, TUpdated PROVE TGInv'
  OBVIOUS
<1>1. tKind = "incus" /\ tInst.st # "absent"
  BY DEF TUpdated
<1>2. tInst \in InstanceStates
  BY DEF TGInv, TGTyped
<1>3. CASE Happens("update", [tInst EXCEPT !.on = ~@])
  <2> DEFINE inst == [tInst EXCEPT !.on = ~@]
  <2>1. inst \in InstanceStates /\ inst.cfg = tInst.cfg
    BY <1>2 DEF InstanceStates
  <2> HIDE DEF inst
  <2>2. Happens("update", inst)
    BY <1>3 DEF inst
  <2> QED BY <2>1, <2>2, <1>1, TGHappens DEF Brings
<1>4. CASE Happens("update", [tInst EXCEPT !.cfg = @ + 1])
  <2> DEFINE inst == [tInst EXCEPT !.cfg = @ + 1]
  <2>1. inst \in InstanceStates /\ inst.cfg = tInst.cfg + 1
    BY <1>2 DEF InstanceStates
  <2> HIDE DEF inst
  <2>2. Happens("update", inst)
    BY <1>4 DEF inst
  <2> QED BY <2>1, <2>2, <1>1, TGHappens DEF Brings
<1> QED BY <1>3, <1>4 DEF TUpdated

\* The stream is opened, breaks or waits: what it held is lost.
LEMMA TGLinkInv == TGInv /\ (TSubscribe \/ TBreak \/ TReconnect) => TGInv'
<1> SUFFICES ASSUME TGInv, TSubscribe \/ TBreak \/ TReconnect PROVE TGInv'
  OBVIOUS
<1> USE DEF TSubscribe, TBreak, TReconnect, target, handling
<1>1. tFeed' = <<>> /\ tSend' = "none"
  BY DEF TGInv, TGStream
<1>2. tBackoff' \in 1 .. MaxWatchBackoff
  BY TAssumption DEF TGInv, TGTyped
<1>0. tOvertaken' \in BOOLEAN
  BY DEF TGInv, TGTyped
<1>3. TGTyped'
  BY <1>0, <1>1, <1>2 DEF TGInv, TGTyped
<1>4. TGStream' /\ TGOrder'
  BY <1>1 DEF TGInv, TGStream, TGOrder
<1>5. TGStops'
  BY <1>1 DEF TGStops
<1>6. TGUnderWay'
  BY DEF TGUnderWay
<1> QED BY <1>3, <1>4, <1>5, <1>6 DEF TGInv

\* The scan takes a target that wants a proxy.
LEMMA TGListInv == TGInv /\ TList => TGInv'
<1> SUFFICES ASSUME TGInv, TList PROVE TGInv'
  OBVIOUS
<1> USE DEF TList, target, handling
<1>1. TGTyped' /\ TGOrder'
  BY DEF TGInv, TGTyped, TGOrder
<1>2. TGStream'
  BY DEF TGInv, TGStream
<1>3. TGStops'
  BY DEF TGInv, TGStops, Brought, Wants
<1>4. TGUnderWay'
  BY DEF TGUnderWay, Wants
<1> QED BY <1>1, <1>2, <1>3, <1>4 DEF TGInv

\* An action is dispatched: the queue grows at its end.
LEMMA TGDispatch ==
  ASSUME TGInv, NEW a \in Actions, Dispatched(a),
         UNCHANGED target
  PROVE  /\ tQueue' \in Seq(Actions) /\ tBackoff' \in 1 .. MaxWatchBackoff
         /\ TGOrder'
         /\ Makes(a) => Settles'
<1> USE DEF Dispatched, target
<1>1. tQueue \in Seq(Actions) /\ tAdd \in Nat
  BY DEF TGInv, TGTyped
<1>2. /\ tQueue' \in Seq(Actions) /\ Len(tQueue) \in Nat /\ Len(tQueue') = Len(tQueue) + 1
      /\ \A i \in 1 .. Len(tQueue) : tQueue'[i] = tQueue[i]
      /\ tQueue'[Len(tQueue) + 1] = a
  BY <1>1, Pushed
<1>3. tBackoff' \in 1 .. MaxWatchBackoff
  BY TAssumption
<1>4. TGOrder'
  <2>1. tQueue' # <<>> /\ (tQueue # <<>> => tQueue'[1] = tQueue[1])
    <3>1. Len(tQueue') # 0
      BY <1>2
    <3>2. tQueue # <<>> => Len(tQueue) # 0
      BY <1>1, NothingLeft
    <3> QED BY <3>1, <3>2, <1>2, NothingLeft
  <2> QED BY <2>1 DEF TGInv, TGOrder
<1>5. ASSUME Makes(a) PROVE Settles'
  <2> DEFINE n == Len(tQueue) + 1
  <2>1. n \in 1 .. Len(tQueue') /\ tQueue'[n] = a /\ ~(\E j \in n + 1 .. Len(tQueue') : TRUE)
    BY <1>2
  <2>2. n = 1 => tAdd = 0
    <3>1. SUFFICES ASSUME n = 1 PROVE tAdd = 0
      OBVIOUS
    <3>2. tQueue = <<>>
      BY <3>1, <1>1, <1>2, NothingLeft
    <3> QED BY <3>2 DEF TGInv, TGOrder
  <2> HIDE DEF n
  <2> QED BY <2>1, <2>2, <1>5 DEF Settles, Last, Makes
<1> QED BY <1>2, <1>3, <1>4, <1>5

\* What the scan has found is dispatched as a start.
LEMMA TGScanSendInv == TGInv /\ TScanSend => TGInv'
<1> SUFFICES ASSUME TGInv, TScanSend PROVE TGInv'
  OBVIOUS
<1> USE DEF TScanSend, target
<1>1. "start" \in Actions /\ Makes("start")
  BY DEF Actions, Makes
<1>2. tQueue' \in Seq(Actions) /\ tBackoff' \in 1 .. MaxWatchBackoff /\ TGOrder' /\ Settles'
  BY <1>1, TGDispatch
<1>3. TGTyped'
  BY <1>2 DEF TGInv, TGTyped, Dispatched
<1>4. TGStream'
  BY DEF TGInv, TGStream
<1>5. TGStops'
  BY DEF TGInv, TGStops, Brought, Wants
<1>6. TGUnderWay'
  BY <1>2 DEF TGUnderWay
<1> QED BY <1>2, <1>3, <1>4, <1>5, <1>6 DEF TGInv

\* An action is dispatched; behind a stop there is an event that brings the proxy.
LEMMA TGDeliverInv == TGInv /\ TDeliver => TGInv'
<1> SUFFICES ASSUME TGInv, TDeliver PROVE TGInv'
  OBVIOUS
<1> USE DEF TDeliver, target
<1>1. tSend \in Actions
  BY DEF TGInv, TGTyped
<1>2. /\ tQueue' \in Seq(Actions) /\ tBackoff' \in 1 .. MaxWatchBackoff /\ TGOrder'
      /\ Makes(tSend) => Settles'
  BY <1>1, TGDispatch
<1>3. TGTyped'
  BY <1>2 DEF TGInv, TGTyped, Dispatched
<1>4. TGStream'
  BY DEF TGInv, TGStream
<1>5. TGStops'
  BY DEF TGInv, TGStops, Brought, Wants
<1>6. TGUnderWay'
  <2> SUFFICES ASSUME Wants PROVE Brought' \/ Settles'
    BY DEF TGUnderWay, Wants
  <2>1. CASE tSend = "stop"
    BY <2>1 DEF TGInv, TGStops, Brought
  <2>2. CASE tSend # "stop"
    BY <2>2, <1>1, <1>2 DEF Makes, Actions
  <2> QED BY <2>1, <2>2
<1> QED BY <1>2, <1>3, <1>4, <1>5, <1>6 DEF TGInv

\* The action for an event of a target that wants a proxy: an event that brings
\* one becomes a start, or the target is tracked with its configuration of now.
LEMMA TGReadInv == TGInv /\ TRead => TGInv'
<1> SUFFICES ASSUME TGInv, TRead PROVE TGInv'
  OBVIOUS
<1> USE DEF TRead, target, handling
<1> DEFINE e == Head(tFeed)
<1>1. tFeed \in Seq(Actions \cup {"update", "delete"}) /\ (tKind = "docker" => tFeed \in Seq(Actions))
      /\ tKind \in {"docker", "incus"} /\ tInst \in InstanceStates
  BY DEF TGInv, TGTyped
<1>2. /\ tFeed' \in Seq(Actions \cup {"update", "delete"}) /\ Len(tFeed) \in Nat \ {0}
      /\ Len(tFeed') = Len(tFeed) - 1
      /\ \A i \in 1 .. Len(tFeed') : tFeed'[i] = tFeed[i + 1]
      /\ e = tFeed[1] /\ e \in Actions \cup {"update", "delete"}
      /\ tKind = "docker" => tFeed' \in Seq(Actions) /\ e \in Actions
  BY <1>1, Popped
<1> HIDE DEF e
<1>3. tSend' \in Actions \cup {"none"} /\ tFailed' \in BOOLEAN
  <2>1. CASE tKind = "docker" /\ tSend' = e /\ UNCHANGED tFailed
    BY <2>1, <1>2 DEF TGInv, TGTyped
  <2>2. CASE tSend' = IncusAction(e)
             /\ tFailed' = (tFailed \/ (e = "update" /\ tTracked # 0 /\ Stopping))
    <3>1. tSend' \in Actions \cup {"none"}
      BY <2>2, <1>2 DEF IncusAction, Actions
    <3>2. tFailed' \in BOOLEAN
      BY <2>2 DEF TGInv, TGTyped
    <3> QED BY <3>1, <3>2
  <2>3. CASE tSend' = "none" /\ tFailed' = TRUE
    BY <2>3
  <2> QED BY <2>1, <2>2, <2>3 DEF e
<1>4. TGTyped'
  BY <1>2, <1>3 DEF TGInv, TGTyped
<1>5. TGStream'
  BY <1>2 DEF TGInv, TGStream
<1>6. TGOrder'
  BY DEF TGInv, TGOrder
<1>7. Wants' <=> Wants
  BY DEF Wants
<1>8. Wants /\ tSend' = "stop" => e = "stop"
  <2> SUFFICES ASSUME Wants, tSend' = "stop" PROVE e = "stop"
    OBVIOUS
  <2>1. CASE tKind = "docker" /\ tSend' = e
    BY <2>1
  <2>2. CASE tSend' = IncusAction(e)
    <3>1. e # "delete"
      BY <1>2 DEF TGInv, TGStream, Wants
    <3> QED BY <2>2, <3>1 DEF IncusAction, Wants
  <2> QED BY <2>1, <2>2 DEF e
<1>9. TGStops'
  <2> SUFFICES ASSUME Wants
               PROVE  /\ \A i \in 1 .. Len(tFeed') :
                           tFeed'[i] = "stop" => \E j \in i + 1 .. Len(tFeed') : Brings(tFeed'[j])
                      /\ tSend' = "stop" => Brought'
    BY <1>7 DEF TGStops, Brings
  <2>1. ASSUME NEW i \in 1 .. Len(tFeed), tFeed[i] = "stop"
        PROVE  \E j \in i .. Len(tFeed') : Brings(tFeed'[j])
    <3>1. PICK j \in i + 1 .. Len(tFeed) : Brings(tFeed[j])
      BY <2>1 DEF TGInv, TGStops
    <3>2. j - 1 \in i .. Len(tFeed') /\ tFeed'[j - 1] = tFeed[j]
      BY <1>2
    <3> QED BY <3>1, <3>2 DEF Brings
  <2>2. ASSUME NEW i \in 1 .. Len(tFeed'), tFeed'[i] = "stop"
        PROVE  \E j \in i + 1 .. Len(tFeed') : Brings(tFeed'[j])
    <3>1. i + 1 \in 1 .. Len(tFeed) /\ tFeed[i + 1] = "stop"
      BY <1>2, <2>2
    <3> QED BY <3>1, <2>1
  <2>3. tSend' = "stop" => Brought'
    <3>1. SUFFICES ASSUME tSend' = "stop" PROVE Brought'
      OBVIOUS
    <3>2. 1 \in 1 .. Len(tFeed) /\ tFeed[1] = "stop"
      BY <3>1, <1>2, <1>8
    <3> QED BY <3>2, <2>1, <1>2 DEF Brought, Brings
  <2> QED BY <2>2, <2>3
<1>10. TGUnderWay'
  <2> SUFFICES ASSUME Wants, ~tFailed', ~tOvertaken, tLink = "up", tScan # "list"
               PROVE  Brought' \/ Makes(tSend') \/ tScan = "send" \/ Settles'
    BY <1>7 DEF TGUnderWay, Makes
  <2>1. ~tFailed
    BY DEF e
  <2>2. Brought \/ tScan = "send" \/ Settles
    BY <2>1 DEF TGInv, TGUnderWay, Makes
  <2>3. CASE Settles
    BY <2>3 DEF Settles, Last
  <2>4. CASE Brought
    <3>1. PICK i \in 1 .. Len(tFeed) : Brings(tFeed[i])
      BY <2>4 DEF Brought
    <3>2. CASE i > 1
      <4>1. i - 1 \in 1 .. Len(tFeed') /\ tFeed'[i - 1] = tFeed[i]
        BY <3>2, <1>2
      <4> QED BY <4>1, <3>1 DEF Brought, Brings
    <3>3. CASE i = 1
      <4>1. Brings(e)
        BY <3>1, <3>3, <1>2
      <4>2. CASE tKind = "docker" /\ tSend' = e
        BY <4>1, <4>2, <1>2 DEF Brings, Makes, Actions
      <4>3. CASE /\ tSend' = IncusAction(e)
                 /\ tFailed' = (tFailed \/ (e = "update" /\ tTracked # 0 /\ Stopping))
        <5>1. Makes(tSend') \/ (e = "update" /\ tTracked = tInst.cfg)
          BY <4>1, <4>3 DEF IncusAction, Makes, Brings, Wants
        <5>2. ASSUME e = "update", tTracked = tInst.cfg PROVE Settles'
          <6>1. tInst.cfg \in Nat \ {0} /\ tAdd \in Nat
            BY <1>1 DEF InstanceStates, TGInv, TGTyped
          <6>2. ~Stopping
            BY <4>3, <5>2, <6>1
          <6>3. tTracked = tInst.cfg /\ (tAdd # 0 => tAdd = tInst.cfg)
            BY <5>2, <6>1 DEF TGInv, TGOrder
          <6>4. Last(0)
            BY <6>2 DEF Last, Stopping
          <6>5. Settles
            BY <6>3, <6>4 DEF Settles
          <6> QED BY <6>5 DEF Settles, Last
        <5> QED BY <5>1, <5>2
      <4> QED BY <4>2, <4>3, <2>1 DEF e
    <3> QED BY <3>2, <3>3
  <2> QED BY <2>2, <2>3, <2>4
<1> QED BY <1>4, <1>5, <1>6, <1>9, <1>10 DEF TGInv

\* A handler gets the lock: that of the first action, or it overtakes another one.
LEMMA TGTakeInv == TGInv /\ TTake => TGInv'
<1> SUFFICES ASSUME TGInv, TTake PROVE TGInv'
  OBVIOUS
<1> USE DEF target, stream
<1>1. tQueue \in Seq(Actions) /\ ~tHeld /\ tHeld' = TRUE /\ tAdd = 0
      /\ UNCHANGED <<target, stream, tAdd, tTracked, tProxy, tLost, tFailed>>
  BY DEF TTake, TGInv, TGTyped, TGOrder
<1>2. PICK i \in 1 .. Len(tQueue) :
        tQueue' = ToFront(tQueue, i) /\ tOvertaken' = (tOvertaken \/ i # 1)
  BY DEF TTake
<1>3. tQueue' \in Seq(Actions) /\ tQueue' # <<>> /\ (i = 1 => tQueue' = tQueue)
  BY <1>1, <1>2, Moved
<1>4. TGTyped'
  BY <1>1, <1>2, <1>3 DEF TGInv, TGTyped
<1>5. TGStream' /\ TGOrder' /\ TGStops'
  BY <1>1, <1>3 DEF TGInv, TGStream, TGOrder, TGStops, Brought, Wants
<1>6. TGUnderWay'
  <2>1. CASE i = 1
    BY <2>1, <1>1, <1>2, <1>3 DEF TGInv, TGUnderWay, Settles, Last, Brought, Wants
  <2>2. CASE i # 1
    BY <2>2, <1>2 DEF TGUnderWay
  <2> QED BY <2>1, <2>2
<1> QED BY <1>4, <1>5, <1>6 DEF TGInv

\* Start fails, and the entry stays.
LEMMA TGStartFailsInv == TGInv /\ TStartFails => TGInv'
<1> SUFFICES ASSUME TGInv, TStartFails PROVE TGInv'
  OBVIOUS
<1> USE DEF TStartFails, target, stream
<1>1. TGTyped' /\ TGStream' /\ TGOrder'
  BY DEF TGInv, TGTyped, TGStream, TGOrder
<1>2. TGStops' /\ TGUnderWay'
  BY DEF TGInv, TGStops, TGUnderWay, Settles, Last, Brought, Wants
<1> QED BY <1>1, <1>2 DEF TGInv

\* A stop takes the proxy down, and the handler behind it makes it anew.
LEMMA TGStopInv == TGInv /\ TStop => TGInv'
<1> SUFFICES ASSUME TGInv, TStop PROVE TGInv'
  OBVIOUS
<1> USE DEF TStop, TDone, target, stream
<1>1. tQueue \in Seq(Actions) /\ tQueue # <<>> /\ tInst \in InstanceStates
  BY DEF TGInv, TGTyped, TGOrder
<1>2. /\ Tail(tQueue) \in Seq(Actions) /\ Len(tQueue) \in Nat \ {0}
      /\ Len(Tail(tQueue)) = Len(tQueue) - 1
      /\ \A i \in 1 .. Len(Tail(tQueue)) : Tail(tQueue)[i] = tQueue[i + 1]
      /\ Head(tQueue) = tQueue[1]
  BY <1>1, Popped
<1>3. /\ <<"start">> \o Tail(tQueue) \in Seq(Actions)
      /\ Len(<<"start">> \o Tail(tQueue)) = Len(tQueue)
      /\ (<<"start">> \o Tail(tQueue))[1] = "start"
      /\ \A i \in 2 .. Len(tQueue) : (<<"start">> \o Tail(tQueue))[i] = tQueue[i]
  BY <1>1, Replaced DEF Actions
<1>4. TGTyped'
  <2>1. tQueue' \in Seq(Actions) /\ tHeld' \in BOOLEAN
    BY <1>2, <1>3 DEF TGInv, TGTyped
  <2> QED BY <2>1 DEF TGInv, TGTyped
<1>0. tAdd = 0
  BY <1>2 DEF TGInv, TGOrder
<1>5. TGOrder'
  <2>1. tHeld' => tQueue' # <<>>
    BY <1>1, Replaced DEF Actions
  <2> QED BY <1>0, <1>1, <2>1 DEF TGInv, TGOrder, InstanceStates
<1>6. TGStream' /\ TGStops'
  BY DEF TGInv, TGStream, TGStops, Brought, Wants
<1>7. Settles => Settles'
  <2> SUFFICES ASSUME Settles PROVE Settles'
    OBVIOUS
  <2>1. CASE tQueue[1] = "restart"
    <3>1. /\ Len(tQueue') = Len(tQueue) /\ tQueue'[1] = "start"
          /\ \A i \in 2 .. Len(tQueue) : tQueue'[i] = tQueue[i]
      BY <2>1, <1>2, <1>3
    <3>2. PICK i \in 1 .. Len(tQueue) : Makes(tQueue[i]) /\ Last(i)
      <4>1. CASE Last(0)
        <5>1. 1 \in 1 .. Len(tQueue) /\ Makes(tQueue[1]) /\ Last(1)
          BY <4>1, <2>1, <1>2 DEF Makes, Last
        <5> QED BY <5>1
      <4>2. CASE ~Last(0)
        BY <4>2 DEF Settles
      <4> QED BY <4>1, <4>2
    <3>3. Makes(tQueue'[i])
      BY <3>1, <3>2 DEF Makes
    <3>4. Last(i)'
      <4> HIDE DEF TStop, TDone
      <4> SUFFICES ASSUME NEW j \in i + 1 .. Len(tQueue') PROVE tQueue'[j] # "stop"
        BY DEF Last
      <4>1. j \in i + 1 .. Len(tQueue) /\ j \in 2 .. Len(tQueue)
        BY <3>1, <3>2, <1>2
      <4> QED BY <4>1, <3>1, <3>2 DEF Last
    <3>5. i \in 1 .. Len(tQueue')
      BY <3>1
    <3> QED BY <3>3, <3>4, <3>5, <1>0 DEF Settles, Makes
  <2>2. CASE tQueue[1] = "stop"
    <3>1. tQueue' = Tail(tQueue)
      BY <2>2, <1>2
    <3>2. ~Last(0)
      BY <2>2, <1>2 DEF Last
    <3>3. PICK i \in 1 .. Len(tQueue) : Makes(tQueue[i]) /\ Last(i)
      BY <3>2 DEF Settles
    <3>4. i # 1
      BY <3>3, <2>2 DEF Makes
    <3> HIDE DEF TStop, TDone
    <3>5. i - 1 \in 1 .. Len(tQueue') /\ tQueue'[i - 1] = tQueue[i]
      BY <3>1, <3>3, <3>4, <1>2
    <3>6. Last(i - 1)'
      <4> SUFFICES ASSUME NEW j \in i - 1 + 1 .. Len(tQueue') PROVE tQueue'[j] # "stop"
        BY DEF Last
      <4>1. j + 1 \in i + 1 .. Len(tQueue) /\ tQueue'[j] = tQueue[j + 1]
        BY <3>1, <3>3, <3>4, <1>2
      <4> QED BY <4>1, <3>3 DEF Last
    <3>7. tAdd' = 0
      BY <1>0 DEF TStop
    <3> QED BY <3>3, <3>5, <3>6, <3>7 DEF Settles, Makes
  <2> QED BY <2>1, <2>2, <1>2
<1>8. TGUnderWay'
  BY <1>7 DEF TGInv, TGUnderWay, Brought, Wants
<1> QED BY <1>4, <1>5, <1>6, <1>8 DEF TGInv

\* AddTarget reads the configuration of now.
LEMMA TGInspectInv == TGInv /\ TInspect => TGInv'
<1> SUFFICES ASSUME TGInv, TInspect PROVE TGInv'
  OBVIOUS
<1> USE DEF TInspect, TDone, target, stream
<1>1. tQueue \in Seq(Actions) /\ tQueue # <<>> /\ tAdd = 0 /\ tInst \in InstanceStates
      /\ tTracked \in Nat
  BY DEF TGInv, TGTyped, TGOrder
<1>2. /\ Tail(tQueue) \in Seq(Actions) /\ Head(tQueue) = tQueue[1]
  BY <1>1, Popped
<1>3. TGTyped'
  <2>1. tQueue' \in Seq(Actions)
    BY <1>1, <1>2
  <2>2. tAdd' \in Nat /\ tFailed' \in BOOLEAN /\ tHeld' \in BOOLEAN
    BY <1>1 DEF InstanceStates, TGInv, TGTyped
  <2> QED BY <2>1, <2>2 DEF TGInv, TGTyped
<1>4. TGOrder'
  <2>1. tInst.cfg \in Nat /\ tHeld /\ tQueue[1] = "start"
    BY <1>1, <1>2 DEF InstanceStates
  <2>2. \/ tAdd' = tInst.cfg /\ tQueue' = tQueue /\ tHeld' = tHeld
        \/ tAdd' = 0 /\ tHeld' = FALSE
    BY <1>1
  <2>3. UNCHANGED <<tInst, tTracked, tProxy, tLost>>
    OBVIOUS
  <2> HIDE DEF TInspect
  <2>4. (tLost \/ tProxy = tTracked)'
    BY <2>3 DEF TGInv, TGOrder
  <2>5. (tHeld => tQueue # <<>>)'
    BY <2>2, <1>1
  <2>6. tTracked <= tInst.cfg
    BY DEF TGInv, TGOrder
  <2>7. (tTracked <= tInst.cfg)'
    BY <2>3, <2>6
  <2>8. ASSUME tAdd' # 0
        PROVE  tHeld' /\ tQueue'[1] = "start" /\ (tTracked <= tAdd)' /\ (tAdd <= tInst.cfg)'
    <3>1. tAdd' = tInst.cfg /\ tQueue' = tQueue /\ tHeld' = tHeld
      BY <2>8, <2>2
    <3>2. tInst' = tInst /\ tTracked' = tTracked
      BY <2>3
    <3> QED BY <3>1, <3>2, <2>1, <2>6
  <2> QED BY <2>4, <2>5, <2>7, <2>8 DEF TGOrder
<1>5. TGStream' /\ TGStops'
  BY DEF TGInv, TGStream, TGStops, Brought, Wants
<1>6. TGUnderWay'
  <2> SUFFICES ASSUME Wants, ~tFailed', ~tOvertaken, tLink = "up", tScan # "list"
               PROVE  Brought \/ Makes(tSend) \/ tScan = "send" \/ Settles'
    BY DEF TGUnderWay, Brought, Makes, Wants
  <2>1. Usable
    BY DEF Usable, Wants
  <2>2. ~tFailed /\ tAdd' = tInst.cfg /\ tQueue' = tQueue
    <3>1. CASE Usable /\ tAdd' = tInst.cfg /\ UNCHANGED <<tQueue, tHeld, tFailed>>
      BY <3>1
    <3> QED BY <2>1, <3>1
  <2>3. Settles => Settles'
    BY <2>2 DEF Settles, Last
  <2> QED BY <2>2, <2>3 DEF TGInv, TGUnderWay
<1> QED BY <1>3, <1>4, <1>5, <1>6 DEF TGInv

\* The proxy is made from what AddTarget has read.
LEMMA TGAddedInv == TGInv /\ TAdded => TGInv'
<1> SUFFICES ASSUME TGInv, TAdded PROVE TGInv'
  OBVIOUS
<1> USE DEF TAdded, TDone, target, stream
<1>1. tQueue \in Seq(Actions) /\ tQueue # <<>> /\ tAdd \in Nat /\ tAdd # 0 /\ tAdd <= tInst.cfg
      /\ tTracked <= tAdd /\ tInst.cfg \in Nat /\ tTracked \in Nat /\ tProxy \in Nat
  BY DEF TGInv, TGTyped, TGOrder, InstanceStates
<1>2. /\ tQueue' \in Seq(Actions) /\ Len(tQueue) \in Nat \ {0} /\ Len(tQueue') = Len(tQueue) - 1
      /\ \A i \in 1 .. Len(tQueue') : tQueue'[i] = tQueue[i + 1]
  BY <1>1, Popped
<1>3. TGTyped'
  <2>1. CASE tProxy' = tAdd /\ tLost' = FALSE
    BY <2>1, <1>1, <1>2 DEF TGInv, TGTyped
  <2>2. CASE tProxy' \in {0, tProxy} /\ tLost' = TRUE
    <3>1. tProxy' \in Nat
      BY <2>2, <1>1
    <3> QED BY <2>2, <3>1, <1>1, <1>2 DEF TGInv, TGTyped
  <2> QED BY <2>1, <2>2
<1>4. TGOrder'
  BY <1>1 DEF TGOrder
<1>5. TGStream' /\ TGStops'
  BY DEF TGInv, TGStream, TGStops, Brought, Wants
<1>6. Settles => Settles'
  <2> SUFFICES ASSUME Settles PROVE Settles'
    OBVIOUS
  <2>1. CASE Last(0) /\ tAdd = tInst.cfg
    <3>1. Last(0)'
      <4> SUFFICES ASSUME NEW j \in 0 + 1 .. Len(tQueue') PROVE tQueue'[j] # "stop"
        BY DEF Last
      <4>1. j + 1 \in 0 + 1 .. Len(tQueue) /\ tQueue'[j] = tQueue[j + 1]
        BY <1>2
      <4> QED BY <4>1, <2>1 DEF Last
    <3> QED BY <3>1, <2>1 DEF Settles
  <2>2. ASSUME NEW i \in 1 .. Len(tQueue), Makes(tQueue[i]), Last(i),
               i = 1 => tAdd = tInst.cfg
        PROVE  Settles'
    <3>1. Last(i - 1)'
      <4> SUFFICES ASSUME NEW j \in i - 1 + 1 .. Len(tQueue') PROVE tQueue'[j] # "stop"
        BY DEF Last
      <4>1. j + 1 \in i + 1 .. Len(tQueue) /\ tQueue'[j] = tQueue[j + 1]
        BY <1>2
      <4> QED BY <4>1, <2>2 DEF Last
    <3>2. CASE i = 1
      BY <3>1, <3>2, <2>2 DEF Settles
    <3>3. CASE i # 1
      <4>1. i - 1 \in 1 .. Len(tQueue') /\ tQueue'[i - 1] = tQueue[i]
        BY <3>3, <1>2
      <4> QED BY <4>1, <3>1, <2>2 DEF Settles, Makes
    <3> QED BY <3>2, <3>3
  <2> QED BY <2>1, <2>2, <1>1 DEF Settles
<1>7. TGUnderWay'
  BY <1>6 DEF TGInv, TGUnderWay, Brought, Wants
<1> QED BY <1>3, <1>4, <1>5, <1>7 DEF TGInv

\* Every step keeps the invariant.
LEMMA TGNextInv == TGInv /\ [TGNext]_tgvars => TGInv'
<1> SUFFICES ASSUME TGInv, [TGNext]_tgvars PROVE TGInv'
  OBVIOUS
<1>1. CASE UNCHANGED tgvars
  <2> USE <1>1 DEF tgvars, target, stream, handling
  <2>1. TGTyped' /\ TGStream' /\ TGOrder'
    BY DEF TGInv, TGTyped, TGStream, TGOrder
  <2>2. TGStops' /\ TGUnderWay'
    BY DEF TGInv, TGStops, TGUnderWay, Settles, Last, Brought, Wants
  <2> QED BY <2>1, <2>2 DEF TGInv
<1> QED BY <1>1, TGLifecycleInv, TGUpdatedInv, TGLinkInv, TGListInv, TGScanSendInv,
           TGDeliverInv, TGReadInv, TGTakeInv, TGStopInv, TGInspectInv, TGAddedInv,
           TGStartFailsInv DEF TGNext

\* Whatever is missed while the stream is down, and however the scan, the events
\* and the handlers overlap: when all is handled, nothing failed and no handler
\* overtook another, a target that wants a proxy has one with its configuration of
\* now, and the backoff of the reconnect loop keeps its limit (WatchEvents,
\* startAllProxies).
THEOREM WatchSafety == TGSpec => []WatchSafe
<1>1. TGInv => WatchSafe
  <2> SUFFICES ASSUME TGInv PROVE WatchSafe
    OBVIOUS
  <2>1. tBackoff \in 1 .. MaxWatchBackoff
    BY DEF TGInv, TGTyped
  <2>2. ASSUME TAtRest, ~tFailed, ~tOvertaken, ~tLost, Wants PROVE tProxy = tInst.cfg
    <3>1. ~Brought /\ ~Makes(tSend)
      BY <2>2 DEF TAtRest, Brought, Makes
    <3>2. Settles
      BY <2>2, <3>1 DEF TGInv, TGUnderWay, TAtRest
    <3>3. tTracked = tInst.cfg
      BY <2>2, <3>2 DEF Settles, TAtRest
    <3> QED BY <2>2, <3>3 DEF TGInv, TGOrder
  <2> QED BY <2>1, <2>2 DEF WatchSafe, Wants
<1> QED BY <1>1, TGInitInv, TGNextInv, PTL DEF TGSpec

-----------------------------------------------------------------------------
(* The provider that polls a guest: the proof. *)

\* The invariant holds at first: nothing is known of the guest.
LEMMA QInitInv == QInit => QInv
<1> SUFFICES ASSUME QInit PROVE QInv
  OBVIOUS
<1> USE DEF QInit
<1>1. QTyped
  <2>1. qQueue \in Seq(Actions)
    OBVIOUS
  <2>2. qGuest \in GuestStates
    <3>1. qGuest \in [st : {"running", "stopped"}, on : {TRUE}, cfg : {1}]
      OBVIOUS
    <3> HIDE DEF QInit
    <3>2. PICK r \in [st : {"running", "stopped"}, on : {TRUE}, cfg : {1}] : qGuest = r
      BY <3>1
    <3>3. r = [st |-> r.st, on |-> TRUE, cfg |-> 1] /\ r.st \in {"running", "stopped", "absent"}
      BY <3>2
    <3>4. [st |-> r.st, on |-> TRUE, cfg |-> 1] \in GuestStates
      BY <3>3 DEF GuestStates
    <3> QED BY <3>2, <3>3, <3>4
  <2>3. qAdd \in Nat /\ qProxy \in Nat /\ qQuiet \in 0 .. 2
    OBVIOUS
  <2>4. /\ qTracked \in BOOLEAN /\ qFailed \in BOOLEAN /\ qHeld \in BOOLEAN
        /\ qLost \in BOOLEAN /\ qOvertaken \in BOOLEAN
    OBVIOUS
  <2>5. qPoll = "idle" /\ qListed = "none"
    OBVIOUS
  <2>6. qSeen \in Snapshots /\ qAction \in [do : Actions \cup {"none"}, seen : Snapshots]
    BY DEF Snapshots, Unknown
  <2> HIDE DEF QInit
  <2> QED BY <2>1, <2>2, <2>3, <2>4, <2>5, <2>6 DEF QTyped
<1>2. QOrder /\ QUnderWay /\ QRested
  BY DEF QOrder, QUnderWay, QRested, Settled, Unknown
<1> QED BY <1>1, <1>2 DEF QInv


\* The guest changes: a snapshot with the notes of now still has them, or none has.
LEMMA QChangeInv == QInv /\ QChange => QInv'
<1> SUFFICES ASSUME QInv, QChange PROVE QInv'
  OBVIOUS
<1>1. /\ qGuest \in GuestStates /\ qSeen.notes \in Nat /\ qAction.seen.notes \in Nat
      /\ qProxy \in Nat /\ qAdd \in Nat
  BY DEF QInv, QTyped, Snapshots
<1>2. qGuest' \in GuestStates /\ qGuest'.cfg \in {qGuest.cfg, qGuest.cfg + 1}
  <2>1. CASE qGuest' = [qGuest EXCEPT !.on = ~@]
    BY <2>1, <1>1 DEF GuestStates
  <2>2. CASE qGuest' = [qGuest EXCEPT !.cfg = @ + 1]
    BY <2>2, <1>1 DEF GuestStates
  <2>3. CASE \E t \in {"running", "stopped", "absent"} : qGuest' = [qGuest EXCEPT !.st = t]
    BY <2>3, <1>1 DEF GuestStates
  <2> QED BY <2>1, <2>2, <2>3 DEF QChange
<1>3. /\ qQuiet' = 0
      /\ UNCHANGED <<qPoll, qListed, qAction, qSeen, qResource, handlers>>
  BY DEF QChange, polling
<1>4. qGuest.cfg \in Nat
  BY <1>1 DEF GuestStates
<1>5. QTyped'
  BY <1>2, <1>3 DEF QInv, QTyped, handlers
<1>6. QOrder'
  <2>1. UNCHANGED <<qSeen, qAction, handlers>> /\ QOrder
    BY <1>3 DEF QInv
  <2>2. qGuest'.cfg \in Nat /\ qGuest.cfg <= qGuest'.cfg
    BY <1>2, <1>4
  <2>3. /\ qSeen.notes <= qGuest'.cfg /\ qAction.seen.notes <= qGuest'.cfg
        /\ qProxy <= qGuest'.cfg /\ (qAdd # 0 => qAdd <= qGuest'.cfg)
    BY <2>1, <2>2, <1>1, <1>4 DEF QOrder
  <2> QED BY <2>1, <2>3 DEF QOrder, handlers
<1>7. QUnderWay'
  <2>1. CASE qGuest'.cfg = qGuest.cfg
    BY <2>1, <1>3 DEF QInv, QUnderWay, QEnds, QRight, Settled, Makes, handlers
  <2>2. CASE qGuest'.cfg = qGuest.cfg + 1
    <3>1. qSeen.notes # qGuest'.cfg /\ qAction.seen.notes # qGuest'.cfg
      BY <2>2, <1>1, <1>4 DEF QInv, QOrder
    <3> QED BY <3>1, <1>3 DEF QUnderWay, Settled
  <2> QED BY <2>1, <2>2, <1>2
<1>8. QRested'
  BY <1>3 DEF QRested
<1> QED BY <1>5, <1>6, <1>7, <1>8 DEF QInv

\* A poll begins, perhaps the second since the guest came to rest.
LEMMA QListInv == QInv /\ QList => QInv'
<1> SUFFICES ASSUME QInv, QList PROVE QInv'
  OBVIOUS
<1> USE DEF QList, handlers
<1>1. qGuest.st \in {"running", "stopped", "absent"} /\ qQuiet \in 0 .. 2
  BY DEF QInv, QTyped, GuestStates
<1>2. QTyped'
  BY <1>1 DEF QInv, QTyped
<1>3. QOrder'
  BY DEF QInv, QOrder
<1>4. QUnderWay'
  BY DEF QInv, QUnderWay, QEnds, QRight, Settled
<1>5. QRested'
  <2>1. qQuiet' = 2 => qQuiet = 2 \/ (qQueue = <<>> /\ qAdd = 0)
    BY <1>1
  <2>2. CASE qQuiet = 2
    BY <2>2 DEF QInv, QRested, Enabled, Disabled
  <2>3. CASE qQueue = <<>> /\ qAdd = 0
    BY <2>3 DEF QRested, Enabled, Disabled
  <2> QED BY <2>1, <2>2, <2>3 DEF QRested
<1> QED BY <1>2, <1>3, <1>4, <1>5 DEF QInv

\* What pollOnce is about to send brings the proxy of the snapshot it will store.
LEMMA QCompareInv == QInv /\ QCompare => QInv'
<1> SUFFICES ASSUME QInv, QCompare PROVE QInv'
  OBVIOUS
<1>1. /\ qGuest \in GuestStates /\ qSeen \in Snapshots /\ qTracked \in BOOLEAN
      /\ qAction \in [do : Actions \cup {"none"}, seen : Snapshots]
      /\ qGuest.cfg \in Nat \ {0} /\ qSeen.notes <= qGuest.cfg
  BY DEF QInv, QTyped, QOrder, GuestStates
<1>2. /\ qPoll = "listed" /\ qPoll' = "send"
      /\ UNCHANGED <<qGuest, qQuiet, qListed, handlers>>
  BY DEF QCompare, guest
<1>3. Notes \in Nat /\ Notes <= qGuest.cfg /\ (qGuest.on => Notes = qGuest.cfg)
  BY <1>1 DEF Notes, GuestStates
<1>4. RunningAction \in Actions \cup {"none"}
  BY DEF RunningAction, Actions
<1>5. /\ qAction' \in [do : Actions \cup {"none"}, seen : Snapshots] /\ qSeen' \in Snapshots
      /\ qAction'.seen.notes <= qGuest.cfg /\ qSeen'.notes <= qGuest.cfg
  <2>1. CASE /\ qListed = "stopped"
             /\ qAction' = [do |-> IF qTracked THEN "stop" ELSE "none",
                            seen |-> [known |-> TRUE, st |-> "stopped", notes |-> 0]]
             /\ UNCHANGED <<qSeen, qResource>>
    BY <2>1, <1>1 DEF Snapshots, Actions
  <2>2. CASE /\ qAction' = [do |-> RunningAction,
                            seen |-> [known |-> TRUE, st |-> "running", notes |-> Notes]]
             /\ UNCHANGED <<qSeen, qResource>>
    BY <2>2, <1>1, <1>3, <1>4 DEF Snapshots
  <2>3. CASE qAction' = [do |-> "none", seen |-> qSeen] /\ UNCHANGED <<qSeen, qResource>>
    BY <2>3, <1>1
  <2>4. CASE /\ qListed = "absent"
             /\ qAction' = [do |-> IF qSeen.known /\ qTracked THEN "stop" ELSE "none", seen |-> Unknown]
             /\ qSeen' = Unknown
    BY <2>4, <1>1 DEF Snapshots, Unknown, Actions
  <2> QED BY <2>1, <2>2, <2>3, <2>4 DEF QCompare
<1>6. QTyped'
  BY <1>2, <1>5 DEF QInv, QTyped, handlers
<1>7. QOrder'
  BY <1>2, <1>5 DEF QInv, QOrder, handlers
<1>8. Settled(qSeen) => QEnds
  BY <1>2 DEF QInv, QUnderWay
<1>9. Settled(qAction'.seen) => Makes(qAction'.do) \/ (qAction'.do = "none" /\ QEnds)
  <2> SUFFICES ASSUME Settled(qAction'.seen)
               PROVE  Makes(qAction'.do) \/ (qAction'.do = "none" /\ QEnds)
    OBVIOUS
  <2>1. CASE qListed \in {"stopped", "absent"}
    BY <2>1 DEF QCompare, Settled, Unknown
  <2>2. CASE qAction' = [do |-> RunningAction,
                         seen |-> [known |-> TRUE, st |-> "running", notes |-> Notes]]
    <3>1. Notes = qGuest.cfg /\ qGuest.on
      BY <2>2, <1>1 DEF Settled, Notes
    <3>2. RunningAction = "none" => Settled(qSeen)
      BY <3>1, <1>1 DEF RunningAction, Settled
    <3>3. RunningAction \in {"none", "start", "restart"}
      BY <3>1 DEF RunningAction
    <3> QED BY <3>2, <3>3, <2>2, <1>8 DEF Makes
  <2>3. CASE qAction' = [do |-> "none", seen |-> qSeen]
    BY <2>3, <1>8
  <2> QED BY <2>1, <2>2, <2>3 DEF QCompare
<1>10. QUnderWay'
  BY <1>2, <1>9 DEF QUnderWay, QEnds, QRight, Settled, Makes, handlers
<1>11. QRested'
  <2> SUFFICES ASSUME qQuiet = 2
               PROVE  /\ Enabled => Settled(qAction'.seen)
                      /\ Disabled => /\ qAdd = 0 /\ \A i \in 1 .. Len(qQueue) : qQueue[i] = "stop"
                                     /\ qAction'.do \in {"none", "stop"}
                                     /\ qTracked => qAction'.do = "stop"
    BY <1>2 DEF QRested, Enabled, Disabled, Settled, handlers
  <2>1. qListed = qGuest.st
    BY <1>2 DEF QInv, QRested
  <2>2. ASSUME Enabled PROVE Settled(qAction'.seen)
    <3>1. qAction'.seen = [known |-> TRUE, st |-> "running", notes |-> Notes]
      BY <2>1, <2>2 DEF QCompare, Enabled
    <3> QED BY <3>1, <1>3, <2>2 DEF Settled, Enabled
  <2>3. ASSUME Disabled
        PROVE  qAction'.do \in {"none", "stop"} /\ (qTracked => qAction'.do = "stop")
    <3>1. CASE qGuest.st = "stopped"
      BY <3>1, <2>1 DEF QCompare
    <3>2. CASE qGuest.st = "running" /\ ~qGuest.on
      <4>1. qAction'.do = RunningAction
        BY <3>2, <2>1 DEF QCompare
      <4> QED BY <4>1, <3>2 DEF RunningAction
    <3> QED BY <3>1, <3>2, <2>3 DEF Disabled
  <2> QED BY <2>2, <2>3 DEF QInv, QRested
<1> QED BY <1>6, <1>7, <1>10, <1>11 DEF QInv

\* The action is dispatched, before the snapshot is stored.
LEMMA QSendInv == QInv /\ QSend => QInv'
<1> SUFFICES ASSUME QInv, QSend PROVE QInv'
  OBVIOUS
<1>1. /\ qPoll = "send" /\ qPoll' = "store"
      /\ UNCHANGED <<qGuest, qListed, qAction, qSeen, qHeld, qAdd, qTracked, qProxy,
                     qLost, qOvertaken, qFailed, qQuiet>>
  BY DEF QSend, guest
<1>2. qQueue \in Seq(Actions) /\ qAction.do \in Actions \cup {"none"} /\ qAdd \in Nat
  BY DEF QInv, QTyped
<1>3. CASE qAction.do = "none"
  <2>1. qQueue' = qQueue
    BY <1>3 DEF QSend
  <2>2. QTyped' /\ QOrder'
    BY <2>1, <1>1 DEF QInv, QTyped, QOrder
  <2>3. QUnderWay'
    BY <2>1, <1>1, <1>3 DEF QInv, QUnderWay, QEnds, QRight, Settled, Makes
  <2>4. QRested'
    BY <2>1, <1>1, <1>3, <1>2 DEF QInv, QRested, Enabled, Disabled, Settled
  <2> QED BY <2>2, <2>3, <2>4 DEF QInv
<1>4. CASE qAction.do # "none"
  <2> DEFINE e == qAction.do
  <2>1. e \in Actions /\ qQueue' = Append(qQueue, e)
    BY <1>2, <1>4 DEF QSend
  <2>2. /\ qQueue' \in Seq(Actions) /\ Len(qQueue) \in Nat /\ Len(qQueue') = Len(qQueue) + 1
        /\ \A i \in 1 .. Len(qQueue) : qQueue'[i] = qQueue[i]
        /\ qQueue'[Len(qQueue) + 1] = e
    BY <2>1, <1>2, Pushed
  <2>3. QTyped'
    BY <2>2, <1>1 DEF QInv, QTyped
  <2>4. qQueue' # <<>> /\ (qQueue # <<>> => qQueue'[1] = qQueue[1]) /\ (qQueue = <<>> => qAdd = 0)
    <3>1. qQueue' # <<>>
      BY <2>2, NothingLeft
    <3>2. qQueue # <<>> => 1 \in 1 .. Len(qQueue)
      BY <2>2, <1>2, NothingLeft
    <3> QED BY <3>1, <3>2, <2>2 DEF QInv, QOrder
  <2>5. QOrder'
    BY <2>4, <1>1 DEF QInv, QOrder
  <2>6. Makes(e) => QEnds'
    <3>1. SUFFICES ASSUME Makes(e) PROVE QEnds'
      OBVIOUS
    <3>2. Len(qQueue') \in 1 .. Len(qQueue') /\ Makes(qQueue'[Len(qQueue')])
      BY <3>1, <2>2
    <3>3. Len(qQueue') = 1 => qAdd = 0
      <4>1. Len(qQueue') = 1 => qQueue = <<>>
        BY <2>2, <1>2, NothingLeft
      <4> QED BY <4>1, <2>4
    <3>4. ASSUME NEW i \in 1 .. Len(qQueue'), qQueue'[i] = "stop"
          PROVE  \E j \in i + 1 .. Len(qQueue') : Makes(qQueue'[j])
      <4>1. i # Len(qQueue')
        BY <3>2, <3>4 DEF Makes
      <4>2. Len(qQueue') \in i + 1 .. Len(qQueue')
        BY <4>1, <2>2
      <4> QED BY <4>2, <3>2
    <3> QED BY <3>2, <3>3, <3>4, <1>1 DEF QEnds, QRight, Makes
  <2>7. QUnderWay'
    BY <2>6, <1>1, <1>4 DEF QInv, QUnderWay, Settled
  <2>8. QRested'
    <3> SUFFICES ASSUME qQuiet = 2
                 PROVE  /\ Enabled => Settled(qAction.seen)
                        /\ Disabled => /\ qAdd = 0
                                       /\ \A i \in 1 .. Len(qQueue') : qQueue'[i] = "stop"
      BY <1>1, <2>4 DEF QRested, Enabled, Disabled, Settled
    <3>1. Enabled => Settled(qAction.seen)
      BY <1>1 DEF QInv, QRested
    <3>2. Disabled => /\ qAdd = 0 /\ \A i \in 1 .. Len(qQueue) : qQueue[i] = "stop"
                      /\ e = "stop"
      BY <1>1, <1>4 DEF QInv, QRested
    <3>3. Disabled => \A i \in 1 .. Len(qQueue') : qQueue'[i] = "stop"
      <4> SUFFICES ASSUME Disabled, NEW i \in 1 .. Len(qQueue') PROVE qQueue'[i] = "stop"
        OBVIOUS
      <4>1. i \in 1 .. Len(qQueue) \/ i = Len(qQueue) + 1
        BY <2>2
      <4> QED BY <4>1, <2>2, <3>2
    <3> QED BY <3>1, <3>2, <3>3
  <2> QED BY <2>3, <2>5, <2>7, <2>8 DEF QInv
<1> QED BY <1>3, <1>4

\* The snapshot is stored.
LEMMA QStoreInv == QInv /\ QStore => QInv'
<1> SUFFICES ASSUME QInv, QStore PROVE QInv'
  OBVIOUS
<1> USE DEF QStore, guest, handlers
<1>1. QTyped'
  BY DEF QInv, QTyped, Unknown, Snapshots
<1>2. QOrder'
  <2>1. qGuest.cfg \in Nat
    BY DEF QInv, QTyped, GuestStates
  <2> QED BY <2>1 DEF QInv, QOrder, Unknown
<1>3. QUnderWay'
  BY DEF QInv, QUnderWay, QEnds, QRight, Settled
<1>4. QRested'
  BY DEF QInv, QRested, Enabled, Disabled, Settled
<1> QED BY <1>1, <1>2, <1>3, <1>4 DEF QInv


\* A handler has taken the head of the queue.
LEMMA QShrinks ==
  ASSUME QInv, qQueue # <<>>, qQueue' = Tail(qQueue)
  PROVE  /\ qQueue' \in Seq(Actions) /\ Len(qQueue) \in Nat \ {0} /\ Len(qQueue') = Len(qQueue) - 1
         /\ \A i \in 1 .. Len(qQueue') : qQueue'[i] = qQueue[i + 1]
         /\ QRight => \A i \in 1 .. Len(qQueue') :
              qQueue'[i] = "stop" => \E j \in i + 1 .. Len(qQueue') : Makes(qQueue'[j])
         /\ (\E i \in 2 .. Len(qQueue) : Makes(qQueue[i]))
              => \E i \in 1 .. Len(qQueue') : Makes(qQueue'[i])
<1>1. qQueue \in Seq(Actions)
  BY DEF QInv, QTyped
<1>2. /\ qQueue' \in Seq(Actions) /\ Len(qQueue) \in Nat \ {0} /\ Len(qQueue') = Len(qQueue) - 1
      /\ \A i \in 1 .. Len(qQueue') : qQueue'[i] = qQueue[i + 1]
  BY <1>1, Popped
<1>3. ASSUME QRight, NEW i \in 1 .. Len(qQueue'), qQueue'[i] = "stop"
      PROVE  \E j \in i + 1 .. Len(qQueue') : Makes(qQueue'[j])
  <2>1. i + 1 \in 1 .. Len(qQueue) /\ qQueue[i + 1] = "stop"
    BY <1>2, <1>3
  <2>2. PICK j \in i + 1 + 1 .. Len(qQueue) : Makes(qQueue[j])
    BY <2>1, <1>3 DEF QRight
  <2>3. j - 1 \in i + 1 .. Len(qQueue') /\ qQueue'[j - 1] = qQueue[j]
    BY <1>2, <2>2
  <2> QED BY <2>2, <2>3
<1>4. ASSUME NEW i \in 2 .. Len(qQueue), Makes(qQueue[i])
      PROVE  \E j \in 1 .. Len(qQueue') : Makes(qQueue'[j])
  <2>1. i - 1 \in 1 .. Len(qQueue') /\ qQueue'[i - 1] = qQueue[i]
    BY <1>2
  <2> QED BY <2>1, <1>4
<1> QED BY <1>2, <1>3, <1>4

\* A stop takes the proxy down; the handler behind it makes it anew.
LEMMA QStopInv == QInv /\ QStop => QInv'
<1> SUFFICES ASSUME QInv, QStop PROVE QInv'
  OBVIOUS
<1>1. /\ qQueue \in Seq(Actions) /\ qQueue # <<>> /\ qGuest \in GuestStates
      /\ qTracked' = FALSE /\ qProxy' = 0 /\ qLost' = FALSE
      /\ UNCHANGED <<qGuest, qPoll, qListed, qAction, qSeen, qAdd, qOvertaken, qFailed, qQuiet>>
  BY DEF QInv, QTyped, QOrder, QStop, guest, polling
<1>2. /\ Len(qQueue) \in Nat \ {0} /\ Head(qQueue) = qQueue[1]
      /\ qQueue[1] \in {"stop", "restart"}
  BY <1>1, Popped DEF QStop
<1>0. qAdd = 0 /\ qAdd' = 0
  BY <1>1, <1>2 DEF QInv, QOrder
<1>5. qHeld' \in BOOLEAN
  BY DEF QStop, QDone, QInv, QTyped
<1>3. CASE qQueue[1] = "restart"
  <2>1. qQueue' = <<"start">> \o Tail(qQueue)
    BY <1>2, <1>3 DEF QStop
  <2>2. /\ qQueue' \in Seq(Actions) /\ Len(qQueue') = Len(qQueue) /\ qQueue'[1] = "start"
        /\ \A i \in 2 .. Len(qQueue) : qQueue'[i] = qQueue[i]
    BY <2>1, <1>1, Replaced DEF Actions
  <2>3. QRight => QRight'
    <3> SUFFICES ASSUME QRight PROVE QRight'
      OBVIOUS
    <3>1. 1 \in 1 .. Len(qQueue') /\ Makes(qQueue'[1])
      BY <2>2, <1>2 DEF Makes
    <3>2. ASSUME NEW i \in 1 .. Len(qQueue'), qQueue'[i] = "stop"
          PROVE  \E j \in i + 1 .. Len(qQueue') : Makes(qQueue'[j])
      <4>1. i \in 2 .. Len(qQueue) /\ i \in 1 .. Len(qQueue)
        BY <2>2, <3>2, <1>2
      <4>2. PICK j \in i + 1 .. Len(qQueue) : Makes(qQueue[j])
        BY <4>1, <2>2, <3>2 DEF QRight
      <4>3. j \in 2 .. Len(qQueue) /\ j \in i + 1 .. Len(qQueue')
        BY <4>1, <4>2, <2>2, <1>2
      <4> QED BY <4>2, <4>3, <2>2
    <3> QED BY <3>1, <3>2, <1>0 DEF QRight, Makes
  <2>4. ~(qQuiet = 2 /\ Disabled)
    BY <1>2, <1>3 DEF QInv, QRested
  <2>5. QTyped' /\ QOrder'
    <3>1. QTyped'
      BY <2>2, <1>1, <1>5, <1>0 DEF QInv, QTyped
    <3>2. qGuest.cfg \in Nat
      BY <1>1 DEF GuestStates
    <3>3. qQueue' # <<>>
      BY <2>2, <1>2, NothingLeft
    <3>4. QOrder'
      BY <3>2, <3>3, <1>0, <1>1 DEF QInv, QOrder
    <3> QED BY <3>1, <3>4
  <2>6. QUnderWay'
    BY <2>3, <1>1 DEF QInv, QUnderWay, QEnds, Settled, Makes
  <2>7. QRested'
    BY <2>4, <1>1 DEF QInv, QRested, Enabled, Disabled, Settled
  <2> QED BY <2>5, <2>6, <2>7 DEF QInv
<1>4. CASE qQueue[1] = "stop"
  <2>1. qQueue' = Tail(qQueue)
    BY <1>2, <1>4 DEF QStop, QDone
  <2>2. /\ qQueue' \in Seq(Actions) /\ Len(qQueue') = Len(qQueue) - 1
        /\ \A i \in 1 .. Len(qQueue') : qQueue'[i] = qQueue[i + 1]
        /\ QRight => \A i \in 1 .. Len(qQueue') :
             qQueue'[i] = "stop" => \E j \in i + 1 .. Len(qQueue') : Makes(qQueue'[j])
        /\ (\E i \in 2 .. Len(qQueue) : Makes(qQueue[i]))
             => \E i \in 1 .. Len(qQueue') : Makes(qQueue'[i])
    BY <2>1, <1>1, QShrinks
  <2>3. QRight => QRight'
    <3> SUFFICES ASSUME QRight PROVE QRight'
      OBVIOUS
    <3>1. \E i \in 2 .. Len(qQueue) : Makes(qQueue[i])
      <4>1. 1 \in 1 .. Len(qQueue)
        BY <1>2
      <4>2. PICK j \in 1 + 1 .. Len(qQueue) : Makes(qQueue[j])
        BY <4>1, <1>4 DEF QRight
      <4> QED BY <4>2
    <3> QED BY <3>1, <2>2, <1>0 DEF QRight, Makes
  <2>4. QTyped' /\ QOrder'
    <3>1. QTyped'
      BY <2>2, <1>1, <1>5, <1>0 DEF QInv, QTyped
    <3>2. qGuest.cfg \in Nat
      BY <1>1 DEF GuestStates
    <3>3. qHeld' = FALSE
      BY <1>2, <1>4 DEF QStop, QDone
    <3>4. QOrder'
      BY <3>2, <3>3, <1>0, <1>1 DEF QInv, QOrder
    <3> QED BY <3>1, <3>4
  <2>5. QUnderWay'
    BY <2>3, <1>1 DEF QInv, QUnderWay, QEnds, Settled, Makes
  <2>6. qQuiet = 2 /\ Disabled => \A i \in 1 .. Len(qQueue') : qQueue'[i] = "stop"
    <3> SUFFICES ASSUME qQuiet = 2, Disabled, NEW i \in 1 .. Len(qQueue') PROVE qQueue'[i] = "stop"
      OBVIOUS
    <3>1. i + 1 \in 1 .. Len(qQueue) /\ qQueue'[i] = qQueue[i + 1]
      BY <2>2, <1>2
    <3> QED BY <3>1 DEF QInv, QRested
  <2>7. QRested'
    BY <2>6, <1>1 DEF QInv, QRested, Enabled, Disabled, Settled
  <2> QED BY <2>4, <2>5, <2>7 DEF QInv
<1> QED BY <1>2, <1>3, <1>4

\* AddTarget reads the notes of now, or the start fails.
LEMMA QInspectInv == QInv /\ QInspect => QInv'
<1> SUFFICES ASSUME QInv, QInspect PROVE QInv'
  OBVIOUS
<1>1. /\ qQueue \in Seq(Actions) /\ qQueue # <<>> /\ qGuest \in GuestStates /\ qGuest.cfg \in Nat \ {0}
      /\ qAdd = 0 /\ qProxy <= qGuest.cfg /\ qHeld
      /\ UNCHANGED <<qGuest, qPoll, qListed, qAction, qSeen, qTracked, qProxy, qLost,
                     qOvertaken, qQuiet>>
  BY DEF QInv, QTyped, QOrder, QInspect, GuestStates, guest, polling
<1>2. Len(qQueue) \in Nat \ {0} /\ Head(qQueue) = qQueue[1] /\ qQueue[1] = "start"
  BY <1>1, Popped DEF QInspect
<1>3. ~(qQuiet = 2 /\ Disabled)
  BY <1>2 DEF QInv, QRested
<1>4. CASE qAdd' = qGuest.cfg /\ qFailed' = FALSE /\ UNCHANGED <<qQueue, qHeld>>
  <2>1. QTyped' /\ QOrder'
    <3>1. QTyped'
      BY <1>1, <1>4 DEF QInv, QTyped
    <3>2. QOrder'
      BY <1>1, <1>2, <1>4 DEF QInv, QOrder
    <3> QED BY <3>1, <3>2
  <2>2. QRight => QRight'
    BY <1>1, <1>2, <1>4 DEF QRight, Makes
  <2>3. QUnderWay'
    BY <2>2, <1>1 DEF QInv, QUnderWay, QEnds, Settled, Makes
  <2>4. QRested'
    BY <1>3, <1>1 DEF QInv, QRested, Enabled, Disabled, Settled
  <2> QED BY <2>1, <2>3, <2>4 DEF QInv
<1>5. CASE qQueue' = Tail(qQueue) /\ qHeld' = FALSE /\ qFailed' = TRUE /\ UNCHANGED qAdd
  <2>1. /\ qQueue' \in Seq(Actions)
        /\ QRight => \A i \in 1 .. Len(qQueue') :
             qQueue'[i] = "stop" => \E j \in i + 1 .. Len(qQueue') : Makes(qQueue'[j])
    BY <1>1, <1>5, QShrinks
  <2>2. QTyped' /\ QOrder'
    BY <2>1, <1>1, <1>5 DEF QInv, QTyped, QOrder
  <2>3. QRight => QRight'
    BY <2>1, <1>5 DEF QRight, Makes
  <2>4. QUnderWay'
    BY <2>3, <1>1 DEF QInv, QUnderWay, QEnds, Settled, Makes
  <2>5. QRested'
    BY <1>3, <1>1 DEF QInv, QRested, Enabled, Disabled, Settled
  <2> QED BY <2>2, <2>4, <2>5 DEF QInv
<1> QED BY <1>4, <1>5 DEF QInspect, QDone

\* The proxy is made with the notes AddTarget has read.
LEMMA QAddedInv == QInv /\ QAdded => QInv'
<1> SUFFICES ASSUME QInv, QAdded PROVE QInv'
  OBVIOUS
<1>1. /\ qQueue \in Seq(Actions) /\ qQueue # <<>> /\ qAdd # 0 /\ qAdd \in Nat /\ qAdd <= qGuest.cfg
      /\ qProxy <= qAdd /\ qProxy \in Nat /\ qGuest \in GuestStates /\ qGuest.cfg \in Nat \ {0}
      /\ qTracked' = TRUE /\ qAdd' = 0 /\ qQueue' = Tail(qQueue) /\ qHeld' = FALSE
      /\ UNCHANGED <<qGuest, qPoll, qListed, qAction, qSeen, qOvertaken, qFailed, qQuiet>>
  BY DEF QInv, QTyped, QOrder, QAdded, QDone, GuestStates, guest, polling
<1>0. \/ qProxy' = qAdd /\ qLost' = FALSE
      \/ qProxy' \in {0, qProxy} /\ qLost' = TRUE
  BY DEF QAdded
<1>2. /\ qQueue' \in Seq(Actions) /\ Len(qQueue) \in Nat \ {0}
      /\ QRight => \A i \in 1 .. Len(qQueue') :
           qQueue'[i] = "stop" => \E j \in i + 1 .. Len(qQueue') : Makes(qQueue'[j])
      /\ (\E i \in 2 .. Len(qQueue) : Makes(qQueue[i]))
           => \E i \in 1 .. Len(qQueue') : Makes(qQueue'[i])
  BY <1>1, QShrinks
<1>3. ~(qQuiet = 2 /\ Disabled)
  BY <1>1 DEF QInv, QRested
<1>4. QTyped' /\ QOrder'
  <2>1. qProxy' \in Nat /\ qProxy' <= qGuest.cfg /\ qLost' \in BOOLEAN
    <3>1. CASE qProxy' = qAdd /\ qLost' = FALSE
      BY <3>1, <1>1
    <3>2. CASE qProxy' \in {0, qProxy} /\ qLost' = TRUE
      <4>1. qProxy' \in Nat /\ qProxy' <= qGuest.cfg
        BY <3>2, <1>1
      <4> QED BY <4>1, <3>2
    <3> QED BY <3>1, <3>2, <1>0
  <2>2. QTyped'
    BY <1>1, <1>2, <2>1 DEF QInv, QTyped
  <2>3. QOrder'
    BY <1>1, <2>1 DEF QInv, QOrder
  <2> QED BY <2>2, <2>3
<1>5. QRight => QRight'
  <2> SUFFICES ASSUME QRight PROVE QRight'
    OBVIOUS
  <2>0. CASE qLost' = TRUE
    BY <2>0, <1>1, <1>2 DEF QRight
  <2>1. CASE qProxy' = qAdd /\ (qFailed \/ qAdd = qGuest.cfg)
    BY <2>1, <1>1, <1>2 DEF QRight, Makes
  <2>2. ASSUME NEW i \in 1 .. Len(qQueue), Makes(qQueue[i]), i # 1 PROVE QRight'
    <3>1. i \in 2 .. Len(qQueue)
      BY <2>2, <1>2
    <3> QED BY <3>1, <2>2, <1>1, <1>2 DEF QRight, Makes
  <2>3. qProxy = qGuest.cfg => qAdd = qGuest.cfg
    BY <1>1
  <2> QED BY <2>0, <2>1, <2>2, <2>3, <1>0, <1>1 DEF QRight
<1>6. QUnderWay'
  BY <1>5, <1>1 DEF QInv, QUnderWay, QEnds, Settled, Makes
<1>7. QRested'
  BY <1>3, <1>1 DEF QInv, QRested, Enabled, Disabled, Settled
<1> QED BY <1>4, <1>6, <1>7 DEF QInv

\* A handler gets the lock: that of the first action, or it overtakes another one.
LEMMA QTakeInv == QInv /\ QTake => QInv'
<1> SUFFICES ASSUME QInv, QTake PROVE QInv'
  OBVIOUS
<1>1. /\ qQueue \in Seq(Actions) /\ qAdd = 0 /\ qHeld' = TRUE
      /\ UNCHANGED <<qGuest, qQuiet, qPoll, qListed, qAction, qSeen, qAdd, qTracked, qProxy,
                     qLost, qFailed>>
  BY DEF QTake, QInv, QTyped, QOrder, guest, polling
<1>2. PICK i \in 1 .. Len(qQueue) :
        qQueue' = ToFront(qQueue, i) /\ qOvertaken' = (qOvertaken \/ i # 1)
  BY DEF QTake
<1>3. /\ qQueue' \in Seq(Actions) /\ qQueue' # <<>> /\ Len(qQueue') = Len(qQueue)
      /\ i = 1 => qQueue' = qQueue
      /\ \A k \in 1 .. Len(qQueue) : \E j \in 1 .. Len(qQueue) : qQueue'[k] = qQueue[j]
  BY <1>1, <1>2, Moved
<1>4. QTyped' /\ QOrder'
  BY <1>1, <1>2, <1>3 DEF QInv, QTyped, QOrder
<1>5. QEnds => QEnds'
  <2>1. CASE i = 1
    BY <2>1, <1>1, <1>2, <1>3 DEF QEnds, QRight, Makes
  <2>2. CASE i # 1
    BY <2>2, <1>2 DEF QEnds
  <2> QED BY <2>1, <2>2
<1>6. QUnderWay'
  BY <1>5, <1>1 DEF QInv, QUnderWay, Settled, Makes
<1>7. QRested'
  <2>1. qQuiet = 2 /\ Disabled => \A k \in 1 .. Len(qQueue') : qQueue'[k] = "stop"
    BY <1>3 DEF QInv, QRested
  <2> QED BY <2>1, <1>1, <1>3 DEF QInv, QRested, Enabled, Disabled, Settled
<1> QED BY <1>4, <1>6, <1>7 DEF QInv

\* Start fails: there is no proxy, or AddTarget has read the notes of the next one.
LEMMA QStartFailsInv == QInv /\ QStartFails => QInv'
<1> SUFFICES ASSUME QInv, QStartFails PROVE QInv'
  OBVIOUS
<1>1. /\ qProxy' = 0 /\ qLost' = TRUE
      /\ UNCHANGED <<qGuest, qQuiet, qPoll, qListed, qAction, qSeen, qQueue, qHeld, qAdd,
                     qTracked, qOvertaken, qFailed>>
  BY DEF QStartFails, guest, polling
<1>2. /\ qProxy \in Nat /\ qAdd \in Nat /\ qGuest.cfg \in Nat \ {0} /\ qQueue \in Seq(Actions)
      /\ qAdd # 0 => /\ qQueue # <<>> /\ qQueue[1] = "start"
                     /\ qProxy <= qAdd /\ qAdd <= qGuest.cfg
  BY DEF QInv, QTyped, QOrder, GuestStates
<1>3. QTyped' /\ QOrder'
  BY <1>1, <1>2 DEF QInv, QTyped, QOrder
<1>4. QRight => QRight'
  <2> SUFFICES ASSUME QRight PROVE QRight'
    OBVIOUS
  <2>1. CASE qAdd = 0
    BY <2>1, <1>1 DEF QRight
  <2>2. CASE qAdd # 0 /\ qProxy = qGuest.cfg
    <3>1. qAdd = qGuest.cfg /\ Makes(qQueue[1])
      BY <2>2, <1>2 DEF Makes
    <3>2. 1 \in 1 .. Len(qQueue)
      BY <2>2, <1>2, Popped
    <3> QED BY <3>1, <3>2, <1>1 DEF QRight, Makes
  <2>3. CASE qAdd # 0 /\ qProxy # qGuest.cfg
    BY <2>3, <1>1 DEF QRight, Makes
  <2> QED BY <2>1, <2>2, <2>3
<1>5. QUnderWay'
  BY <1>4, <1>1 DEF QInv, QUnderWay, QEnds, Settled, Makes
<1>6. QRested'
  BY <1>1 DEF QInv, QRested, Enabled, Disabled, Settled
<1> QED BY <1>3, <1>5, <1>6 DEF QInv

\* Every step keeps the invariant.
LEMMA QNextInv == QInv /\ [QNext]_qvars => QInv'
<1> SUFFICES ASSUME QInv, [QNext]_qvars PROVE QInv'
  OBVIOUS
<1>1. CASE UNCHANGED qvars
  <2> USE <1>1 DEF qvars, guest, polling, handlers
  <2>1. QTyped' /\ QOrder'
    BY DEF QInv, QTyped, QOrder
  <2>2. QUnderWay' /\ QRested'
    BY DEF QInv, QUnderWay, QRested, QEnds, QRight, Settled, Makes, Enabled, Disabled
  <2> QED BY <2>1, <2>2 DEF QInv
<1> QED BY <1>1, QChangeInv, QListInv, QCompareInv, QSendInv, QStoreInv, QTakeInv,
           QStopInv, QInspectInv, QAddedInv, QStartFailsInv DEF QNext

\* However the polls overlap with the handlers of earlier ones: two polls after
\* the guest came to rest, one that is stopped or disabled has no proxy, in whatever
\* order the handlers got the lock and whatever failed; one that runs and is enabled
\* has a proxy with its notes of now, if no handler overtook another and the proxy
\* could be made and started (pollOnce, storeState, AddTarget).
THEOREM PollSafety == QSpec => []PollSafe
<1>1. QInv => PollSafe
  <2> SUFFICES ASSUME QInv, QAtRest PROVE PollSafe
    BY DEF PollSafe
  <2>1. qPoll = "idle" /\ qQueue = <<>> /\ qQuiet = 2
    BY DEF QAtRest
  <2>2. CASE Enabled
    <3>1. QEnds
      BY <2>1, <2>2 DEF QInv, QRested, QUnderWay
    <3>2. qOvertaken \/ qFailed \/ qLost \/ qProxy = qGuest.cfg
      BY <3>1, <2>1 DEF QEnds, QRight
    <3> QED BY <3>2, <2>2 DEF PollSafe, Enabled
  <2>3. CASE Disabled
    <3>1. ~qTracked /\ qProxy = 0
      BY <2>1, <2>3 DEF QInv, QRested, QOrder
    <3> QED BY <3>1, <2>3 DEF PollSafe, Disabled
  <2>4. Enabled \/ Disabled \/ qGuest.st = "absent"
    BY DEF QInv, QTyped, GuestStates, Enabled, Disabled
  <2> QED BY <2>2, <2>3, <2>4 DEF PollSafe
<1> QED BY <1>1, QInitInv, QNextInv, PTL DEF QSpec

\* The two together: the proxies follow the targets, those that are watched and
\* those that are polled.
THEOREM TargetsFollowedSafety == TGSpec /\ QSpec => []TargetsFollowed
<1>1. WatchSafe /\ PollSafe => TargetsFollowed
  BY DEF TargetsFollowed
<1> QED BY <1>1, WatchSafety, PollSafety, PTL

-----------------------------------------------------------------------------
(* The provider that watches a file: the proof. *)

\* An action is put at the end of the queue.
LEMMA PushedActions ==
  ASSUME NEW q \in Seq(Actions), NEW a \in Actions, NEW add, add # 0 => q # <<>>
  PROVE  /\ Append(q, a) \in Seq(Actions) /\ Append(q, a) # <<>>
         /\ q # <<>> => Append(q, a)[1] = q[1]
         /\ Stopped(q, add) \/ a \in {"stop", "restart"} => Stopped(Append(q, a), add)
         /\ Makes(a) => /\ Overtaken(Append(q, a)) /\ MadeFrom(Append(q, a), 1)
                        /\ add # 0 => MadeFrom(Append(q, a), 2)
<1> DEFINE r == Append(q, a)
<1>1. /\ r \in Seq(Actions) /\ Len(q) \in Nat /\ Len(r) = Len(q) + 1
      /\ \A i \in 1 .. Len(q) : r[i] = q[i]
      /\ r[Len(q) + 1] = a
  BY Pushed
<1>2. r # <<>> /\ (q # <<>> => Len(q) # 0)
  BY <1>1, NothingLeft
<1> HIDE DEF r
<1>3. Stopped(q, add) => Stopped(r, add)
  BY <1>1 DEF Stopped
<1>4. a \in {"stop", "restart"} => Stopped(r, add)
  <2>1. Len(q) + 1 \in 1 .. Len(r) /\ (add # 0 => Len(q) + 1 > 1)
    BY <1>1, <1>2
  <2> QED BY <2>1, <1>1 DEF Stopped
<1>5. ASSUME Makes(a)
      PROVE  Overtaken(r) /\ MadeFrom(r, 1) /\ (add # 0 => MadeFrom(r, 2))
  <2>1. Makes(r[Len(r)]) /\ Len(r) \in 1 .. Len(r) /\ (add # 0 => Len(r) \in 2 .. Len(r))
    BY <1>1, <1>2, <1>5
  <2>2. ASSUME NEW i \in 1 .. Len(r), r[i] = "stop"
        PROVE  \E j \in i + 1 .. Len(r) : Makes(r[j])
    <3>1. i # Len(r)
      BY <2>1, <2>2 DEF Makes
    <3>2. Len(r) \in i + 1 .. Len(r)
      BY <3>1, <1>1
    <3> QED BY <3>2, <2>1
  <2> QED BY <2>1, <2>2 DEF Overtaken, MadeFrom
<1>6. q # <<>> => r[1] = q[1]
  BY <1>1, <1>2
<1> QED BY <1>1, <1>2, <1>3, <1>4, <1>5, <1>6 DEF r

\* The first action is handled.
LEMMA PoppedActions ==
  ASSUME NEW q \in Seq(Actions), q # <<>>, NEW add
  PROVE  /\ Tail(q) \in Seq(Actions) /\ Head(q) = q[1] /\ q[1] \in Actions
         /\ Overtaken(q) => Overtaken(Tail(q))
         /\ MadeFrom(q, 2) => MadeFrom(Tail(q), 1)
         /\ Overtaken(q) /\ q[1] = "stop" => MadeFrom(Tail(q), 1)
         /\ Stopped(q, add) /\ (add # 0 \/ q[1] = "start") => Stopped(Tail(q), 0)
<1> DEFINE r == Tail(q)
<1>1. /\ r \in Seq(Actions) /\ Len(q) \in Nat \ {0} /\ Len(r) = Len(q) - 1
      /\ \A i \in 1 .. Len(r) : r[i] = q[i + 1]
      /\ Head(q) = q[1] /\ q[1] \in Actions
  BY Popped
<1> HIDE DEF r
<1>2. ASSUME NEW j \in 2 .. Len(q) PROVE j - 1 \in 1 .. Len(r) /\ r[j - 1] = q[j]
  BY <1>1
<1>3. ASSUME Overtaken(q), NEW i \in 1 .. Len(r), r[i] = "stop"
      PROVE  \E j \in i + 1 .. Len(r) : Makes(r[j])
  <2>1. i + 1 \in 1 .. Len(q) /\ q[i + 1] = "stop"
    BY <1>1, <1>3
  <2>2. PICK j \in i + 1 + 1 .. Len(q) : Makes(q[j])
    BY <2>1, <1>3 DEF Overtaken
  <2>3. j - 1 \in i + 1 .. Len(r) /\ r[j - 1] = q[j]
    BY <1>1, <2>2
  <2> QED BY <2>2, <2>3
<1>4. MadeFrom(q, 2) => MadeFrom(r, 1)
  BY <1>2 DEF MadeFrom
<1>5. Overtaken(q) /\ q[1] = "stop" => MadeFrom(q, 2)
  <2>1. 1 \in 1 .. Len(q)
    BY <1>1
  <2> QED BY <2>1 DEF Overtaken, MadeFrom
<1>6. ASSUME Stopped(q, add), add # 0 \/ q[1] = "start" PROVE Stopped(r, 0)
  <2>1. PICK i \in 1 .. Len(q) : q[i] \in {"stop", "restart"} /\ (add # 0 => i > 1)
    BY <1>6 DEF Stopped
  <2>2. i \in 2 .. Len(q)
    BY <2>1, <1>6, <1>1
  <2> QED BY <2>1, <2>2, <1>2 DEF Stopped
<1> QED BY <1>1, <1>3, <1>4, <1>5, <1>6 DEF Overtaken, r

\* A restart becomes a start.
LEMMA RestartedActions ==
  ASSUME NEW q \in Seq(Actions), q # <<>>
  PROVE  /\ <<"start">> \o Tail(q) \in Seq(Actions) /\ <<"start">> \o Tail(q) # <<>>
         /\ Overtaken(q) => Overtaken(<<"start">> \o Tail(q))
         /\ MadeFrom(<<"start">> \o Tail(q), 1)
<1> DEFINE r == <<"start">> \o Tail(q)
<1>1. /\ r \in Seq(Actions) /\ Len(r) = Len(q) /\ r[1] = "start"
      /\ \A i \in 2 .. Len(q) : r[i] = q[i]
      /\ r # <<>> /\ Len(q) \in Nat \ {0}
  BY Replaced, Popped DEF Actions
<1> HIDE DEF r
<1>2. ASSUME Overtaken(q), NEW i \in 1 .. Len(r), r[i] = "stop"
      PROVE  \E j \in i + 1 .. Len(r) : Makes(r[j])
  <2>1. i \in 2 .. Len(q) /\ i \in 1 .. Len(q)
    BY <1>1, <1>2
  <2>2. PICK j \in i + 1 .. Len(q) : Makes(q[j])
    BY <2>1, <1>1, <1>2 DEF Overtaken
  <2>3. j \in 2 .. Len(q) /\ j \in i + 1 .. Len(r)
    BY <2>1, <2>2, <1>1
  <2> QED BY <2>2, <2>3, <1>1
<1>3. MadeFrom(r, 1)
  <2>1. 1 \in 1 .. Len(r) /\ Makes(r[1])
    BY <1>1 DEF Makes
  <2> QED BY <2>1 DEF MadeFrom
<1> QED BY <1>1, <1>2, <1>3 DEF Overtaken, r

\* What the invariant says of one name, and what it depends on.
LEMMA FUntouched ==
  ASSUME NEW n \in FNames, FGood(n),
         fQueue'[n] = fQueue[n], fHeld'[n] = fHeld[n], fAdd'[n] = fAdd[n],
         fProxy'[n] = fProxy[n], fLost'[n] = fLost[n], fCrossed'[n] = fCrossed[n],
         fTorn'[n] = fTorn[n], fConfig'[n] = fConfig[n], n \in fScan' <=> n \in fScan,
         \A a \in Actions : Unsent(n, a)' <=> Unsent(n, a)
  PROVE  FGood(n)'
<1>1. /\ Unsent(n, "stop")' <=> Unsent(n, "stop")
      /\ Coming(n)' <=> Coming(n)
  BY DEF Coming, Actions
<1>2. FEnds(n)' <=> FEnds(n)
  BY DEF FEnds
<1> QED BY <1>1, <1>2 DEF FGood, FOrder, FRight, FListed, FUnlisted

\* The invariant holds at first: the scan will start what is listed.
LEMMA FInitInv == FInit => FInv
<1> SUFFICES ASSUME FInit PROVE FInv
  OBVIOUS
<1> USE DEF FInit, NoneListed, Never
<1>1. FTyped
  <2>1. <<>> \in Seq(Actions)
    OBVIOUS
  <2>2. fSends \in [1 .. FReloads -> SUBSET FKinds] /\ fScan \in SUBSET FNames
    OBVIOUS
  <2>3. fFile \in [FNames -> Nat \cup {Bad}] /\ fConfig \in [FNames -> Nat]
    OBVIOUS
  <2> QED BY <2>1, <2>2, <2>3 DEF FTyped
<1>2. ASSUME NEW n \in FNames PROVE FGood(n)
  <2>1. fConfig[n] # 0 => n \in fScan
    OBVIOUS
  <2>2. ~Unsent(n, "stop")
    BY DEF Unsent
  <2>3. fAdd[n] = 0 /\ fProxy[n] = 0 /\ ~fHeld[n]
    OBVIOUS
  <2> QED BY <2>1, <2>2, <2>3 DEF FGood, FOrder, FRight, FListed, FUnlisted, Coming
<1> QED BY <1>1, <1>2 DEF FInv, FSynced

\* The file is written: the map is not that of the file while the timer runs.
LEMMA FEditInv == FInv /\ FEdit => FInv'
<1> SUFFICES ASSUME FInv, FEdit PROVE FInv'
  OBVIOUS
<1>1. /\ UNCHANGED <<fConfig, fLoaded, fTorn, fSends, fScan, fQueue, fHeld, fAdd, fProxy,
                     fLost, fCrossed>>
      /\ fArmed' = TRUE /\ fChanges' = fChanges + 1
  BY DEF FEdit, map, queues, proxies
<1>2. fFile' \in [FNames -> Nat \cup {Bad}]
  <2>1. PICK n \in FNames, e \in {Bad, 0, fChanges + 2} : fFile' = [fFile EXCEPT ![n] = e]
    BY DEF FEdit
  <2>2. e \in Nat \cup {Bad} /\ fFile \in [FNames -> Nat \cup {Bad}]
    BY DEF FInv, FTyped
  <2> QED BY <2>1, <2>2
<1>3. FTyped'
  BY <1>1, <1>2 DEF FInv, FTyped
<1>4. ASSUME NEW n \in FNames PROVE FGood(n)'
  BY <1>1, FUntouched DEF FInv, Unsent
<1> QED BY <1>1, <1>3, <1>4 DEF FInv, FSynced

\* What the difference of two maps holds for a name.
LEMMA DiffOf ==
  ASSUME NEW old \in [FNames -> Nat], NEW new \in [FNames -> Nat], NEW n \in FNames
  PROVE  /\ <<n, "stop">> \in Diff(old, new) <=> old[n] # 0 /\ new[n] = 0
         /\ <<n, "start">> \in Diff(old, new) <=> old[n] = 0 /\ new[n] # 0
         /\ <<n, "restart">> \in Diff(old, new) <=> old[n] # 0 /\ new[n] \notin {0, old[n]}
         /\ Diff(old, new) \in SUBSET FKinds
BY DEF Diff, FKinds, Actions

\* The map becomes that of the file, and the difference is under way; a file that
\* cannot be loaded leaves the entries of the map.
LEMMA FReloadInv == FInv /\ (\E r \in 1 .. FReloads : FReload(r)) => FInv'
<1> SUFFICES ASSUME FInv, NEW r \in 1 .. FReloads, FReload(r) PROVE FInv'
  OBVIOUS
<1>1. /\ fConfig' = Reloaded /\ fLoaded' = WellFormed
      /\ fSends' = [fSends EXCEPT ![r] = IF WellFormed THEN Diff(fConfig, fFile) ELSE {}]
      /\ fSends[r] = {}
      /\ UNCHANGED <<fFile, fChanges, fScan, fQueue, fHeld, fAdd, fProxy, fLost>>
  BY DEF FReload, queues, proxies
<1>2. /\ fFile \in [FNames -> Nat \cup {Bad}] /\ fConfig \in [FNames -> Nat]
      /\ fSends \in [1 .. FReloads -> SUBSET FKinds]
      /\ fCrossed \in [FNames -> BOOLEAN] /\ fTorn \in [FNames -> BOOLEAN]
  BY DEF FInv, FTyped
<1>3. /\ fCrossed' = [n \in FNames |-> IF n \in Differing THEN fFile[n] # 0 /\ Unsent(n, "stop")
                                       ELSE fCrossed[n]]
      /\ fTorn' = [n \in FNames |-> IF WellFormed THEN fTorn[n] /\ n \notin Differing
                                    ELSE fTorn[n] \/ (fConfig[n] = 0 /\ Reloaded[n] # 0)]
  BY DEF FReload
<1>4. fCrossed' \in [FNames -> BOOLEAN] /\ fTorn' \in [FNames -> BOOLEAN]
  <2>1. \A n \in FNames : (fFile[n] # 0 /\ Unsent(n, "stop")) \in BOOLEAN /\ fCrossed[n] \in BOOLEAN
    BY <1>2 DEF Unsent
  <2>2. \A n \in FNames : /\ (fTorn[n] /\ n \notin Differing) \in BOOLEAN
                          /\ (fTorn[n] \/ (fConfig[n] = 0 /\ Reloaded[n] # 0)) \in BOOLEAN
    OBVIOUS
  <2> QED BY <2>1, <2>2, <1>3
<1>5. CASE WellFormed
  <2>1. fFile \in [FNames -> Nat] /\ fConfig' = fFile
    BY <1>1, <1>2, <1>5 DEF WellFormed, Reloaded
  <2>2. fSends' = [fSends EXCEPT ![r] = Diff(fConfig, fFile)]
    BY <1>1, <1>5
  <2>3. FTyped'
    <3>1. fSends' \in [1 .. FReloads -> SUBSET FKinds]
      <4>1. Diff(fConfig, fFile) \in SUBSET FKinds
        BY DEF Diff, FKinds, Actions
      <4> QED BY <4>1, <2>2, <1>2
    <3> QED BY <3>1, <2>1, <1>1, <1>4 DEF FInv, FTyped
  <2>4. ASSUME NEW n \in FNames, NEW a \in Actions
        PROVE  Unsent(n, a)' <=> Unsent(n, a) \/ <<n, a>> \in Diff(fConfig, fFile)
    BY <2>2, <1>1, <1>2 DEF Unsent
  <2>5. ASSUME NEW n \in FNames PROVE FGood(n)'
    <3>1. FOrder(n)'
      BY <1>1 DEF FInv, FGood, FOrder
    <3>2. CASE fFile[n] = fConfig[n]
      <4>1. n \notin Differing
        BY <3>2 DEF Differing
      <4>2. fCrossed'[n] = fCrossed[n] /\ fTorn'[n] = fTorn[n]
        BY <4>1, <1>2, <1>3, <1>5
      <4>3. ASSUME NEW a \in Actions PROVE Unsent(n, a)' <=> Unsent(n, a)
        <5>1. <<n, "start">> \notin Diff(fConfig, fFile)
              /\ <<n, "stop">> \notin Diff(fConfig, fFile)
              /\ <<n, "restart">> \notin Diff(fConfig, fFile)
          BY <3>2, <2>1, <1>2, DiffOf
        <5>2. <<n, a>> \notin Diff(fConfig, fFile)
          BY <5>1 DEF Actions
        <5> QED BY <5>2, <2>4
      <4> QED BY <4>2, <4>3, <3>2, <2>1, <1>1, FUntouched DEF FInv
    <3>3. CASE fFile[n] = 0 /\ fConfig[n] # 0
      <4>1. Unsent(n, "stop")'
        BY <3>3, <2>1, <2>4, <1>2, DiffOf DEF Actions
      <4> QED BY <4>1, <3>1, <3>3, <2>1 DEF FGood, FRight, FUnlisted
    <3>4. CASE fFile[n] # 0 /\ fFile[n] # fConfig[n]
      <4>1. n \in Differing
        BY <3>4, <1>5 DEF Differing
      <4>2. ~fCrossed'[n] => ~Unsent(n, "stop")
        BY <4>1, <1>3, <3>4
      <4>3. ~fCrossed'[n] => ~Unsent(n, "stop")'
        BY <4>2, <3>4, <2>1, <2>4, <1>2, DiffOf DEF Actions
      <4>4. Coming(n)'
        <5>1. <<n, "start">> \in Diff(fConfig, fFile) \/ <<n, "restart">> \in Diff(fConfig, fFile)
          BY <3>4, <2>1, <1>2, DiffOf
        <5> QED BY <5>1, <2>4 DEF Coming, Actions
      <4> QED BY <4>3, <4>4, <3>1, <3>4, <2>1 DEF FGood, FRight, FListed
    <3> QED BY <3>2, <3>3, <3>4
  <2> QED BY <2>1, <2>3, <2>5, <1>1 DEF FInv, FSynced
<1>6. CASE ~WellFormed
  <2>1. fSends' = fSends
    BY <1>1, <1>2, <1>6
  <2>2. /\ fConfig' \in [FNames -> Nat]
        /\ \A n \in FNames : fConfig[n] # 0 => fConfig'[n] = fConfig[n]
    BY <1>1, <1>2, <1>6 DEF Reloaded, Bad
  <2>3. FTyped'
    BY <2>1, <2>2, <1>1, <1>4 DEF FInv, FTyped
  <2>4. ASSUME NEW n \in FNames PROVE FGood(n)'
    <3>1. FOrder(n)'
      BY <1>1 DEF FInv, FGood, FOrder
    <3>2. CASE fConfig'[n] # fConfig[n]
      <4>1. fTorn'[n]
        BY <3>2, <2>2, <1>1, <1>2, <1>3, <1>6
      <4> QED BY <4>1, <3>1 DEF FGood
    <3>3. CASE fConfig'[n] = fConfig[n]
      <4>1. n \notin Differing /\ (fConfig[n] = 0 => Reloaded[n] = 0)
        BY <1>1, <1>6, <3>3 DEF Differing
      <4>2. fCrossed'[n] = fCrossed[n] /\ fTorn'[n] = fTorn[n]
        BY <4>1, <1>2, <1>3, <1>6
      <4> QED BY <4>2, <3>3, <2>1, <1>1, FUntouched DEF FInv, Unsent
    <3> QED BY <3>2, <3>3
  <2> QED BY <2>3, <2>4, <1>1, <1>6 DEF FInv, FSynced
<1> QED BY <1>5, <1>6

\* An event of the name is dispatched: the queue grows at its end.
LEMMA FDispatchInv ==
  ASSUME FInv, NEW n \in FNames, NEW a \in Actions, FDispatch(n, a),
         UNCHANGED <<file, map, proxies, fCrossed>>,
         fSends' \in [1 .. FReloads -> SUBSET FKinds], fScan' \in SUBSET FNames,
         \A m \in FNames \ {n} : m \in fScan' <=> m \in fScan,
         \A m \in FNames \ {n}, b \in Actions : Unsent(m, b)' <=> Unsent(m, b),
         Unsent(n, "stop")' => Unsent(n, "stop"),
         Unsent(n, "stop") => Unsent(n, "stop")' \/ a = "stop",
         a = "stop" => Unsent(n, "stop"),
         ~Makes(a) => (Coming(n)' <=> Coming(n))
  PROVE  FInv'
<1>1. /\ fQueue' = [fQueue EXCEPT ![n] = Append(@, a)]
      /\ UNCHANGED <<fFile, fArmed, fChanges, fConfig, fLoaded, fTorn, fHeld, fAdd, fProxy,
                     fLost, fCrossed>>
  BY DEF FDispatch, file, map, proxies
<1>2. fQueue \in [FNames -> Seq(Actions)] /\ fQueue[n] \in Seq(Actions) /\ FGood(n) /\ FTyped
  BY DEF FInv, FTyped
<1>3. fQueue'[n] = Append(fQueue[n], a) /\ (fAdd[n] # 0 => fQueue[n] # <<>>)
  BY <1>1, <1>2 DEF FGood, FOrder
<1>4. /\ fQueue'[n] \in Seq(Actions) /\ fQueue'[n] # <<>>
      /\ fQueue[n] # <<>> => fQueue'[n][1] = fQueue[n][1]
      /\ Stopped(fQueue[n], fAdd[n]) \/ a \in {"stop", "restart"} => Stopped(fQueue'[n], fAdd[n])
      /\ Makes(a) => /\ Overtaken(fQueue'[n]) /\ MadeFrom(fQueue'[n], 1)
                     /\ fAdd[n] # 0 => MadeFrom(fQueue'[n], 2)
  <2> DEFINE q == fQueue[n]
             d == fAdd[n]
             r == fQueue'[n]
  <2>1. q \in Seq(Actions) /\ (d # 0 => q # <<>>) /\ r = Append(q, a)
    BY <1>2, <1>3
  <2> HIDE DEF q, d, r
  <2>2. /\ r \in Seq(Actions) /\ r # <<>>
        /\ q # <<>> => r[1] = q[1]
        /\ Stopped(q, d) \/ a \in {"stop", "restart"} => Stopped(r, d)
        /\ Makes(a) => Overtaken(r) /\ MadeFrom(r, 1) /\ (d # 0 => MadeFrom(r, 2))
    BY <2>1, PushedActions
  <2> QED BY <2>2 DEF q, d, r
<1>5. FTyped'
  BY <1>1, <1>2, <1>4 DEF FTyped
<1>6. FGood(n)'
  <2>1. FOrder(n)'
    BY <1>1, <1>2, <1>3, <1>4 DEF FGood, FOrder
  <2>2. ASSUME ~fCrossed[n], ~fTorn[n], fConfig[n] = 0 PROVE FUnlisted(n)'
    <3>1. FUnlisted(n)
      BY <2>2, <1>2 DEF FGood, FRight
    <3> QED BY <3>1, <1>1, <1>4 DEF FUnlisted
  <2>3. ASSUME ~fCrossed[n], ~fTorn[n], fConfig[n] # 0 PROVE FListed(n)'
    <3>1. ~Unsent(n, "stop") /\ a # "stop"
      BY <2>3, <1>2 DEF FGood, FRight, FListed
    <3>2. Makes(a)
      BY <3>1 DEF Makes, Actions
    <3>3. FEnds(n)'
      BY <3>2, <1>1, <1>4 DEF FEnds
    <3> QED BY <3>1, <3>3 DEF FListed
  <2> QED BY <2>1, <2>2, <2>3, <1>1 DEF FGood, FRight
<1>7. ASSUME NEW m \in FNames, m # n PROVE FGood(m)'
  <2>1. fQueue'[m] = fQueue[m]
    BY <1>1, <1>2, <1>7
  <2> QED BY <2>1, <1>1, <1>7, FUntouched DEF FInv
<1> QED BY <1>1, <1>5, <1>6, <1>7 DEF FInv, FSynced

\* A reload sends one of its events.
LEMMA FSendInv == FInv /\ (\E r \in 1 .. FReloads : FSend(r)) => FInv'
<1> SUFFICES ASSUME FInv, NEW r \in 1 .. FReloads, FSend(r) PROVE FInv'
  OBVIOUS
<1>1. PICK e \in fSends[r] :
        fSends' = [fSends EXCEPT ![r] = @ \ {e}] /\ FDispatch(e[1], e[2])
  BY DEF FSend
<1>2. fSends \in [1 .. FReloads -> SUBSET FKinds] /\ fScan \in SUBSET FNames
  BY DEF FInv, FTyped
<1>3. PICK n \in FNames, a \in Actions : e = <<n, a>>
  BY <1>1, <1>2 DEF FKinds
<1>4. FDispatch(n, a) /\ <<n, a>> \in fSends[r]
  BY <1>1, <1>3
<1>5. fSends' = [fSends EXCEPT ![r] = @ \ {<<n, a>>}]
  BY <1>1, <1>3
<1>6. fSends' \in [1 .. FReloads -> SUBSET FKinds]
  BY <1>2, <1>5
<1>7. ASSUME NEW m \in FNames, NEW b \in Actions
      PROVE  /\ Unsent(m, b)' => Unsent(m, b)
             /\ m # n \/ b # a => (Unsent(m, b) => Unsent(m, b)')
  <2>1. \A s \in 1 .. FReloads :
          <<m, b>> \in fSends'[s] <=> <<m, b>> \in fSends[s] /\ ~(s = r /\ m = n /\ b = a)
    BY <1>2, <1>5
  <2> QED BY <2>1 DEF Unsent
<1>8. a = "stop" => Unsent(n, "stop")
  BY <1>4 DEF Unsent
<1>9. UNCHANGED <<file, map, proxies, fCrossed>> /\ fScan' = fScan
  BY DEF FSend
<1>10. /\ Unsent(n, "stop")' => Unsent(n, "stop")
       /\ Unsent(n, "stop") => Unsent(n, "stop")' \/ a = "stop"
       /\ ~Makes(a) => (Coming(n)' <=> Coming(n))
       /\ \A m \in FNames \ {n}, b \in Actions : Unsent(m, b)' <=> Unsent(m, b)
  BY <1>7, <1>9 DEF Coming, Makes, Actions
<1> QED BY <1>2, <1>4, <1>6, <1>8, <1>9, <1>10, FDispatchInv

\* WatchEvents sends the start of a name it has read.
LEMMA FScanInv == FInv /\ FScan => FInv'
<1> SUFFICES ASSUME FInv, FScan PROVE FInv'
  OBVIOUS
<1>1. PICK n \in fScan : fScan' = fScan \ {n} /\ FDispatch(n, "start")
  BY DEF FScan
<1>2. /\ fSends \in [1 .. FReloads -> SUBSET FKinds] /\ fScan \in SUBSET FNames /\ n \in FNames
      /\ UNCHANGED <<file, map, proxies, fCrossed>> /\ fSends' = fSends
  BY DEF FInv, FTyped, FScan
<1>3. \A m \in FNames, b \in Actions : Unsent(m, b)' <=> Unsent(m, b)
  BY <1>2 DEF Unsent
<1>4. "start" \in Actions /\ "stop" \in Actions /\ Makes("start")
  BY DEF Actions, Makes
<1> QED BY <1>1, <1>2, <1>3, <1>4, FDispatchInv

\* A handler gets the lock: that of the first action, or it overtakes another one.
LEMMA FTakeInv == FInv /\ (\E n \in FNames : FTake(n)) => FInv'
<1> SUFFICES ASSUME FInv, NEW n \in FNames, FTake(n) PROVE FInv'
  OBVIOUS
<1>1. /\ ~fHeld[n] /\ fHeld' = [fHeld EXCEPT ![n] = TRUE]
      /\ UNCHANGED <<fFile, fArmed, fChanges, fConfig, fLoaded, fTorn, fSends, fScan, fAdd,
                     fProxy, fLost>>
  BY DEF FTake, file, map, proxies
<1>2. PICK i \in 1 .. Len(fQueue[n]) :
        /\ fQueue' = [fQueue EXCEPT ![n] = ToFront(@, i)]
        /\ fCrossed' = [fCrossed EXCEPT ![n] = @ \/ i # 1]
  BY DEF FTake
<1>3. /\ fQueue \in [FNames -> Seq(Actions)] /\ fHeld \in [FNames -> BOOLEAN]
      /\ fCrossed \in [FNames -> BOOLEAN] /\ fQueue[n] \in Seq(Actions) /\ FTyped
  BY DEF FInv, FTyped
<1>4. /\ ToFront(fQueue[n], i) \in Seq(Actions) /\ ToFront(fQueue[n], i) # <<>>
      /\ i = 1 => ToFront(fQueue[n], i) = fQueue[n]
  BY <1>3, Moved
<1>5. fQueue'[n] = ToFront(fQueue[n], i) /\ fHeld'[n] /\ (i # 1 => fCrossed'[n])
  BY <1>1, <1>2, <1>3
<1>6. FTyped'
  <2>1. fQueue' \in [FNames -> Seq(Actions)] /\ fHeld' \in [FNames -> BOOLEAN]
    BY <1>1, <1>2, <1>3, <1>4
  <2>2. fCrossed' \in [FNames -> BOOLEAN]
    BY <1>2, <1>3
  <2> QED BY <2>1, <2>2, <1>1, <1>3 DEF FTyped
<1>7. FGood(n)'
  <2>1. FGood(n) /\ fAdd[n] = 0
    BY <1>1 DEF FInv, FGood, FOrder
  <2>2. FOrder(n)'
    BY <2>1, <1>1, <1>4, <1>5 DEF FOrder
  <2>3. CASE i = 1
    <3>1. fQueue'[n] = fQueue[n] /\ fCrossed'[n] = fCrossed[n]
      BY <2>3, <1>2, <1>3, <1>4, <1>5
    <3>2. FRight(n)' <=> FRight(n)
      BY <3>1, <1>1 DEF FRight, FUnlisted, FListed, FEnds, Coming, Unsent
    <3> QED BY <3>1, <3>2, <2>1, <2>2, <1>1 DEF FGood
  <2>4. CASE i # 1
    BY <2>2, <2>4, <1>5 DEF FGood
  <2> QED BY <2>3, <2>4
<1>8. ASSUME NEW m \in FNames, m # n PROVE FGood(m)'
  <2>1. fQueue'[m] = fQueue[m] /\ fHeld'[m] = fHeld[m] /\ fCrossed'[m] = fCrossed[m]
    BY <1>1, <1>2, <1>3, <1>8
  <2> QED BY <2>1, <1>1, FUntouched DEF FInv, Unsent
<1> QED BY <1>1, <1>6, <1>7, <1>8 DEF FInv, FSynced

\* The old proxy goes, and a restart becomes a start.
LEMMA FStopInv == FInv /\ (\E n \in FNames : FStop(n)) => FInv'
<1> SUFFICES ASSUME FInv, NEW n \in FNames, FStop(n) PROVE FInv'
  OBVIOUS
<1>1. /\ fHeld[n] /\ Head(fQueue[n]) # "start"
      /\ fProxy' = [fProxy EXCEPT ![n] = 0] /\ fLost' = [fLost EXCEPT ![n] = FALSE]
      /\ UNCHANGED <<fFile, fArmed, fChanges, fConfig, fLoaded, fTorn, fSends, fScan, fAdd,
                     fCrossed>>
  BY DEF FStop, file, map
<1>2. /\ fQueue \in [FNames -> Seq(Actions)] /\ fHeld \in [FNames -> BOOLEAN]
      /\ fProxy \in [FNames -> Nat] /\ fLost \in [FNames -> BOOLEAN]
      /\ fQueue[n] \in Seq(Actions) /\ fQueue[n] # <<>> /\ FGood(n) /\ FTyped
  BY <1>1 DEF FInv, FTyped, FGood, FOrder
<1>3. /\ Tail(fQueue[n]) \in Seq(Actions) /\ Head(fQueue[n]) = fQueue[n][1]
      /\ fQueue[n][1] \in Actions
      /\ Overtaken(fQueue[n]) => Overtaken(Tail(fQueue[n]))
      /\ Overtaken(fQueue[n]) /\ fQueue[n][1] = "stop" => MadeFrom(Tail(fQueue[n]), 1)
  BY <1>2, PoppedActions
<1>4. /\ <<"start">> \o Tail(fQueue[n]) \in Seq(Actions)
      /\ <<"start">> \o Tail(fQueue[n]) # <<>>
      /\ Overtaken(fQueue[n]) => Overtaken(<<"start">> \o Tail(fQueue[n]))
      /\ MadeFrom(<<"start">> \o Tail(fQueue[n]), 1)
  BY <1>2, RestartedActions
<1>5. fAdd[n] = 0 /\ fProxy'[n] = 0 /\ fAdd'[n] = 0
  BY <1>1, <1>2, <1>3 DEF FGood, FOrder
<1>6. \/ /\ fQueue[n][1] = "stop" /\ fQueue' = [fQueue EXCEPT ![n] = Tail(@)]
         /\ fHeld' = [fHeld EXCEPT ![n] = FALSE]
      \/ /\ fQueue[n][1] = "restart" /\ fHeld' = fHeld
         /\ fQueue' = [fQueue EXCEPT ![n] = <<"start">> \o Tail(@)]
  BY <1>3 DEF FStop, FDone
<1>7. /\ fQueue' \in [FNames -> Seq(Actions)] /\ fHeld' \in [FNames -> BOOLEAN]
      /\ fHeld'[n] => fQueue'[n] # <<>>
      /\ Overtaken(fQueue[n]) => Overtaken(fQueue'[n]) /\ MadeFrom(fQueue'[n], 1)
      /\ \A m \in FNames : m # n => fQueue'[m] = fQueue[m] /\ fHeld'[m] = fHeld[m]
  <2>1. CASE /\ fQueue[n][1] = "stop" /\ fQueue' = [fQueue EXCEPT ![n] = Tail(@)]
             /\ fHeld' = [fHeld EXCEPT ![n] = FALSE]
    BY <2>1, <1>2, <1>3
  <2>2. CASE /\ fQueue[n][1] = "restart" /\ fHeld' = fHeld
             /\ fQueue' = [fQueue EXCEPT ![n] = <<"start">> \o Tail(@)]
    BY <2>2, <1>2, <1>4
  <2> QED BY <2>1, <2>2, <1>6
<1>8. FTyped'
  BY <1>1, <1>2, <1>7 DEF FTyped
<1>9. FGood(n)'
  <2>1. FOrder(n)'
    BY <1>5, <1>7 DEF FOrder
  <2>2. FUnlisted(n)'
    BY <1>5 DEF FUnlisted
  <2>3. FListed(n) => FListed(n)'
    <3>1. (Coming(n)' <=> Coming(n)) /\ (Unsent(n, "stop")' <=> Unsent(n, "stop"))
      BY <1>1 DEF Coming, Unsent
    <3>2. FEnds(n) => FEnds(n)'
      BY <1>5, <1>7 DEF FEnds
    <3> QED BY <3>1, <3>2 DEF FListed
  <2> QED BY <2>1, <2>2, <2>3, <1>1, <1>2 DEF FGood, FRight
<1>10. ASSUME NEW m \in FNames, m # n PROVE FGood(m)'
  <2>1. /\ fQueue'[m] = fQueue[m] /\ fHeld'[m] = fHeld[m]
        /\ fProxy'[m] = fProxy[m] /\ fLost'[m] = fLost[m]
    BY <1>1, <1>2, <1>7, <1>10
  <2> QED BY <2>1, <1>1, FUntouched DEF FInv, Unsent
<1> QED BY <1>1, <1>8, <1>9, <1>10 DEF FInv, FSynced

\* AddTarget takes the entry of now, or finds that there is none.
LEMMA FReadInv == FInv /\ (\E n \in FNames : FRead(n)) => FInv'
<1> SUFFICES ASSUME FInv, NEW n \in FNames, FRead(n) PROVE FInv'
  OBVIOUS
<1>1. /\ fHeld[n] /\ Head(fQueue[n]) = "start" /\ fAdd[n] = 0
      /\ UNCHANGED <<fFile, fArmed, fChanges, fConfig, fLoaded, fTorn, fSends, fScan, fProxy,
                     fLost, fCrossed>>
  BY DEF FRead, file, map
<1>2. /\ fQueue \in [FNames -> Seq(Actions)] /\ fHeld \in [FNames -> BOOLEAN]
      /\ fAdd \in [FNames -> Nat] /\ fConfig \in [FNames -> Nat]
      /\ fQueue[n] \in Seq(Actions) /\ fQueue[n] # <<>> /\ FGood(n) /\ FTyped
  BY <1>1 DEF FInv, FTyped, FGood, FOrder
<1>3. /\ Tail(fQueue[n]) \in Seq(Actions) /\ fQueue[n][1] = "start"
      /\ Stopped(fQueue[n], fAdd[n]) => Stopped(Tail(fQueue[n]), 0)
  BY <1>1, <1>2, PoppedActions
<1>4. (Coming(n)' <=> Coming(n)) /\ (Unsent(n, "stop")' <=> Unsent(n, "stop"))
  BY <1>1 DEF Coming, Unsent
<1>5. CASE fConfig[n] = 0 /\ FDone(n) /\ UNCHANGED fAdd
  <2>1. /\ fQueue' = [fQueue EXCEPT ![n] = Tail(@)] /\ fHeld' = [fHeld EXCEPT ![n] = FALSE]
        /\ fAdd' = fAdd
    BY <1>5 DEF FDone
  <2>2. FTyped'
    BY <2>1, <1>1, <1>2, <1>3 DEF FTyped
  <2>3. FGood(n)'
    <3>1. FOrder(n)'
      BY <2>1, <1>1, <1>2 DEF FOrder
    <3>2. fQueue'[n] = Tail(fQueue[n]) /\ fAdd'[n] = 0
      BY <2>1, <1>1, <1>2
    <3>3. FUnlisted(n) => FUnlisted(n)'
      BY <3>2, <1>1, <1>3, <1>4 DEF FUnlisted
    <3> QED BY <3>1, <3>3, <1>1, <1>2, <1>5 DEF FGood, FRight
  <2>4. ASSUME NEW m \in FNames, m # n PROVE FGood(m)'
    <3>1. fQueue'[m] = fQueue[m] /\ fHeld'[m] = fHeld[m]
      BY <2>1, <2>4, <1>2
    <3> QED BY <3>1, <2>1, <1>1, FUntouched DEF FInv, Unsent
  <2> QED BY <2>2, <2>3, <2>4, <1>1 DEF FInv, FSynced
<1>6. CASE fConfig[n] # 0 /\ fAdd' = [fAdd EXCEPT ![n] = fConfig[n]] /\ UNCHANGED queues
  <2>1. fQueue' = fQueue /\ fHeld' = fHeld /\ fAdd'[n] = fConfig[n]
    BY <1>2, <1>6 DEF queues
  <2>2. FTyped'
    BY <2>1, <1>1, <1>2, <1>6 DEF FTyped
  <2>3. FGood(n)'
    <3>1. FOrder(n)'
      BY <2>1, <1>1, <1>2, <1>3 DEF FOrder
    <3>2. FEnds(n) => FEnds(n)'
      BY <2>1, <1>1 DEF FEnds
    <3> QED BY <3>1, <3>2, <1>1, <1>2, <1>4, <1>6 DEF FGood, FRight, FListed
  <2>4. ASSUME NEW m \in FNames, m # n PROVE FGood(m)'
    <3>1. fAdd'[m] = fAdd[m]
      BY <2>4, <1>2, <1>6
    <3> QED BY <3>1, <2>1, <1>1, FUntouched DEF FInv, Unsent
  <2> QED BY <2>2, <2>3, <2>4, <1>1 DEF FInv, FSynced
<1> QED BY <1>5, <1>6 DEF FRead

\* The proxy is made from the entry AddTarget has read, or that fails.
LEMMA FAddedInv == FInv /\ (\E n \in FNames : FAdded(n)) => FInv'
<1> SUFFICES ASSUME FInv, NEW n \in FNames, FAdded(n) PROVE FInv'
  OBVIOUS
<1>1. /\ fAdd[n] # 0 /\ fAdd' = [fAdd EXCEPT ![n] = 0]
      /\ fQueue' = [fQueue EXCEPT ![n] = Tail(@)] /\ fHeld' = [fHeld EXCEPT ![n] = FALSE]
      /\ UNCHANGED <<fFile, fArmed, fChanges, fConfig, fLoaded, fTorn, fSends, fScan, fCrossed>>
  BY DEF FAdded, FDone, file, map
<1>2. /\ fQueue \in [FNames -> Seq(Actions)] /\ fHeld \in [FNames -> BOOLEAN]
      /\ fAdd \in [FNames -> Nat] /\ fProxy \in [FNames -> Nat] /\ fLost \in [FNames -> BOOLEAN]
      /\ fQueue[n] \in Seq(Actions) /\ fQueue[n] # <<>> /\ FGood(n) /\ FTyped
  BY <1>1 DEF FInv, FTyped, FGood, FOrder
<1>3. /\ Tail(fQueue[n]) \in Seq(Actions)
      /\ Overtaken(fQueue[n]) => Overtaken(Tail(fQueue[n]))
      /\ MadeFrom(fQueue[n], 2) => MadeFrom(Tail(fQueue[n]), 1)
      /\ Stopped(fQueue[n], fAdd[n]) => Stopped(Tail(fQueue[n]), 0)
  BY <1>1, <1>2, PoppedActions
<1>4. fQueue'[n] = Tail(fQueue[n]) /\ fAdd'[n] = 0 /\ fHeld'[n] = FALSE
  BY <1>1, <1>2
<1>5. /\ fProxy' \in [FNames -> Nat] /\ fLost' \in [FNames -> BOOLEAN]
      /\ fLost'[n] \/ fProxy'[n] = fAdd[n]
      /\ \A m \in FNames : m # n => fProxy'[m] = fProxy[m] /\ fLost'[m] = fLost[m]
  <2>1. CASE /\ fProxy' = [fProxy EXCEPT ![n] = fAdd[n]]
             /\ fLost' = [fLost EXCEPT ![n] = FALSE]
    BY <2>1, <1>2
  <2>2. CASE /\ \E p \in {0, fProxy[n]} : fProxy' = [fProxy EXCEPT ![n] = p]
             /\ fLost' = [fLost EXCEPT ![n] = TRUE]
    BY <2>2, <1>2
  <2> QED BY <2>1, <2>2 DEF FAdded
<1>6. FTyped'
  BY <1>1, <1>2, <1>3, <1>5 DEF FTyped
<1>7. FGood(n)'
  <2>1. FOrder(n)'
    BY <1>4 DEF FOrder
  <2>2. (Coming(n)' <=> Coming(n)) /\ (Unsent(n, "stop")' <=> Unsent(n, "stop"))
    BY <1>1 DEF Coming, Unsent
  <2>3. FUnlisted(n) => FUnlisted(n)'
    BY <2>2, <1>1, <1>3, <1>4 DEF FUnlisted
  <2>4. FEnds(n) => FEnds(n)'
    BY <1>1, <1>3, <1>4, <1>5 DEF FEnds
  <2> QED BY <2>1, <2>2, <2>3, <2>4, <1>1, <1>2 DEF FGood, FRight, FListed
<1>8. ASSUME NEW m \in FNames, m # n PROVE FGood(m)'
  <2>1. fQueue'[m] = fQueue[m] /\ fHeld'[m] = fHeld[m] /\ fAdd'[m] = fAdd[m]
    BY <1>1, <1>2, <1>8
  <2> QED BY <2>1, <1>1, <1>5, <1>8, FUntouched DEF FInv, Unsent
<1> QED BY <1>1, <1>6, <1>7, <1>8 DEF FInv, FSynced

\* Start fails: the name has no proxy.
LEMMA FStartFailsInv == FInv /\ (\E n \in FNames : FStartFails(n)) => FInv'
<1> SUFFICES ASSUME FInv, NEW n \in FNames, FStartFails(n) PROVE FInv'
  OBVIOUS
<1>1. /\ fProxy' = [fProxy EXCEPT ![n] = 0] /\ fLost' = [fLost EXCEPT ![n] = TRUE]
      /\ UNCHANGED <<fFile, fArmed, fChanges, fConfig, fLoaded, fTorn, fSends, fScan, fQueue,
                     fHeld, fAdd, fCrossed>>
  BY DEF FStartFails, file, map, queues
<1>2. fProxy \in [FNames -> Nat] /\ fLost \in [FNames -> BOOLEAN] /\ FTyped /\ FGood(n)
  BY DEF FInv, FTyped
<1>3. FTyped'
  BY <1>1, <1>2 DEF FTyped
<1>4. FGood(n)'
  <2>1. FOrder(n)'
    BY <1>1, <1>2 DEF FGood, FOrder
  <2>2. (Coming(n)' <=> Coming(n)) /\ (Unsent(n, "stop")' <=> Unsent(n, "stop"))
    BY <1>1 DEF Coming, Unsent
  <2>3. FUnlisted(n) => FUnlisted(n)'
    BY <2>2, <1>1, <1>2 DEF FUnlisted
  <2>4. FEnds(n) => FEnds(n)'
    BY <1>1, <1>2 DEF FEnds
  <2> QED BY <2>1, <2>2, <2>3, <2>4, <1>1, <1>2 DEF FGood, FRight, FListed
<1>5. ASSUME NEW m \in FNames, m # n PROVE FGood(m)'
  <2>1. fProxy'[m] = fProxy[m] /\ fLost'[m] = fLost[m]
    BY <1>1, <1>2, <1>5
  <2> QED BY <2>1, <1>1, FUntouched DEF FInv, Unsent
<1> QED BY <1>1, <1>3, <1>4, <1>5 DEF FInv, FSynced

\* Every step keeps the invariant.
LEMMA FNextInv == FInv /\ [FNext]_fvars => FInv'
<1> SUFFICES ASSUME FInv, [FNext]_fvars PROVE FInv'
  OBVIOUS
<1>1. CASE UNCHANGED fvars
  <2> USE <1>1 DEF fvars, file, map, queues, proxies
  <2>1. FTyped' /\ FSynced'
    BY DEF FInv, FTyped, FSynced
  <2>2. \A n \in FNames : FGood(n)'
    BY FUntouched DEF FInv, Unsent
  <2> QED BY <2>1, <2>2 DEF FInv
<1> QED BY <1>1, FEditInv, FReloadInv, FSendInv, FScanInv, FTakeInv, FStopInv, FReadInv,
           FAddedInv, FStartFailsInv DEF FNext

\* Whatever is edited while events are on their way, and whatever file fails to
\* load in between: once the events for a name are handled, a name that is not in
\* the map has no proxy, and one that is has a proxy with its entry, if that could
\* be made and started, unless its last event was overtaken or its entry was left
\* behind by a load that failed; the map is that of the last file that could be
\* loaded (onFileChange, AddTarget).
THEOREM ListSafety == FSpec => []ListSafe
<1>1. FInv => ListSafe
  <2> SUFFICES ASSUME FInv PROVE ListSafe
    OBVIOUS
  <2>1. ASSUME NEW n \in FNames, FAtRest(n), ~fCrossed[n], ~fTorn[n]
        PROVE  IF fConfig[n] = 0 THEN fProxy[n] = 0 ELSE fLost[n] \/ fProxy[n] = fConfig[n]
    <3>1. FRight(n)
      BY <2>1 DEF FInv, FGood
    <3>2. /\ ~Coming(n) /\ ~Unsent(n, "stop") /\ fQueue[n] = <<>>
          /\ ~MadeFrom(fQueue[n], 1) /\ ~Stopped(fQueue[n], fAdd[n])
      BY <2>1 DEF FAtRest, Coming, MadeFrom, Stopped
    <3> QED BY <3>1, <3>2 DEF FRight, FUnlisted, FListed, FEnds
  <2> QED BY <2>1 DEF ListSafe, FInv, FSynced
<1> QED BY <1>1, FInitInv, FNextInv, PTL DEF FSpec
=============================================================================
