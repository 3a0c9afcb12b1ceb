-------------------------- MODULE SharedServerProofs --------------------------
(***************************************************************************)
(* The shared node serves what its proxies hold, keeps no route that       *)
(* nobody holds and counts the routes exactly, for any users, domains,     *)
(* ports, configurations, number of restarts and capacity of the command   *)
(* channel.                                                                *)
(*                                                                         *)
(* The loop goroutine and its users see each other only through commands   *)
(* and replies, so the registered routes are related to what a user holds  *)
(* together with what is on its way: an acquire that was granted and not   *)
(* yet read, a release that was sent and not yet handled (Reg).  That one  *)
(* user never has two commands in the channel, and that a command finds    *)
(* its user still waiting, is part of the induction (QueueOK), as is that  *)
(* a fetch of the certificate is in flight, in the channel or over.        *)
(***************************************************************************)
EXTENDS SharedServer, FiniteSetTheorems, SequenceTheorems, TLAPS

Wanted(u) == {q \in Ports : Proto(u, q) # None}

\* The ports that user u has registered, as far as the user can know.
Reg(u) ==
  held[u] \cup {q \in Ports : /\ cur[u] = q
                              /\ \/ pc[u] = "acquiring" /\ reply[u] = "ok"
                                 \/ pc[u] = "releasing" /\ reply[u] = None}

UserOK ==
  \A u \in Users :
    /\ pc[u] \in {"acquiring", "releasing"} => cur[u] \in Wanted(u)
    /\ pc[u] \notin {"acquiring", "releasing"} => reply[u] = None
    /\ pc[u] = "releasing" => cur[u] \notin held[u]
    /\ todo[u] \subseteq Wanted(u) /\ held[u] \subseteq Wanted(u)

\* A command in the channel finds its sender waiting; the loop is told of a
\* certificate while it still takes the fetch for one in flight.
CmdOK(c) ==
  /\ c.op \in {"acquire", "release"} =>
       /\ c.by \in Users /\ c.port = cur[c.by] /\ reply[c.by] = None
       /\ pc[c.by] = IF c.op = "acquire" THEN "acquiring" ELSE "releasing"
  /\ c.op \in {"subscribe", "unsubscribe"} => c.by \in Users
  /\ c.op = "cert" =>
       /\ c.gen \in Gens /\ c.gen < nextGen /\ certs[c.gen] = 0
       /\ rt = "node" /\ c.gen = gen => certInFlight

\* Two commands that are never in the channel together.
Apart(c, d) ==
  /\ c.op \in {"acquire", "release"} /\ d.op \in {"acquire", "release"} => c.by # d.by
  /\ c.op = "cert" /\ d.op = "cert" => c.gen # d.gen

QueueOK ==
  /\ \A i \in 1 .. Len(queue) : CmdOK(queue[i])
  /\ \A i, j \in 1 .. Len(queue) : i # j => Apart(queue[i], queue[j])

LoopOK ==
  /\ done <=> phase = "exit"
  /\ done => queue = <<>>
  /\ state = "running" => phase = "run" /\ rt = "node"
  /\ phase = "run" /\ rt = "node" => node[gen] = "up"
  /\ \A g \in Gens : node[g] = "up" => g = gen /\ rt = "node" /\ phase = "run"

CertsOK ==
  /\ \A g \in Gens : certs[g] <= 1 /\ (g >= nextGen => certs[g] = 0)
  /\ rt = "node" => gen < nextGen /\ (~certInFlight => certs[gen] = 0)

Pairs == {r \in Ports \X Domains : r[2] \in who[r[1]]}

RoutesOK ==
  /\ \A q \in Ports : use[q] = "free" <=> who[q] = {}
  /\ phase # "run" => \A q \in Ports : who[q] = {}
  /\ routeCount = Cardinality(Pairs)
  /\ state = "running" <=> routeCount > 0

\* The registered routes and what the users know of them.
RegOK ==
  /\ \A q \in Ports : \A d \in who[q] : \E u \in Users : q \in Reg(u) /\ Domain(u) = d
  /\ Serving => \A u \in Users : \A q \in Reg(u) :
       /\ use[q] = Mode(Proto(u, q)) /\ Domain(u) \in who[q]
       /\ use[q] \in {"tcp", "udp"} => who[q] = {Domain(u)}
       /\ \A v \in Users : q \in Reg(v) /\ Domain(u) = Domain(v) => u = v

SubsOK == \A u \in Users : u \in subs <=> ch[u] = "open"

SInv == TypeOK /\ UserOK /\ QueueOK /\ LoopOK /\ CertsOK /\ RoutesOK /\ RegOK /\ SubsOK

-----------------------------------------------------------------------------
(* The command channel. *)

\* A command that is sent comes last in the queue.
LEMMA SendTypes ==
  ASSUME TypeOK, NEW c \in Commands, Send(c)
  PROVE  /\ queue' \in Seq(Commands) /\ Len(queue') <= QueueCap
         /\ Len(queue') = Len(queue) + 1
         /\ \A i \in 1 .. Len(queue) : queue'[i] = queue[i]
         /\ queue'[Len(queue) + 1] = c
BY BoundsType DEF TypeOK, Send

\* A command is sent; the commands before it still find their senders waiting.
LEMMA QueueSend ==
  ASSUME TypeOK, QueueOK, NEW c \in Commands, Send(c), CmdOK(c)',
         \A i \in 1 .. Len(queue) : Apart(queue[i], c),
         \A i \in 1 .. Len(queue), d \in Commands : d = queue[i] /\ CmdOK(d) => CmdOK(d)'
  PROVE  QueueOK'
<1>1. /\ Len(queue') = Len(queue) + 1 /\ queue'[Len(queue) + 1] = c
      /\ \A i \in 1 .. Len(queue) : queue'[i] = queue[i]
      /\ Len(queue) \in Nat /\ \A i \in 1 .. Len(queue) : queue[i] \in Commands
  BY SendTypes DEF TypeOK
<1>2. \A i \in 1 .. Len(queue') : i \in 1 .. Len(queue) \/ i = Len(queue) + 1
  BY <1>1
<1>3. ASSUME NEW i \in 1 .. Len(queue') PROVE CmdOK(queue[i])'
  <2>1. CASE i \in 1 .. Len(queue)
    <3>1. PICK d \in Commands : d = queue[i]
      BY <1>1, <2>1
    <3>2. CmdOK(d)'
      BY <2>1, <3>1 DEF QueueOK
    <3>3. queue'[i] = d
      BY <1>1, <2>1, <3>1
    <3> QED BY <3>2, <3>3 DEF CmdOK
  <2>2. CASE i = Len(queue) + 1
    BY <1>1, <2>2 DEF CmdOK
  <2> QED BY <1>2, <2>1, <2>2
<1>4. ASSUME NEW i \in 1 .. Len(queue'), NEW j \in 1 .. Len(queue'), i # j
      PROVE  Apart(queue'[i], queue'[j])
  <2>1. CASE i \in 1 .. Len(queue) /\ j \in 1 .. Len(queue)
    BY <1>1, <1>4, <2>1 DEF QueueOK
  <2>2. CASE i \in 1 .. Len(queue) /\ j = Len(queue) + 1
    BY <1>1, <2>2
  <2>3. CASE j \in 1 .. Len(queue) /\ i = Len(queue) + 1
    BY <1>1, <2>3 DEF Apart
  <2> QED BY <1>2, <1>4, <2>1, <2>2, <2>3
<1> QED BY <1>3, <1>4 DEF QueueOK, Apart

\* The loop takes the oldest command; the others are apart from it.
LEMMA QueueTake ==
  ASSUME TypeOK, QueueOK, queue # <<>>, queue' = Tail(queue),
         \A d \in Commands : CmdOK(d) /\ Apart(Head(queue), d) => CmdOK(d)'
  PROVE  /\ QueueOK' /\ queue' \in Seq(Commands) /\ Len(queue') <= QueueCap
         /\ Head(queue) \in Commands /\ CmdOK(Head(queue))
<1>1. /\ Len(queue) \in Nat \ {0} /\ Len(queue') = Len(queue) - 1
      /\ \A i \in 1 .. Len(queue') : queue'[i] = queue[i + 1] /\ i + 1 \in 1 .. Len(queue)
      /\ \A i \in 1 .. Len(queue) : queue[i] \in Commands
      /\ Head(queue) = queue[1] /\ 1 \in 1 .. Len(queue)
      /\ queue' \in Seq(Commands)
  BY DEF TypeOK
<1>2. ASSUME NEW i \in 1 .. Len(queue') PROVE CmdOK(queue[i])'
  <2>1. PICK d \in Commands : d = queue[i + 1]
    BY <1>1
  <2>2. CmdOK(d) /\ Apart(Head(queue), d)
    <3>1. i + 1 # 1 /\ i + 1 \in 1 .. Len(queue)
      BY <1>1
    <3> QED BY <1>1, <2>1, <3>1 DEF QueueOK
  <2>3. queue'[i] = d
    BY <1>1, <2>1
  <2> QED BY <2>2, <2>3 DEF CmdOK
<1>3. ASSUME NEW i \in 1 .. Len(queue'), NEW j \in 1 .. Len(queue'), i # j
      PROVE  Apart(queue'[i], queue'[j])
  <2>1. i + 1 # j + 1
    BY <1>1, <1>3
  <2> QED BY <1>1, <2>1 DEF QueueOK
<1>4. Len(queue') <= QueueCap
  BY <1>1, BoundsType DEF TypeOK
<1>5. CmdOK(Head(queue))
  BY <1>1 DEF QueueOK
<1> QED BY <1>1, <1>2, <1>3, <1>4, <1>5 DEF QueueOK, Apart

\* The queue keeps what is true of each of its commands.
LEMMA QueueKept ==
  ASSUME TypeOK, QueueOK, UNCHANGED queue,
         \A i \in 1 .. Len(queue), d \in Commands : d = queue[i] /\ CmdOK(d) => CmdOK(d)'
  PROVE  QueueOK'
<1>1. ASSUME NEW i \in 1 .. Len(queue') PROVE CmdOK(queue[i])'
  <2>1. PICK d \in Commands : d = queue[i]
    BY DEF TypeOK
  <2>2. CmdOK(d)'
    BY <2>1 DEF QueueOK
  <2> QED BY <2>1, <2>2 DEF CmdOK
<1> QED BY <1>1 DEF QueueOK, Apart

\* Where routes, state and registrations stay, so do the invariants on them.
LEMMA RoutesKept ==
  ASSUME RoutesOK, RegOK, UNCHANGED <<config, use, who, routeCount, state, phase>>,
         Serving => \A u \in Users : Reg(u)' = Reg(u)
  PROVE  RoutesOK' /\ RegOK'
<1>1. RoutesOK'
  BY DEF RoutesOK, Pairs
<1>2. RegOK'
  <2>1. CASE Serving
    BY <2>1 DEF RegOK, Serving, Domain, Proto
  <2>2. CASE ~Serving
    BY <2>2 DEF RegOK, RoutesOK, Serving
  <2> QED BY <2>1, <2>2
<1> QED BY <1>1, <1>2

-----------------------------------------------------------------------------
(* The users. *)

\* A step of user u that leaves the server alone and changes nothing that the
\* user has registered.
LEMMA UserFrame ==
  ASSUME SInv, NEW u \in Users, TypeOK', QueueOK',
         UNCHANGED <<config, loopVars, routes, subs, certInFlight, nodes, ch>>,
         done => queue' = <<>>,
         \A v \in Users \ {u} : /\ pc'[v] = pc[v] /\ cur'[v] = cur[v] /\ held'[v] = held[v]
                                /\ reply'[v] = reply[v] /\ todo'[v] = todo[v],
         /\ pc'[u] \in {"acquiring", "releasing"} => cur'[u] \in Wanted(u)
         /\ pc'[u] \notin {"acquiring", "releasing"} => reply'[u] = None
         /\ pc'[u] = "releasing" => cur'[u] \notin held'[u]
         /\ todo'[u] \subseteq Wanted(u) /\ held'[u] \subseteq Wanted(u),
         Serving => Reg(u)' = Reg(u)
  PROVE  SInv'
<1> USE DEF SInv
<1>1. \A v \in Users : Wanted(v)' = Wanted(v)
  BY DEF Wanted, Proto
<1>2. UserOK'
  BY <1>1 DEF UserOK
<1>3. LoopOK' /\ CertsOK' /\ SubsOK'
  BY DEF LoopOK, CertsOK, SubsOK, loopVars, nodes
<1>4. Serving => \A v \in Users : Reg(v)' = Reg(v)
  BY DEF Reg
<1>5. RoutesOK' /\ RegOK'
  BY <1>4, RoutesKept DEF routes, loopVars
<1> QED BY <1>2, <1>3, <1>5

\* Acquire keeps the invariant.
LEMMA AcquireStep ==
  ASSUME SInv, NEW u \in Users, NEW q \in Ports, Acquire(u, q)
  PROVE  SInv'
<1> DEFINE c == Cmd("acquire", u, q, -1)
<1> USE DEF SInv
<1>1. c \in Commands /\ Send(c)
  BY DEF Acquire, Cmd, Commands
<1>2. /\ pc[u] \in {"new", "acquire"} /\ q \in Wanted(u) /\ reply[u] = None
      /\ pc' = [pc EXCEPT ![u] = "acquiring"] /\ cur' = [cur EXCEPT ![u] = q]
      /\ todo' = [todo EXCEPT ![u] = @ \ {q}]
      /\ UNCHANGED <<config, loopVars, routes, subs, certInFlight, fired, nodes,
                     held, reply, stopCh, forward, fwReply, closer>>
  BY DEF Acquire, Set, UserOK
<1>3. TypeOK'
  BY <1>1, <1>2, SendTypes DEF TypeOK, loopVars, routes, nodes, forward
<1>4. QueueOK'
  <2>1. CmdOK(c)'
    BY <1>2 DEF CmdOK, c, Cmd, TypeOK
  <2>2. \A i \in 1 .. Len(queue) : Apart(queue[i], c)
    BY <1>2 DEF QueueOK, CmdOK, Apart, c, Cmd
  <2>3. \A d \in Commands : CmdOK(d) => CmdOK(d)'
    BY <1>2 DEF CmdOK, TypeOK, loopVars, nodes
  <2> QED BY <1>1, <2>1, <2>2, <2>3, QueueSend
<1>5. Reg(u)' = Reg(u)
  BY <1>2, NoneFresh DEF Reg, TypeOK
<1> QED
  <2>1. done => queue' = <<>>
    BY DEF Acquire, Send
  <2>2. \A v \in Users \ {u} : /\ pc'[v] = pc[v] /\ cur'[v] = cur[v] /\ held'[v] = held[v]
                               /\ reply'[v] = reply[v] /\ todo'[v] = todo[v]
    BY <1>2 DEF TypeOK
  <2>3. /\ pc'[u] \in {"acquiring", "releasing"} => cur'[u] \in Wanted(u)
        /\ pc'[u] \notin {"acquiring", "releasing"} => reply'[u] = None
        /\ pc'[u] = "releasing" => cur'[u] \notin held'[u]
        /\ todo'[u] \subseteq Wanted(u) /\ held'[u] \subseteq Wanted(u)
    BY <1>2 DEF TypeOK, UserOK
  <2> QED BY <1>2, <1>3, <1>4, <1>5, <2>1, <2>2, <2>3, UserFrame DEF forward

\* So does Release.
LEMMA ReleaseStep ==
  ASSUME SInv, NEW u \in Users, NEW q \in Ports, Release(u, q)
  PROVE  SInv'
<1> DEFINE c == Cmd("release", u, q, -1)
<1> USE DEF SInv
<1>1. c \in Commands /\ Send(c)
  BY DEF Release, Cmd, Commands
<1>2. /\ pc[u] = "release" /\ q \in Wanted(u) /\ reply[u] = None /\ q \in held[u]
      /\ pc' = [pc EXCEPT ![u] = "releasing"] /\ cur' = [cur EXCEPT ![u] = q]
      /\ held' = [held EXCEPT ![u] = @ \ {q}]
      /\ UNCHANGED <<config, loopVars, routes, subs, certInFlight, fired, nodes,
                     todo, reply, stopCh, forward, fwReply, closer>>
  BY DEF Release, Set, UserOK
<1>3. TypeOK'
  BY <1>1, <1>2, SendTypes DEF TypeOK, loopVars, routes, nodes, forward
<1>4. QueueOK'
  <2>1. CmdOK(c)'
    BY <1>2 DEF CmdOK, c, Cmd, TypeOK
  <2>2. \A i \in 1 .. Len(queue) : Apart(queue[i], c)
    BY <1>2 DEF QueueOK, CmdOK, Apart, c, Cmd
  <2>3. \A d \in Commands : CmdOK(d) => CmdOK(d)'
    BY <1>2 DEF CmdOK, TypeOK, loopVars, nodes
  <2> QED BY <1>1, <2>1, <2>2, <2>3, QueueSend
<1>5. Reg(u)' = Reg(u)
  BY <1>2, NoneFresh DEF Reg, TypeOK
<1> QED
  <2>1. done => queue' = <<>>
    BY DEF Release, Send
  <2>2. \A v \in Users \ {u} : /\ pc'[v] = pc[v] /\ cur'[v] = cur[v] /\ held'[v] = held[v]
                               /\ reply'[v] = reply[v] /\ todo'[v] = todo[v]
    BY <1>2 DEF TypeOK
  <2>3. /\ pc'[u] \in {"acquiring", "releasing"} => cur'[u] \in Wanted(u)
        /\ pc'[u] \notin {"acquiring", "releasing"} => reply'[u] = None
        /\ pc'[u] = "releasing" => cur'[u] \notin held'[u]
        /\ todo'[u] \subseteq Wanted(u) /\ held'[u] \subseteq Wanted(u)
    BY <1>2 DEF TypeOK, UserOK
  <2> QED BY <1>2, <1>3, <1>4, <1>5, <2>1, <2>2, <2>3, UserFrame DEF forward

\* The replies, and what happens once the loop has exited.
LEMMA AnsweredStep ==
  ASSUME SInv, NEW u \in Users, Acquired(u) \/ Released(u)
  PROVE  SInv'
<1> USE DEF SInv
<1>1. /\ UNCHANGED <<config, queue, loopVars, routes, subs, certInFlight, fired,
                     nodes, stopCh, forward, fwReply, closer>>
      /\ cur' = [cur EXCEPT ![u] = None] /\ reply' = [reply EXCEPT ![u] = None]
      /\ \A v \in Users \ {u} : /\ pc'[v] = pc[v] /\ held'[v] = held[v]
                                /\ todo'[v] = todo[v]
      /\ pc'[u] \in {"acquire", "release"}
  BY DEF Acquired, Released, Set, TypeOK
<1>8. reply[u] # None \/ done
  BY NoneFresh DEF Acquired, Released
<1>2. TypeOK'
  <2>1. CASE Acquired(u)
    <3>1. pc' \in [Users -> {"new", "acquire", "acquiring", "up", "release",
                             "releasing", "stop", "join", "closed"}]
      BY <2>1 DEF Acquired, Set, TypeOK
    <3>2. todo' \in [Users -> SUBSET Ports]
      BY <2>1 DEF Acquired, Set, TypeOK
    <3>3. cur[u] \in Ports
      BY <2>1 DEF Acquired, UserOK, Wanted
    <3>4. held' \in [Users -> SUBSET Ports]
      BY <2>1, <3>3 DEF Acquired, Set, TypeOK
    <3> QED BY <1>1, <3>1, <3>2, <3>4, ZenonT(30) DEF TypeOK, loopVars, routes, nodes, forward
  <2>2. CASE Released(u)
    BY <2>2 DEF Released, Set, TypeOK, loopVars, routes, nodes, forward
  <2> QED BY <2>1, <2>2
<1>3. QueueOK'
  <2>1. \A i \in 1 .. Len(queue), d \in Commands : d = queue[i] /\ CmdOK(d) => CmdOK(d)'
    <3>1. CASE done
      BY <3>1 DEF LoopOK
    <3>2. CASE ~done
      BY <1>1, <1>8, <3>2 DEF CmdOK, TypeOK, loopVars, nodes
    <3> QED BY <3>1, <3>2
  <2> QED BY <1>1, <2>1, QueueKept
<1>4. Serving => Reg(u)' = Reg(u)
  <2>1. SUFFICES ASSUME Serving PROVE Reg(u)' = Reg(u)
    OBVIOUS
  <2>2. ~done
    BY <2>1 DEF Serving, LoopOK
  <2>3. CASE Acquired(u) /\ reply[u] = "ok"
    <3>1. held'[u] = held[u] \cup {cur[u]} /\ cur[u] \in Ports /\ pc[u] = "acquiring"
      BY <2>2, <2>3 DEF Acquired, TypeOK, UserOK, Wanted
    <3> QED BY <1>1, <2>3, <3>1, NoneFresh DEF Reg, TypeOK
  <2>4. CASE Acquired(u) /\ reply[u] = "error"
    <3>1. held'[u] = held[u] /\ pc[u] = "acquiring"
      BY <2>4 DEF Acquired, TypeOK
    <3> QED BY <1>1, <2>4, <3>1, NoneFresh DEF Reg, TypeOK
  <2>5. CASE Released(u)
    <3>1. held'[u] = held[u] /\ pc[u] = "releasing" /\ reply[u] # None
      BY <2>2, <2>5 DEF Released, TypeOK
    <3> QED BY <1>1, <3>1, NoneFresh DEF Reg, TypeOK
  <2> QED BY <2>2, <2>3, <2>4, <2>5 DEF Acquired
<1>5. /\ pc'[u] \notin {"acquiring", "releasing"} => reply'[u] = None
      /\ todo'[u] \subseteq Wanted(u) /\ held'[u] \subseteq Wanted(u)
  <2>1. CASE Acquired(u)
    BY <2>1 DEF Acquired, Set, TypeOK, UserOK
  <2>2. CASE Released(u)
    BY <2>2 DEF Released, Set, TypeOK, UserOK
  <2> QED BY <2>1, <2>2
<1>6. \A v \in Users \ {u} : cur'[v] = cur[v] /\ reply'[v] = reply[v]
  BY <1>1 DEF TypeOK
<1>7. done => queue' = <<>>
  BY <1>1 DEF LoopOK
<1> QED BY <1>1, <1>2, <1>3, <1>4, <1>5, <1>6, <1>7, UserFrame DEF forward

\* Steps between commands: nothing is asked for and nothing that is held of a
\* server at work is dropped.
LEMMA UserElseStep ==
  ASSUME SInv, NEW u \in Users,
         \/ \E q \in Ports : ReleaseNothing(u, q)
         \/ StartFails(u) \/ Started(u) \/ CloseUser(u) \/ StopForwarder(u) \/ Closed(u)
  PROVE  SInv'
<1> USE DEF SInv
<1> DEFINE Quiet ==
      /\ UNCHANGED <<config, queue, loopVars, routes, subs, certInFlight, fired,
                     nodes, cur, reply, ch, inbox, fwReply, closer>>
      /\ pc[u] \notin {"acquiring", "releasing"}
      /\ pc'[u] \notin {"acquiring", "releasing"}
      /\ \A v \in Users \ {u} : /\ pc'[v] = pc[v] /\ held'[v] = held[v]
                                /\ todo'[v] = todo[v]
      /\ held'[u] \subseteq held[u] /\ todo'[u] \subseteq todo[u]
      /\ ~done => held'[u] = held[u]
<1>1. Quiet
  <2>1. ASSUME NEW q \in Ports, ReleaseNothing(u, q) PROVE Quiet
    BY <2>1 DEF ReleaseNothing, TypeOK, forward
  <2>2. CASE StartFails(u)
    BY <2>2 DEF StartFails, Set, TypeOK, forward
  <2>3. CASE Started(u) \/ CloseUser(u) \/ Closed(u)
    BY <2>3 DEF Started, CloseUser, Closed, Set, TypeOK, forward
  <2>4. CASE StopForwarder(u)
    BY <2>4 DEF StopForwarder, Set, TypeOK, forward
  <2> QED BY <2>1, <2>2, <2>3, <2>4
<1>2. TypeOK'
  <2> USE DEF ReleaseNothing, StartFails, Started, CloseUser, StopForwarder, Closed, Set
  <2>1. pc' \in [Users -> {"new", "acquire", "acquiring", "up", "release",
                           "releasing", "stop", "join", "closed"}]
    <3>1. \/ UNCHANGED pc
          \/ \E l \in {"release", "up", "join", "closed"} : pc' = [pc EXCEPT ![u] = l]
      OBVIOUS
    <3> QED BY <3>1 DEF TypeOK
  <2>3. todo' \in [Users -> SUBSET Ports]
    BY DEF TypeOK
  <2>4. held' \in [Users -> SUBSET Ports]
    <3>1. UNCHANGED held \/ \E q \in Ports : held' = [held EXCEPT ![u] = @ \ {q}]
      OBVIOUS
    <3> QED BY <3>1 DEF TypeOK
  <2>5. stopCh' \in [Users -> {"nil", "open", "closed"}]
    BY ZenonT(30) DEF TypeOK
  <2>2. fw' \in [Users -> {"none", "subscribe", "subscribing", "loop", "select",
                           "deaf", "unsubscribe", "unsubscribing", "done"}]
    BY DEF TypeOK, forward
  <2> QED BY <1>1, <2>1, <2>2, <2>3, <2>4, <2>5 DEF TypeOK, loopVars, routes, nodes
<1>3. QueueOK'
  <2>1. \A d \in Commands : CmdOK(d) => CmdOK(d)'
    BY <1>1 DEF CmdOK, loopVars, nodes
  <2> QED BY <1>1, <2>1, QueueKept
<1>4. Serving => Reg(u)' = Reg(u)
  <2>1. Serving => ~done
    BY DEF Serving, LoopOK
  <2> QED BY <1>1, <2>1 DEF Reg
<1>5. done => queue' = <<>>
  BY <1>1 DEF LoopOK
<1>6. /\ reply'[u] = None /\ todo'[u] \subseteq Wanted(u) /\ held'[u] \subseteq Wanted(u)
      /\ \A v \in Users \ {u} : cur'[v] = cur[v] /\ reply'[v] = reply[v]
  BY <1>1 DEF UserOK
<1> QED BY <1>1, <1>2, <1>3, <1>4, <1>5, <1>6, UserFrame

-----------------------------------------------------------------------------
(* Forwarders, producers and the call of Close. *)

\* A step that only sends a command, or drops one, and changes no route.
LEMMA SideFrame ==
  ASSUME SInv, TypeOK', QueueOK', CertsOK', done => queue' = <<>>,
         UNCHANGED <<config, done, phase, state, rt, gen, routes, node, subs, ch,
                     pc, todo, cur, held, reply>>
  PROVE  SInv'
<1> USE DEF SInv
<1>1. UserOK' /\ LoopOK' /\ SubsOK'
  BY DEF UserOK, Wanted, Proto, LoopOK, SubsOK
<1>2. \A v \in Users : Reg(v)' = Reg(v)
  BY DEF Reg
<1>3. RoutesOK' /\ RegOK'
  BY <1>2, RoutesKept DEF routes
<1> QED BY <1>1, <1>3

\* A command that concerns neither routes nor certificates.
LEMMA PlainSend ==
  ASSUME SInv, NEW c \in Commands, Send(c),
         c.op \in {"subscribe", "unsubscribe"} => c.by \in Users,
         c.op \in {"subscribe", "unsubscribe", "close", "watch", "idle"},
         UNCHANGED <<rt, gen, nextGen, certs, certInFlight, pc, cur, reply>>
  PROVE  QueueOK'
<1>1. CmdOK(c)'
  BY DEF CmdOK
<1>2. \A i \in 1 .. Len(queue) : Apart(queue[i], c)
  BY DEF Apart
<1>3. \A d \in Commands : CmdOK(d) => CmdOK(d)'
  BY DEF CmdOK
<1> QED BY <1>1, <1>2, <1>3, QueueSend DEF SInv

\* So does a forwarder.
LEMMA ForwarderStep ==
  ASSUME SInv, NEW u \in Users, Forwarder(u)
  PROVE  SInv'
<1> USE DEF SInv, Forwarder
<1>1. UNCHANGED <<config, loopVars, routes, subs, certInFlight, fired, nodes, user, reply,
                  ch, closer>>
  BY DEF Subscribe, Subscribed, EnterSelect, Forward, StopSeen, Unsubscribe, Unsubscribed,
         forward
<1>2. \/ UNCHANGED queue
      \/ Send(Cmd("subscribe", u, None, -1))
      \/ Send(Cmd("unsubscribe", u, None, -1))
  BY DEF Subscribe, Subscribed, EnterSelect, Forward, StopSeen, Unsubscribe, Unsubscribed
<1>3. \A op \in {"subscribe", "unsubscribe"} :
        /\ Cmd(op, u, None, -1) \in Commands
        /\ Cmd(op, u, None, -1).op = op /\ Cmd(op, u, None, -1).by = u
  BY DEF Cmd, Commands
<1>4. QueueOK' /\ queue' \in Seq(Commands) /\ Len(queue') <= QueueCap
  <2>1. CASE UNCHANGED queue
    BY <1>1, <2>1, QueueKept DEF CmdOK, TypeOK, loopVars, nodes, user
  <2>2. ASSUME NEW op \in {"subscribe", "unsubscribe"}, Send(Cmd(op, u, None, -1))
        PROVE  QueueOK' /\ queue' \in Seq(Commands) /\ Len(queue') <= QueueCap
    BY <1>1, <1>3, <2>2, PlainSend, SendTypes DEF loopVars, nodes, user
  <2> QED BY <1>2, <2>1, <2>2
<1>5. TypeOK'
  <2>1. fw' \in [Users -> {"none", "subscribe", "subscribing", "loop", "select",
                           "deaf", "unsubscribe", "unsubscribing", "done"}]
    <3>1. \E l \in {"subscribing", "loop", "select", "deaf", "unsubscribe",
                    "unsubscribing", "done"} : fw' = [fw EXCEPT ![u] = l]
      BY DEF Subscribe, Subscribed, EnterSelect, Forward, StopSeen, Unsubscribe,
             Unsubscribed, Set
    <3> QED BY <3>1 DEF TypeOK
  <2>2. fwReply' \in [Users -> {"ok", None}] /\ inbox' \in [Users -> BOOLEAN]
    <3>1. UNCHANGED fwReply \/ fwReply' = [fwReply EXCEPT ![u] = None]
      BY DEF Subscribe, Subscribed, EnterSelect, Forward, StopSeen, Unsubscribe,
             Unsubscribed, Set, forward
    <3>2. UNCHANGED inbox \/ inbox' = [inbox EXCEPT ![u] = FALSE]
      BY DEF Subscribe, Subscribed, EnterSelect, Forward, StopSeen, Unsubscribe,
             Unsubscribed, Set, forward
    <3> QED BY <3>1, <3>2, ZenonT(30) DEF TypeOK
  <2> QED BY <1>1, <1>4, <2>1, <2>2 DEF TypeOK, loopVars, routes, nodes, user
<1>6. done => queue' = <<>>
  BY <1>2 DEF LoopOK, Send
<1>7. CertsOK'
  BY <1>1 DEF CertsOK, loopVars, nodes
<1> QED BY <1>1, <1>4, <1>5, <1>6, <1>7, SideFrame DEF loopVars, nodes, user

\* The bridge, and a timer that has fired.
LEMMA BridgeStep ==
  ASSUME SInv, NEW g \in Gens,
         BridgeEvent(g) \/ BridgeSend(g) \/ BridgeEnds(g) \/ TimerSends(g)
  PROVE  SInv'
<1> USE DEF SInv
<1>1. UNCHANGED <<config, loopVars, routes, subs, certInFlight, node, certs, user, reply,
                  forward, fwReply, closer>>
  BY DEF BridgeEvent, BridgeSend, BridgeEnds, TimerSends, nodes
<1>2. \/ UNCHANGED queue
      \/ Send(Cmd("watch", None, None, g))
      \/ Send(Cmd("idle", None, None, g))
  BY DEF BridgeEvent, BridgeSend, BridgeEnds, TimerSends
<1>3. \A op \in {"watch", "idle"} :
        Cmd(op, None, None, g) \in Commands /\ Cmd(op, None, None, g).op = op
  BY DEF Cmd, Commands
<1>4. QueueOK' /\ queue' \in Seq(Commands) /\ Len(queue') <= QueueCap
  <2>1. CASE UNCHANGED queue
    BY <1>1, <2>1, QueueKept DEF CmdOK, TypeOK, loopVars, nodes, user
  <2>2. ASSUME NEW op \in {"watch", "idle"}, Send(Cmd(op, None, None, g))
        PROVE  QueueOK' /\ queue' \in Seq(Commands) /\ Len(queue') <= QueueCap
    BY <1>1, <1>3, <2>2, PlainSend, SendTypes DEF loopVars, nodes, user
  <2> QED BY <1>2, <2>1, <2>2
<1>5. TypeOK'
  <2>1. bridge' \in [Gens -> {"none", "waiting", "sending", "done"}]
    BY DEF BridgeEvent, BridgeSend, BridgeEnds, TimerSends, Set, TypeOK, nodes
  <2>2. fired' \in [Gens -> Nat]
    <3>1. UNCHANGED fired \/ (fired[g] > 0 /\ fired' = [fired EXCEPT ![g] = fired[g] - 1])
      BY DEF BridgeEvent, BridgeSend, BridgeEnds, TimerSends
    <3>2. fired \in [Gens -> Nat] /\ fired[g] \in Nat
      BY DEF TypeOK
    <3>3. fired[g] > 0 => fired[g] - 1 \in Nat
      BY <3>2
    <3> QED BY <3>1, <3>2, <3>3
  <2> QED BY <1>1, <1>4, <2>1, <2>2, SMTT(30) DEF TypeOK, loopVars, routes, user, forward
<1>6. done => queue' = <<>>
  BY <1>2 DEF LoopOK, Send
<1>7. CertsOK'
  BY <1>1 DEF CertsOK, loopVars
<1> QED BY <1>1, <1>4, <1>5, <1>6, <1>7, SideFrame DEF loopVars, user, forward

\* getCertificates ends: the fetch goes from its goroutine into the channel.
LEMMA CertDoneStep ==
  ASSUME SInv, NEW g \in Gens, CertDone(g)
  PROVE  SInv'
<1> USE DEF SInv
<1> DEFINE c == Cmd("cert", None, None, g)
<1>1. /\ UNCHANGED <<config, loopVars, routes, subs, certInFlight, fired, node, bridge,
                     user, reply, forward, fwReply, closer>>
      /\ Send(c) \/ UNCHANGED queue
      /\ certs[g] > 0 /\ certs' = [certs EXCEPT ![g] = certs[g] - 1]
  BY DEF CertDone
<1>2. c \in Commands /\ c.op = "cert" /\ c.gen = g
  BY DEF Cmd, Commands
<1>3. certs[g] = 1 /\ certs' = [certs EXCEPT ![g] = 0] /\ certs \in [Gens -> Nat]
  <2>1. certs \in [Gens -> Nat] /\ certs[g] \in Nat /\ certs[g] <= 1
    BY DEF CertsOK, TypeOK
  <2>2. certs[g] = 1
    BY <1>1, <2>1
  <2>3. certs[g] - 1 = 0
    BY <2>2
  <2> QED BY <1>1, <2>1, <2>2, <2>3
<1>4. nextGen \in Nat /\ g \in Nat /\ g < nextGen /\ (rt = "node" /\ g = gen => certInFlight)
  BY <1>3, BoundsType DEF CertsOK, TypeOK, Gens
<1>5. \A d \in Commands : CmdOK(d) => CmdOK(d)'
  BY <1>1, <1>3 DEF CmdOK, loopVars, user
<1> HIDE DEF c
<1>6. QueueOK' /\ queue' \in Seq(Commands) /\ Len(queue') <= QueueCap
  <2>1. CASE UNCHANGED queue
    BY <1>5, <2>1, QueueKept DEF TypeOK
  <2>2. CASE Send(c)
    <3>1. CmdOK(c)'
      BY <1>1, <1>2, <1>3, <1>4 DEF CmdOK, loopVars
    <3>2. \A i \in 1 .. Len(queue) : Apart(queue[i], c)
      BY <1>2, <1>3 DEF QueueOK, CmdOK, Apart
    <3> QED BY <1>2, <1>5, <2>2, <3>1, <3>2, QueueSend, SendTypes
  <2> QED BY <1>1, <2>1, <2>2
<1>7. TypeOK'
  BY <1>1, <1>3, <1>6 DEF TypeOK, loopVars, routes, user, forward
<1>8. done => queue' = <<>>
  BY <1>1 DEF LoopOK, Send
<1>9. CertsOK'
  BY <1>1, <1>3 DEF CertsOK, loopVars, TypeOK
<1> QED BY <1>1, <1>6, <1>7, <1>8, <1>9, SideFrame DEF loopVars, user, forward

\* So does the idle timer.
LEMMA TimerFiresStep ==
  ASSUME SInv, TimerFires
  PROVE  SInv'
<1> USE DEF SInv
<1>1. /\ UNCHANGED <<config, queue, done, phase, state, rt, gen, nextGen, routes,
                     subs, certInFlight, nodes, user, reply, forward, fwReply, closer>>
      /\ timer \in Gens /\ timer' = -1
      /\ fired' = [fired EXCEPT ![timer] = fired[timer] + 1]
  BY DEF TimerFires, TypeOK
<1>2. TypeOK'
  BY <1>1 DEF TypeOK, routes, nodes, user, forward
<1>3. QueueOK'
  BY <1>1, QueueKept DEF CmdOK, nodes, user
<1>4. CertsOK' /\ (done => queue' = <<>>)
  BY <1>1 DEF CertsOK, LoopOK, nodes
<1> QED BY <1>1, <1>2, <1>3, <1>4, SideFrame DEF nodes, user, forward

\* So does Close.
LEMMA CloseServerStep ==
  ASSUME SInv, CloseServer
  PROVE  SInv'
<1> USE DEF SInv
<1> DEFINE c == Cmd("close", None, None, -1)
<1>1. /\ UNCHANGED <<config, loopVars, routes, subs, certInFlight, fired, nodes,
                     user, reply, forward, fwReply>>
      /\ Send(c) /\ closer' = "sent"
  BY DEF CloseServer
<1>2. c \in Commands /\ c.op = "close"
  BY DEF Cmd, Commands
<1> HIDE DEF c
<1>3. QueueOK' /\ queue' \in Seq(Commands) /\ Len(queue') <= QueueCap
  BY <1>1, <1>2, PlainSend, SendTypes DEF loopVars, nodes, user
<1>4. TypeOK'
  BY <1>1, <1>3 DEF TypeOK, loopVars, routes, nodes, user, forward
<1>5. CertsOK' /\ (done => queue' = <<>>)
  BY <1>1 DEF CertsOK, Send, loopVars, nodes
<1> QED BY <1>1, <1>3, <1>4, <1>5, SideFrame DEF loopVars, nodes, user, forward

-----------------------------------------------------------------------------
(* The loop: events, certificates and subscriptions. *)

\* The loop handles a watch.
LEMMA HandleWatchStep ==
  ASSUME SInv, HandleWatch
  PROVE  SInv'
<1> USE DEF SInv
<1>1. /\ queue # <<>> /\ queue' = Tail(queue) /\ phase = "run"
      /\ UNCHANGED <<config, loopVars, routes, subs, fired, node, bridge, user, reply,
                     fw, ch, fwReply, closer>>
  BY DEF HandleWatch, Take, Reads
<1>2. \/ UNCHANGED <<certInFlight, certs>>
      \/ /\ rt = "node" /\ ~certInFlight /\ certInFlight' = TRUE
         /\ certs' = [certs EXCEPT ![gen] = certs[gen] + 1]
  BY DEF HandleWatch
<1>5. inbox' \in [Users -> BOOLEAN]
  <2>1. \/ UNCHANGED inbox
        \/ inbox' = [u \in Users |-> inbox[u] \/ u \in subs]
    BY Zenon DEF HandleWatch
  <2>2. \A u \in Users : (inbox[u] \/ u \in subs) \in BOOLEAN
    BY Zenon
  <2>3. [u \in Users |-> inbox[u] \/ u \in subs] \in [Users -> BOOLEAN]
    BY <2>2, Zenon
  <2>4. inbox \in [Users -> BOOLEAN]
    BY DEF TypeOK
  <2> QED BY <2>1, <2>3, <2>4, Zenon
<1>3. CASE UNCHANGED <<certInFlight, certs>>
  <2>1. \A d \in Commands : CmdOK(d) => CmdOK(d)'
    BY <1>1, <1>3 DEF CmdOK, loopVars, user
  <2>2. QueueOK' /\ queue' \in Seq(Commands) /\ Len(queue') <= QueueCap
    BY <1>1, <2>1, QueueTake
  <2>4. TypeOK'
    BY <1>1, <1>3, <1>5, <2>2 DEF TypeOK, loopVars, routes, user
  <2>5. CertsOK' /\ (done => queue' = <<>>)
    BY <1>1, <1>3 DEF CertsOK, LoopOK, loopVars
  <2> QED BY <1>1, <2>2, <2>4, <2>5, SideFrame DEF loopVars, user
<1>4. CASE /\ rt = "node" /\ ~certInFlight /\ certInFlight' = TRUE
           /\ certs' = [certs EXCEPT ![gen] = certs[gen] + 1]
  <2>1. certs \in [Gens -> Nat] /\ gen \in Gens /\ certs[gen] = 0 /\ gen < nextGen
    BY <1>4 DEF CertsOK, TypeOK
  <2>2. certs' = [certs EXCEPT ![gen] = 1]
    BY <1>4, <2>1
  <2>3. \A d \in Commands : CmdOK(d) => CmdOK(d)'
    BY <1>1, <1>4, <2>1, <2>2 DEF CmdOK, loopVars, user
  <2>4. QueueOK' /\ queue' \in Seq(Commands) /\ Len(queue') <= QueueCap
    BY <1>1, <2>3, QueueTake
  <2>6. TypeOK'
    BY <1>1, <1>4, <1>5, <2>1, <2>2, <2>4 DEF TypeOK, loopVars, routes, user
  <2>7. CertsOK' /\ (done => queue' = <<>>)
    <3>1. nextGen \in Nat /\ \A g \in Gens : g \in Nat
      BY BoundsType DEF TypeOK, Gens
    <3> QED BY <1>1, <1>4, <2>1, <2>2, <3>1 DEF CertsOK, LoopOK, loopVars
  <2> QED BY <1>1, <2>4, <2>6, <2>7, SideFrame DEF loopVars, user
<1> QED BY <1>2, <1>3, <1>4

\* The loop handles a certificate request.
LEMMA HandleCertStep ==
  ASSUME SInv, HandleCert
  PROVE  SInv'
<1> USE DEF SInv
<1> DEFINE c == Head(queue)
<1>1. /\ queue # <<>> /\ queue' = Tail(queue) /\ phase = "run" /\ c.op = "cert"
      /\ UNCHANGED <<config, loopVars, routes, subs, fired, nodes, user, reply,
                     forward, fwReply, closer>>
      /\ certInFlight' = (certInFlight /\ ~(rt # "nil" /\ c.gen = gen))
  BY DEF HandleCert, Take, Reads
<1>2. \A d \in Commands : CmdOK(d) /\ Apart(c, d) => CmdOK(d)'
  BY <1>1 DEF CmdOK, Apart, loopVars, nodes, user
<1>3. /\ QueueOK' /\ queue' \in Seq(Commands) /\ Len(queue') <= QueueCap /\ CmdOK(c)
  BY <1>1, <1>2, QueueTake
<1>4. TypeOK'
  BY <1>1, <1>3 DEF TypeOK, loopVars, routes, nodes, user, forward
<1>5. CertsOK' /\ (done => queue' = <<>>)
  BY <1>1, <1>3 DEF CertsOK, CmdOK, LoopOK, loopVars, nodes
<1> QED BY <1>1, <1>3, <1>4, <1>5, SideFrame DEF loopVars, nodes, user, forward

\* Subscriptions; without a node the runtime has only subscribers.
LEMMA HandleSubscriptionStep ==
  ASSUME SInv, HandleSubscribe \/ HandleUnsubscribe
  PROVE  SInv'
<1> USE DEF SInv
<1> DEFINE c == Head(queue)
<1>1. /\ queue # <<>> /\ queue' = Tail(queue) /\ phase = "run"
      /\ c.op \in {"subscribe", "unsubscribe"}
      /\ UNCHANGED <<config, done, phase, state, nextGen, timer, routes,
                     certInFlight, fired, nodes, user, reply, fw, inbox, closer>>
      /\ rt = "nil" \/ UNCHANGED <<rt, gen>>
      /\ rt = "nil" => rt' \in {"nil", "subs"} /\ gen' \in {gen, 0}
      /\ fwReply' = [fwReply EXCEPT ![c.by] = "ok"]
  BY DEF HandleSubscribe, HandleUnsubscribe, Take, Reads, Set, loopVars, forward
<1>2. \A d \in Commands : CmdOK(d) => CmdOK(d)'
  BY <1>1 DEF CmdOK, nodes, user
<1>3. /\ QueueOK' /\ queue' \in Seq(Commands) /\ Len(queue') <= QueueCap
      /\ c \in Commands /\ CmdOK(c)
  BY <1>1, <1>2, QueueTake
<1>4. c.by \in Users
  BY <1>1, <1>3 DEF CmdOK
<1>5. /\ ch' \in [Users -> {"none", "open", "closed"}] /\ subs' \subseteq Users
      /\ SubsOK'
  <2>1. CASE HandleSubscribe
    <3>1. subs' = subs \cup {c.by} /\ ch' = [ch EXCEPT ![c.by] = "open"]
      BY <2>1 DEF HandleSubscribe, Set
    <3> QED BY <1>4, <3>1 DEF TypeOK, SubsOK
  <2>2. CASE HandleUnsubscribe
    <3>1. /\ subs' = subs \ {c.by}
          /\ ch' = IF c.by \in subs THEN [ch EXCEPT ![c.by] = "closed"] ELSE ch
      BY <2>2 DEF HandleUnsubscribe, Set
    <3> QED BY <1>4, <3>1 DEF TypeOK, SubsOK
  <2> QED BY <2>1, <2>2
<1> HIDE DEF c
<1>6. rt' \in {"nil", "subs", "node"} /\ gen' \in Gens
  <2>1. 0 \in Gens
    BY BoundsType DEF Gens
  <2> QED BY <1>1, <2>1 DEF TypeOK
<1>7. TypeOK'
  BY <1>1, <1>3, <1>4, <1>5, <1>6 DEF TypeOK, routes, nodes, user
<1>8. UserOK' /\ CertsOK'
  BY <1>1 DEF UserOK, Wanted, Proto, CertsOK, nodes, user
<1>9. LoopOK'
  BY <1>1 DEF LoopOK, nodes
<1>10. \A v \in Users : Reg(v)' = Reg(v)
  BY <1>1 DEF Reg, user
<1>11. RoutesOK' /\ RegOK'
  BY <1>1, <1>10, RoutesKept DEF routes
<1> QED BY <1>3, <1>5, <1>7, <1>8, <1>9, <1>11

-----------------------------------------------------------------------------
(* The loop: the node is stopped. *)

\* What the configuration gives a user.
LEMMA ConfigFacts ==
  ASSUME TypeOK, NEW u \in Users
  PROVE  /\ Domain(u) \in Domains
         /\ \A q \in Ports : Proto(u, q) \in Protocols \cup {None}
BY ConfigsType DEF TypeOK, Domain, Proto

\* The mode of a listener determines its protocol.
LEMMA ModeFacts ==
  ASSUME NEW pr \in Protocols
  PROVE  /\ Mode(pr) \in {"sni", "host", "tcp", "udp"}
         /\ pr \in {"https", "http"} <=> Mode(pr) \in {"sni", "host"}
         /\ pr = "udp" <=> Mode(pr) = "udp"
         /\ pr = "tcp" <=> Mode(pr) = "tcp"
BY DEF Mode, Protocols

\* The pairs of a port and its domains can be counted.
LEMMA PairsFinite ==
  ASSUME NEW W \in [Ports -> SUBSET Domains]
  PROVE  /\ IsFiniteSet({r \in Ports \X Domains : r[2] \in W[r[1]]})
         /\ Cardinality({r \in Ports \X Domains : r[2] \in W[r[1]]}) \in Nat
<1>1. IsFiniteSet(Ports \X Domains)
  BY FS_Product, FiniteSetsUsed
<1> QED BY <1>1, FS_Subset, FS_CardinalityType

\* An idle server has no route, and no user of a server at work has one.
LEMMA IdleEmpty ==
  ASSUME SInv, state = "idle"
  PROVE  /\ routeCount = 0 /\ \A q \in Ports : who[q] = {} /\ use[q] = "free"
         /\ Serving => \A u \in Users : Reg(u) = {}
<1> USE DEF SInv
<1>1. IsFiniteSet(Pairs) /\ Cardinality(Pairs) \in Nat
  BY PairsFinite DEF TypeOK, Pairs
<1>2. routeCount = 0 /\ Pairs = {}
  BY <1>1, FS_EmptySet DEF RoutesOK
<1>3. \A q \in Ports : who[q] = {} /\ use[q] = "free"
  <2> SUFFICES ASSUME NEW q \in Ports PROVE who[q] = {}
    BY DEF RoutesOK
  <2>1. ASSUME NEW d \in who[q] PROVE FALSE
    <3>1. <<q, d>> \in Pairs
      BY DEF Pairs, TypeOK
    <3> QED BY <1>2, <3>1
  <2> QED BY <2>1
<1>4. ASSUME Serving, NEW u \in Users, NEW q \in Reg(u) PROVE FALSE
  <2>1. q \in Ports
    BY DEF Reg, TypeOK
  <2> QED BY <1>3, <1>4, <2>1 DEF RegOK
<1> QED BY <1>2, <1>3, <1>4

\* The loop begins to stop the server.
LEMMA StopBeginsStep ==
  ASSUME SInv, queue # <<>>, queue' = Tail(queue), phase = "run",
         NEW why \in {"idling", "closing"}, StopBegins(why),
         why = "idling" => state = "idle", timer' = -1,
         UNCHANGED <<config, done, closer, rt, gen, nextGen, subs, certInFlight, fired,
                     bridge, certs, user, reply, forward, fwReply>>
  PROVE  SInv'
<1> USE DEF SInv
<1>1. /\ phase' = why /\ state' = "idle" /\ routeCount' = 0
      /\ use' = [q \in Ports |-> "free"] /\ who' = [q \in Ports |-> {}]
      /\ node' = IF rt = "node" THEN [node EXCEPT ![gen] = "stopped"] ELSE node
  BY DEF StopBegins, Set
<1>2. \A d \in Commands : CmdOK(d) => CmdOK(d)'
  BY DEF CmdOK, user
<1>3. QueueOK' /\ queue' \in Seq(Commands) /\ Len(queue') <= QueueCap
  BY <1>2, QueueTake
<1>4. node' \in [Gens -> {"none", "up", "stopped"}]
  BY <1>1 DEF TypeOK
<1>5. TypeOK'
  BY <1>1, <1>3, <1>4 DEF TypeOK, user, forward
<1>6. UserOK' /\ CertsOK' /\ SubsOK'
  BY DEF UserOK, Wanted, Proto, CertsOK, SubsOK, user, forward
<1>7. LoopOK'
  BY <1>1 DEF LoopOK, TypeOK
<1>8. RoutesOK'
  <2>1. Pairs' = {}
    BY <1>1 DEF Pairs
  <2> QED BY <1>1, <2>1, FS_EmptySet DEF RoutesOK
<1>9. RegOK'
  <2>1. CASE why = "idling"
    <3>1. \A u \in Users : Reg(u) = {} /\ Reg(u)' = Reg(u)
      BY <2>1, IdleEmpty DEF Serving, Reg, user
    <3> QED BY <1>1, <3>1 DEF RegOK
  <2>2. CASE why = "closing"
    BY <1>1, <2>2 DEF RegOK, Serving
  <2> QED BY <2>1, <2>2
<1> QED BY <1>3, <1>5, <1>6, <1>7, <1>8, <1>9

\* The loop handles the idle timer.
LEMMA HandleIdleStep ==
  ASSUME SInv, HandleIdle
  PROVE  SInv'
<1> USE DEF SInv
<1>1. /\ queue # <<>> /\ queue' = Tail(queue) /\ phase = "run" /\ timer' = -1
      /\ UNCHANGED <<config, done, rt, gen, nextGen, subs, certInFlight, fired,
                     bridge, certs, user, reply, forward, fwReply, closer>>
  BY DEF HandleIdle, Take, Reads
<1>2. CASE state = "idle" /\ rt # "nil" /\ Head(queue).gen = gen
  <2>1. StopBegins("idling")
    BY <1>2 DEF HandleIdle
  <2> QED BY <1>1, <1>2, <2>1, StopBeginsStep
<1>3. CASE ~(state = "idle" /\ rt # "nil" /\ Head(queue).gen = gen)
  <2>1. UNCHANGED <<phase, routes, node, state>>
    BY <1>3 DEF HandleIdle
  <2>2. \A d \in Commands : CmdOK(d) => CmdOK(d)'
    BY <1>1, <2>1 DEF CmdOK, user
  <2>3. QueueOK' /\ queue' \in Seq(Commands) /\ Len(queue') <= QueueCap
    BY <1>1, <2>2, QueueTake
  <2>4. TypeOK'
    BY <1>1, <2>1, <2>3 DEF TypeOK, routes, user, forward
  <2>5. CertsOK' /\ (done => queue' = <<>>)
    BY <1>1 DEF CertsOK, LoopOK
  <2> QED BY <1>1, <2>1, <2>3, <2>4, <2>5, SideFrame DEF user, forward
<1> QED BY <1>2, <1>3

\* The loop handles Close.
LEMMA HandleCloseStep ==
  ASSUME SInv, HandleClose
  PROVE  SInv'
<1> USE DEF SInv
<1>1. /\ queue # <<>> /\ phase = "run" /\ timer' = -1
      /\ UNCHANGED <<config, rt, gen, nextGen, subs, certInFlight, fired, bridge,
                     certs, user, reply, forward, fwReply>>
  BY DEF HandleClose, Reads
<1>2. CASE rt # "nil"
  <2>1. StopBegins("closing") /\ queue' = Tail(queue) /\ UNCHANGED <<done, closer>>
    BY <1>2 DEF HandleClose
  <2> QED BY <1>1, <2>1, StopBeginsStep
<1>3. CASE rt = "nil"
  <2>1. /\ phase' = "exit" /\ done' = TRUE /\ queue' = <<>> /\ closer' = "returned"
        /\ UNCHANGED <<routes, node, state>>
    BY <1>3 DEF HandleClose, Exit
  <2>2. state = "idle"
    BY <1>3 DEF LoopOK, TypeOK
  <2>3. TypeOK'
    <3>1. queue' \in Seq(Commands) /\ Len(queue') <= QueueCap
      BY <2>1, BoundsType
    <3> QED BY <1>1, <2>1, <3>1 DEF TypeOK, routes, user, forward
  <2>4. UserOK' /\ CertsOK' /\ SubsOK' /\ QueueOK'
    <3>1. QueueOK'
      BY <2>1 DEF QueueOK
    <3> QED BY <1>1, <3>1 DEF UserOK, Wanted, Proto, CertsOK, SubsOK, user, forward
  <2>5. LoopOK'
    BY <1>1, <1>3, <2>1, <2>2 DEF LoopOK
  <2>6. RoutesOK'
    BY <2>1, <2>2, IdleEmpty DEF RoutesOK, Pairs, routes
  <2>7. RegOK'
    BY <2>1, <2>2, IdleEmpty DEF RegOK, Serving, routes
  <2> QED BY <2>3, <2>4, <2>5, <2>6, <2>7
<1> QED BY <1>2, <1>3

\* The server has stopped.
LEMMA StopEndsStep ==
  ASSUME SInv, StopEnds
  PROVE  SInv'
<1> USE DEF SInv
<1>1. /\ phase \in {"idling", "closing"}
      /\ rt' = "nil" /\ certInFlight' = FALSE /\ subs' = {}
      /\ ch' = [u \in Users |-> IF u \in subs THEN "closed" ELSE ch[u]]
      /\ UNCHANGED <<config, state, gen, nextGen, timer, routes, fired,
                     nodes, user, reply, fw, inbox, fwReply>>
  BY DEF StopEnds
<1>2. \/ phase = "idling" /\ phase' = "run" /\ UNCHANGED <<done, closer, queue>>
      \/ /\ phase = "closing" /\ phase' = "exit" /\ done' = TRUE /\ queue' = <<>>
         /\ closer' = "returned"
  BY DEF StopEnds, Exit
<1>3. QueueOK'
  <2>1. CASE UNCHANGED queue
    <3>1. \A d \in Commands : CmdOK(d) => CmdOK(d)'
      BY <1>1 DEF CmdOK, nodes, user
    <3> QED BY <2>1, <3>1, QueueKept
  <2>2. CASE queue' = <<>>
    BY <2>2 DEF QueueOK
  <2> QED BY <1>2, <2>1, <2>2
<1>4. TypeOK'
  <2>1. queue' \in Seq(Commands) /\ Len(queue') <= QueueCap
    <3>1. CASE UNCHANGED queue
      BY <3>1 DEF TypeOK
    <3>2. CASE queue' = <<>>
      BY <3>2, BoundsType
    <3> QED BY <1>2, <3>1, <3>2
  <2>2. ch' \in [Users -> {"none", "open", "closed"}]
    BY <1>1 DEF TypeOK
  <2> QED BY <1>1, <1>2, <2>1, <2>2 DEF TypeOK, routes, nodes, user
<1>5. UserOK' /\ CertsOK'
  BY <1>1 DEF UserOK, Wanted, Proto, CertsOK, nodes, user
<1>6. SubsOK'
  BY <1>1 DEF SubsOK, TypeOK
<1>7. LoopOK'
  BY <1>1, <1>2 DEF LoopOK, nodes
<1>8. state = "idle"
  BY <1>1 DEF LoopOK, TypeOK
<1>9. RoutesOK'
  BY <1>1, <1>8, IdleEmpty DEF RoutesOK, Pairs, routes
<1>10. RegOK'
  <2>1. \A q \in Ports : who'[q] = {}
    BY <1>1, <1>8, IdleEmpty DEF routes
  <2>2. CASE phase = "idling"
    <3>1. \A u \in Users : Reg(u)' = {}
      <4>1. \A u \in Users : Reg(u)' = Reg(u)
        BY <1>1 DEF Reg, user
      <4> QED BY <1>8, <2>2, <4>1, IdleEmpty DEF Serving
    <3> QED BY <2>1, <3>1 DEF RegOK
  <2>3. CASE phase = "closing"
    BY <1>2, <2>1, <2>3 DEF RegOK, Serving
  <2> QED BY <1>1, <2>2, <2>3
<1> QED BY <1>3, <1>4, <1>5, <1>6, <1>7, <1>9, <1>10

-----------------------------------------------------------------------------
(* The loop: routes are registered and released. *)

\* What is known of the command that the loop takes.
LEMMA HeadFacts ==
  ASSUME SInv, queue # <<>>, phase = "run", Head(queue).op \in {"acquire", "release"}
  PROVE  LET u == Head(queue).by  q == Head(queue).port
         IN  /\ u \in Users /\ q \in Ports /\ q \in Wanted(u)
             /\ cur[u] = q /\ reply[u] = None
             /\ pc[u] = IF Head(queue).op = "acquire" THEN "acquiring" ELSE "releasing"
             /\ Domain(u) \in Domains /\ Proto(u, q) \in Protocols
             /\ Head(queue).op = "release" => q \in Reg(u) /\ q \notin held[u]
<1> USE DEF SInv
<1> DEFINE c == Head(queue)  u == c.by  q == c.port
<1>1. CmdOK(c)
  BY DEF QueueOK, TypeOK
<1>2. /\ u \in Users /\ cur[u] = q /\ reply[u] = None
      /\ pc[u] = IF c.op = "acquire" THEN "acquiring" ELSE "releasing"
  BY <1>1 DEF CmdOK
<1> HIDE DEF c
<1>3. q \in Wanted(u) /\ q \in Ports
  BY <1>2 DEF UserOK, Wanted, c
<1>4. Domain(u) \in Domains /\ Proto(u, q) \in Protocols
  BY <1>2, <1>3, ConfigFacts DEF Wanted
<1>5. c.op = "release" => q \in Reg(u) /\ q \notin held[u]
  BY <1>2, <1>3 DEF UserOK, Reg
<1> QED BY <1>2, <1>3, <1>4, <1>5 DEF c

\* Once the command is answered, nothing of its sender is in the channel.
LEMMA AnswerQueue ==
  ASSUME SInv, queue # <<>>, queue' = Tail(queue),
         Head(queue).op \in {"acquire", "release"},
         \E r \in {"ok", "error"} : reply' = [reply EXCEPT ![Head(queue).by] = r],
         UNCHANGED <<pc, cur, certs>>,
         \/ UNCHANGED <<rt, gen, nextGen, certInFlight>>
         \/ nextGen' = nextGen + 1 /\ gen' = nextGen
  PROVE  QueueOK' /\ queue' \in Seq(Commands) /\ Len(queue') <= QueueCap
<1> USE DEF SInv
<1>1. nextGen \in Nat /\ \A g \in Gens : g \in Int
  BY BoundsType DEF TypeOK, Gens
<1>2. \A d \in Commands : CmdOK(d) /\ Apart(Head(queue), d) => CmdOK(d)'
  BY <1>1 DEF CmdOK, Apart, TypeOK
<1> QED BY <1>2, QueueTake

\* A route more, and a route less.
LEMMA PairAdded ==
  ASSUME TypeOK, NEW q \in Ports, NEW d \in Domains, d \notin who[q],
         who' = [who EXCEPT ![q] = @ \cup {d}]
  PROVE  Cardinality(Pairs') = Cardinality(Pairs) + 1
<1>1. IsFiniteSet(Pairs)
  BY PairsFinite DEF TypeOK, Pairs
<1>2. Pairs' = Pairs \cup {<<q, d>>} /\ <<q, d>> \notin Pairs
  BY DEF Pairs, TypeOK
<1> QED BY <1>1, <1>2, FS_AddElement

\* A domain that leaves a port makes one pair less.
LEMMA PairRemoved ==
  ASSUME TypeOK, NEW q \in Ports, NEW d \in Domains, d \in who[q],
         who' = [who EXCEPT ![q] = @ \ {d}]
  PROVE  Cardinality(Pairs') = Cardinality(Pairs) - 1
<1>1. IsFiniteSet(Pairs)
  BY PairsFinite DEF TypeOK, Pairs
<1>2. Pairs' = Pairs \ {<<q, d>>} /\ <<q, d>> \in Pairs
  BY DEF Pairs, TypeOK
<1> QED BY <1>1, <1>2, FS_RemoveElement

\* The loop handles a release.
LEMMA HandleReleaseStep ==
  ASSUME SInv, HandleRelease
  PROVE  SInv'
<1> USE DEF SInv
<1> DEFINE c == Head(queue)  u == c.by  q == c.port
<1>1. /\ queue # <<>> /\ queue' = Tail(queue) /\ phase = "run" /\ c.op = "release"
      /\ UNCHANGED <<config, done, phase, rt, gen, nextGen, subs, certInFlight, fired,
                     nodes, user, forward, fwReply, closer>>
      /\ reply' = [reply EXCEPT ![u] = "ok"]
      /\ timer' = IF state' = "idle" /\ rt' # "nil" THEN gen' ELSE -1
  BY DEF HandleRelease, Take, Reads, Set, Reschedule
<1>2. /\ state = "running" => /\ Unregister(u, q)
                              /\ state' = IF routeCount' <= 0 THEN "idle" ELSE state
  BY DEF HandleRelease
<1>3. /\ u \in Users /\ q \in Ports /\ q \in Reg(u) /\ q \notin held[u] /\ cur[u] = q
      /\ pc[u] = "releasing" /\ Domain(u) \in Domains /\ Proto(u, q) \in Protocols
  BY <1>1, HeadFacts
<1> HIDE DEF c
<1>4. Serving /\ Serving'
  BY <1>1 DEF Serving
<1>5. /\ use[q] = Mode(Proto(u, q)) /\ Domain(u) \in who[q]
      /\ use[q] \in {"tcp", "udp"} => who[q] = {Domain(u)}
      /\ \A v \in Users : q \in Reg(v) /\ Domain(u) = Domain(v) => u = v
  BY <1>3, <1>4 DEF RegOK
<1>6. state = "running"
  BY <1>3, <1>5, IdleEmpty DEF TypeOK
<1>7. Leaves(u, q) = {Domain(u)}
  <2>1. CASE Proto(u, q) \in {"https", "http"}
    <3>1. use[q] \in {"sni", "host"}
      BY <1>3, <1>5, <2>1, ModeFacts
    <3> QED BY <1>5, <2>1, <3>1 DEF Leaves
  <2>2. CASE Proto(u, q) = "tcp"
    <3>1. use[q] = "tcp"
      BY <1>3, <1>5, <2>2, ModeFacts
    <3> QED BY <1>5, <2>2, <3>1 DEF Leaves
  <2>3. CASE Proto(u, q) = "udp"
    <3>1. use[q] = "udp"
      BY <1>3, <1>5, <2>3, ModeFacts
    <3> QED BY <1>5, <2>3, <3>1 DEF Leaves
  <2> QED BY <1>3, <2>1, <2>2, <2>3 DEF Protocols
<1>8. /\ who' = [who EXCEPT ![q] = @ \ {Domain(u)}]
      /\ use' = IF who[q] = {Domain(u)} THEN [use EXCEPT ![q] = "free"] ELSE use
      /\ routeCount' = routeCount - 1
      /\ state' = IF routeCount' <= 0 THEN "idle" ELSE "running"
  BY <1>2, <1>6, <1>7 DEF Unregister, Set
<1>9. routeCount' = Cardinality(Pairs') /\ routeCount' \in Nat
  <2>1. routeCount' = Cardinality(Pairs')
    BY <1>3, <1>5, <1>8, PairRemoved DEF RoutesOK
  <2>2. who' \in [Ports -> SUBSET Domains]
    BY <1>8 DEF TypeOK
  <2> QED BY <2>1, <2>2, PairsFinite DEF Pairs
<1>10. QueueOK' /\ queue' \in Seq(Commands) /\ Len(queue') <= QueueCap
  <2>1. /\ Head(queue).op = "release" /\ reply' = [reply EXCEPT ![Head(queue).by] = "ok"]
        /\ UNCHANGED <<pc, cur, certs>> /\ UNCHANGED <<rt, gen, nextGen, certInFlight>>
    BY <1>1 DEF user, nodes, c
  <2> QED BY <1>1, <2>1, AnswerQueue
<1>11. TypeOK'
  <2>1. use' \in [Ports -> {"free", "sni", "host", "tcp", "udp"}]
    <3>1. use' = [use EXCEPT ![q] = "free"] \/ use' = use
      BY <1>8
    <3>2. use \in [Ports -> {"free", "sni", "host", "tcp", "udp"}]
      BY DEF TypeOK
    <3>3. CASE use' = use
      BY <3>2, <3>3
    <3>4. CASE use' = [use EXCEPT ![q] = "free"]
      BY <3>2, <3>4
    <3> QED BY <3>1, <3>3, <3>4
  <2>2. who' \in [Ports -> SUBSET Domains] /\ routeCount' \in Int
    <3>1. who' = [who EXCEPT ![q] = @ \ {Domain(u)}]
      BY <1>8
    <3>2. who \in [Ports -> SUBSET Domains]
      BY DEF TypeOK
    <3>3. who' \in [Ports -> SUBSET Domains]
      BY <3>1, <3>2
    <3> QED BY <3>3, <1>9
  <2>3. state' \in {"idle", "running"} /\ timer' \in Gens \cup {-1}
    BY <1>1, <1>8 DEF TypeOK
  <2>4. reply' \in [Users -> {"ok", "error", None}]
    BY <1>1 DEF TypeOK
  <2> QED BY <1>1, <1>10, <2>1, <2>2, <2>3, <2>4 DEF TypeOK, nodes, user, forward
<1>12. UserOK' /\ CertsOK' /\ SubsOK'
  <2>1. UserOK'
    BY <1>1, <1>3 DEF UserOK, Wanted, Proto, user, TypeOK
  <2> QED BY <1>1, <2>1 DEF CertsOK, SubsOK, nodes, forward
<1>13. LoopOK'
  BY <1>1, <1>6, <1>8 DEF LoopOK, nodes
<1>14. \A p \in Ports : /\ who'[p] = IF p = q THEN who[p] \ {Domain(u)} ELSE who[p]
                        /\ who[p] \subseteq Domains
                        /\ use'[p] = IF p = q /\ who[q] = {Domain(u)} THEN "free" ELSE use[p]
  BY <1>3, <1>8, ZenonT(30) DEF TypeOK
<1>15. RoutesOK'
  <2>1. \A p \in Ports : use[p] = "free" <=> who[p] = {}
    BY DEF RoutesOK
  <2>2. ASSUME NEW p \in Ports PROVE use'[p] = "free" <=> who'[p] = {}
    <3>1. CASE p = q /\ who[q] = {Domain(u)}
      BY <1>14, <3>1
    <3>2. CASE p = q /\ who[q] # {Domain(u)}
      BY <1>5, <1>14, <2>1, <3>2
    <3>3. CASE p # q
      BY <1>14, <2>1, <3>3
    <3> QED BY <3>1, <3>2, <3>3
  <2> QED BY <1>1, <1>8, <1>9, <2>2 DEF RoutesOK
<1>16. \A v \in Users : Reg(v)' = IF v = u THEN Reg(u) \ {q} ELSE Reg(v)
  BY <1>1, <1>3, NoneFresh DEF Reg, user, TypeOK
<1>17. RegOK'
  <2>1. ASSUME NEW p \in Ports, NEW d \in who'[p]
        PROVE  \E v \in Users : p \in Reg(v)' /\ Domain(v) = d
    <3>1. PICK v \in Users : p \in Reg(v) /\ Domain(v) = d
      BY <1>14, <2>1 DEF RegOK
    <3>2. v = u => p # q
      BY <1>14, <2>1, <3>1
    <3> QED BY <1>16, <3>1, <3>2
  <2>2. ASSUME NEW v \in Users, NEW p \in Reg(v)'
        PROVE  /\ use'[p] = Mode(Proto(v, p)) /\ Domain(v) \in who'[p]
               /\ use'[p] \in {"tcp", "udp"} => who'[p] = {Domain(v)}
               /\ \A w \in Users : p \in Reg(w)' /\ Domain(v) = Domain(w) => v = w
    <3>1. p \in Reg(v) /\ p \in Ports /\ (v = u => p # q)
      BY <1>16, <2>2 DEF Reg, TypeOK
    <3>2. /\ use[p] = Mode(Proto(v, p)) /\ Domain(v) \in who[p]
          /\ use[p] \in {"tcp", "udp"} => who[p] = {Domain(v)}
          /\ \A w \in Users : p \in Reg(w) /\ Domain(v) = Domain(w) => v = w
      BY <1>4, <3>1 DEF RegOK
    <3>3. \A w \in Users : p \in Reg(w)' => p \in Reg(w)
      BY <1>16
    <3>4. CASE p = q
      <4>1. Domain(v) # Domain(u)
        BY <1>5, <3>1, <3>4
      <4>2. who[q] # {Domain(u)}
        BY <3>2, <3>4, <4>1
      <4> QED BY <1>5, <1>14, <3>1, <3>2, <3>3, <3>4, <4>1, <4>2
    <3>5. CASE p # q
      BY <1>14, <3>1, <3>2, <3>3, <3>5
    <3> QED BY <3>4, <3>5
  <2>3. UNCHANGED config
    BY <1>1
  <2> QED BY <2>1, <2>2, <2>3 DEF RegOK, Domain, Proto
<1> QED BY <1>10, <1>11, <1>12, <1>13, <1>15, <1>17

\* ensureRunning leaves a node that is up, the only one, whose generation is new
\* or the current one.
LEMMA EnsureRunningFacts ==
  ASSUME SInv, phase = "run", EnsureRunning
  PROVE  /\ rt' = "node" /\ gen' \in Gens /\ nextGen' \in 0 .. MaxGen
         /\ node' \in [Gens -> {"none", "up", "stopped"}]
         /\ bridge' \in [Gens -> {"none", "waiting", "sending", "done"}]
         /\ certInFlight' \in BOOLEAN /\ UNCHANGED certs
         /\ node'[gen'] = "up" /\ \A g \in Gens : node'[g] = "up" => g = gen'
         /\ CertsOK'
         /\ \/ UNCHANGED <<rt, gen, nextGen, certInFlight>>
            \/ nextGen' = nextGen + 1 /\ gen' = nextGen
<1> USE DEF SInv
<1>1. CASE state = "running" \/ rt = "node"
  <2>1. UNCHANGED <<rt, gen, nextGen, certInFlight, nodes>> /\ rt = "node"
    BY <1>1 DEF EnsureRunning, LoopOK
  <2> QED BY <2>1 DEF TypeOK, nodes, LoopOK, CertsOK
<1>2. CASE ~(state = "running" \/ rt = "node")
  <2>1. StartRuntime
    BY <1>2 DEF EnsureRunning
  <2>2. Starts[config] \in 1 .. MaxGen /\ MaxGen \in Nat /\ nextGen \in Nat
    BY BoundsType, StartsType DEF TypeOK
  <2>3. nextGen \in Gens /\ nextGen + 1 \in 0 .. MaxGen /\ nextGen < nextGen + 1
    BY <2>1, <2>2 DEF StartRuntime, Gens
  <2>4. /\ rt' = "node" /\ gen' = nextGen /\ nextGen' = nextGen + 1
        /\ node' = [node EXCEPT ![nextGen] = "up"]
        /\ bridge' = [bridge EXCEPT ![nextGen] = "waiting"]
        /\ certInFlight' = FALSE /\ UNCHANGED certs
    BY <2>1 DEF StartRuntime, Set
  <2>5. CertsOK'
    <3>1. \A g \in Gens : g \in Nat
      BY <2>2 DEF Gens
    <3> QED BY <2>2, <2>3, <2>4, <3>1 DEF CertsOK
  <2>6. \A g \in Gens : node[g] # "up"
    BY <1>2 DEF LoopOK
  <2> QED BY <2>3, <2>4, <2>5, <2>6, ZenonT(30) DEF TypeOK
<1> QED BY <1>1, <1>2

\* The loop handles an acquire.
LEMMA HandleAcquireStep ==
  ASSUME SInv, HandleAcquire
  PROVE  SInv'
<1> USE DEF SInv
<1> DEFINE c == Head(queue)  u == c.by  q == c.port
<1>1. /\ queue # <<>> /\ queue' = Tail(queue) /\ phase = "run" /\ c.op = "acquire"
      /\ UNCHANGED <<config, done, phase, subs, fired, user, forward, fwReply, closer>>
      /\ timer' = IF state' = "idle" /\ rt' # "nil" THEN gen' ELSE -1
  BY DEF HandleAcquire, Take, Reads, Reschedule
<1>2. \/ /\ state = "idle" /\ reply' = [reply EXCEPT ![u] = "error"]
         /\ UNCHANGED <<state, rt, gen, nextGen, certInFlight, nodes, routes>>
      \/ EnsureRunning /\ Register(u, q)
      \/ EnsureRunning /\ Refuse(u, q)
  BY DEF HandleAcquire, Set
<1>3. /\ u \in Users /\ q \in Ports /\ cur[u] = q /\ q \in Wanted(u)
      /\ pc[u] = "acquiring" /\ reply[u] = None
      /\ Domain(u) \in Domains /\ Proto(u, q) \in Protocols
  BY <1>1, HeadFacts
<1> HIDE DEF c
<1>4. Serving /\ Serving'
  BY <1>1 DEF Serving
<1>5. UserOK' /\ SubsOK'
  <2>1. \E r \in {"ok", "error"} : reply' = [reply EXCEPT ![u] = r]
    BY <1>2 DEF Register, Refuse, Set
  <2>2. UserOK'
    BY <1>1, <1>3, <2>1 DEF UserOK, Wanted, Proto, user, TypeOK
  <2> QED BY <1>1, <2>2 DEF SubsOK, forward
<1>6. CASE /\ state = "idle" /\ reply' = [reply EXCEPT ![u] = "error"]
           /\ UNCHANGED <<state, rt, gen, nextGen, certInFlight, nodes, routes>>
  <2>1. QueueOK' /\ queue' \in Seq(Commands) /\ Len(queue') <= QueueCap
    <3>1. /\ Head(queue).op = "acquire" /\ reply' = [reply EXCEPT ![Head(queue).by] = "error"]
          /\ UNCHANGED <<pc, cur, certs>> /\ UNCHANGED <<rt, gen, nextGen, certInFlight>>
      BY <1>1, <1>6 DEF user, nodes, c
    <3> QED BY <1>1, <3>1, AnswerQueue
  <2>2. TypeOK'
    <3>1. timer' \in Gens \cup {-1} /\ reply' \in [Users -> {"ok", "error", None}]
      BY <1>1, <1>6 DEF TypeOK
    <3> QED BY <1>1, <1>6, <2>1, <3>1 DEF TypeOK, routes, nodes, user, forward
  <2>3. LoopOK' /\ CertsOK'
    BY <1>1, <1>6 DEF LoopOK, CertsOK, nodes
  <2>4. \A v \in Users : Reg(v)' = Reg(v)
    BY <1>1, <1>3, <1>6, NoneFresh DEF Reg, user, TypeOK
  <2>5. RoutesOK' /\ RegOK'
    BY <1>1, <1>6, <2>4, RoutesKept DEF routes
  <2> QED BY <1>5, <2>1, <2>2, <2>3, <2>5
<1>7. CASE EnsureRunning /\ Refuse(u, q)
  <2>1. /\ UNCHANGED routes /\ reply' = [reply EXCEPT ![u] = "error"]
        /\ state' = IF routeCount <= 0 THEN "idle" ELSE "running"
    BY <1>7 DEF Refuse, Set
  <2>2. state' = state
    BY <2>1 DEF RoutesOK, TypeOK
  <2>3. QueueOK' /\ queue' \in Seq(Commands) /\ Len(queue') <= QueueCap
    <3>1. /\ Head(queue).op = "acquire" /\ reply' = [reply EXCEPT ![Head(queue).by] = "error"]
          /\ UNCHANGED <<pc, cur>>
      BY <1>1, <2>1 DEF user, c
    <3>2. /\ UNCHANGED certs
          /\ \/ UNCHANGED <<rt, gen, nextGen, certInFlight>>
             \/ nextGen' = nextGen + 1 /\ gen' = nextGen
      BY <1>1, <1>7, EnsureRunningFacts
    <3> QED BY <1>1, <3>1, <3>2, AnswerQueue
  <2>4. TypeOK'
    <3>1. timer' \in Gens \cup {-1} /\ reply' \in [Users -> {"ok", "error", None}]
      BY <1>1, <1>7, <2>1, EnsureRunningFacts DEF TypeOK
    <3> QED BY <1>1, <1>7, <2>1, <2>2, <2>3, <3>1, EnsureRunningFacts, SMTT(30)
            DEF TypeOK, routes, user, forward
  <2>5. LoopOK'
    <3>1. /\ rt' = "node" /\ node'[gen'] = "up"
          /\ \A g \in Gens : node'[g] = "up" => g = gen'
      BY <1>1, <1>7, EnsureRunningFacts
    <3> QED BY <1>1, <2>2, <3>1 DEF LoopOK
  <2>6. \A v \in Users : Reg(v)' = Reg(v)
    BY <1>1, <1>3, <2>1, NoneFresh DEF Reg, user, TypeOK
  <2>7. RoutesOK' /\ RegOK'
    BY <1>1, <2>1, <2>2, <2>6, RoutesKept DEF routes
  <2>8. CertsOK'
    BY <1>1, <1>7, EnsureRunningFacts
  <2> QED BY <1>5, <2>3, <2>4, <2>5, <2>7, <2>8
<1>8. CASE EnsureRunning /\ Register(u, q)
  <2>1. /\ Accepts(u, q) /\ use' = [use EXCEPT ![q] = Mode(Proto(u, q))]
        /\ who' = [who EXCEPT ![q] = @ \cup {Domain(u)}]
        /\ routeCount' = routeCount + 1 /\ state' = "running"
        /\ reply' = [reply EXCEPT ![u] = "ok"]
    BY <1>8 DEF Register, Set
  <2>2. /\ Mode(Proto(u, q)) \in {"sni", "host", "tcp", "udp"}
        /\ Domain(u) \notin who[q] /\ q \notin Reg(u)
        /\ \/ use[q] = "free" /\ who[q] = {}
           \/ use[q] = Mode(Proto(u, q)) /\ use[q] \in {"sni", "host"}
    <3>1. /\ Mode(Proto(u, q)) \in {"sni", "host", "tcp", "udp"}
          /\ Proto(u, q) \in {"https", "http"} => Mode(Proto(u, q)) \in {"sni", "host"}
      BY <1>3, ModeFacts
    <3>2. Domain(u) \notin who[q]
      BY <1>3, <2>1 DEF Accepts, RoutesOK
    <3>3. q \notin Reg(u)
      BY <1>3, <1>4, <3>2 DEF RegOK
    <3> QED BY <1>3, <2>1, <3>1, <3>2, <3>3 DEF Accepts, RoutesOK
  <2>3. QueueOK' /\ queue' \in Seq(Commands) /\ Len(queue') <= QueueCap
    <3>1. /\ Head(queue).op = "acquire" /\ reply' = [reply EXCEPT ![Head(queue).by] = "ok"]
          /\ UNCHANGED <<pc, cur>>
      BY <1>1, <2>1 DEF user, c
    <3>2. /\ UNCHANGED certs
          /\ \/ UNCHANGED <<rt, gen, nextGen, certInFlight>>
             \/ nextGen' = nextGen + 1 /\ gen' = nextGen
      BY <1>1, <1>8, EnsureRunningFacts
    <3> QED BY <1>1, <3>1, <3>2, AnswerQueue
  <2>4. TypeOK'
    <3>1. /\ use' \in [Ports -> {"free", "sni", "host", "tcp", "udp"}]
          /\ who' \in [Ports -> SUBSET Domains] /\ routeCount' \in Int
          /\ reply' \in [Users -> {"ok", "error", None}]
          /\ timer' \in Gens \cup {-1}
      BY <1>1, <1>3, <2>1, <2>2 DEF TypeOK
    <3> QED BY <1>1, <1>8, <2>1, <2>3, <3>1, EnsureRunningFacts, SMTT(30)
      DEF TypeOK, user, forward
  <2>5. LoopOK' /\ CertsOK'
    <3>1. /\ rt' = "node" /\ node'[gen'] = "up" /\ CertsOK'
          /\ \A g \in Gens : node'[g] = "up" => g = gen'
      BY <1>1, <1>8, EnsureRunningFacts
    <3> QED BY <1>1, <2>1, <3>1 DEF LoopOK
  <2>6. \A p \in Ports :
          /\ who'[p] = IF p = q THEN who[p] \cup {Domain(u)} ELSE who[p]
          /\ use'[p] = IF p = q THEN Mode(Proto(u, q)) ELSE use[p]
    BY <1>3, <2>1, ZenonT(30) DEF TypeOK
  <2>7. RoutesOK'
    <3>1. routeCount' = Cardinality(Pairs') /\ routeCount' > 0
      <4>1. routeCount' = Cardinality(Pairs')
        BY <1>3, <2>1, <2>2, PairAdded DEF RoutesOK
      <4>2. routeCount \in Nat
        BY PairsFinite DEF RoutesOK, TypeOK, Pairs
      <4> QED BY <2>1, <4>1, <4>2
    <3>2. \A p \in Ports : use'[p] = "free" <=> who'[p] = {}
      BY <2>2, <2>6 DEF RoutesOK
    <3> QED BY <1>1, <2>1, <3>1, <3>2 DEF RoutesOK
  <2>8. \A v \in Users : Reg(v)' = IF v = u THEN Reg(u) \cup {q} ELSE Reg(v)
    BY <1>1, <1>3, <2>1, NoneFresh DEF Reg, user, TypeOK
  <2>9. RegOK'
    <3>1. ASSUME NEW p \in Ports, NEW d \in who'[p]
          PROVE  \E v \in Users : p \in Reg(v)' /\ Domain(v) = d
      <4>1. CASE p = q /\ d = Domain(u)
        BY <1>3, <2>8, <4>1
      <4>2. CASE d \in who[p]
        BY <2>8, <4>2 DEF RegOK
      <4> QED BY <2>6, <3>1, <4>1, <4>2
    <3>2. ASSUME NEW v \in Users, NEW p \in Reg(v)'
          PROVE  /\ use'[p] = Mode(Proto(v, p)) /\ Domain(v) \in who'[p]
                 /\ use'[p] \in {"tcp", "udp"} => who'[p] = {Domain(v)}
                 /\ \A w \in Users : p \in Reg(w)' /\ Domain(v) = Domain(w) => v = w
      <4>1. p \in Ports /\ (p \in Reg(v) \/ (v = u /\ p = q))
        BY <1>3, <2>8, <3>2 DEF Reg, TypeOK
      <4>2. ASSUME NEW w \in Users, p \in Reg(w)
            PROVE  /\ use[p] = Mode(Proto(w, p)) /\ Domain(w) \in who[p]
                   /\ use[p] \in {"tcp", "udp"} => who[p] = {Domain(w)}
                   /\ \A x \in Users : p \in Reg(x) /\ Domain(w) = Domain(x) => w = x
        BY <1>4, <4>2 DEF RegOK
      <4>3. CASE p # q
        <5>1. p \in Reg(v) /\ \A w \in Users : p \in Reg(w)' => p \in Reg(w)
          BY <2>8, <4>1, <4>3
        <5> QED BY <2>6, <4>1, <4>2, <4>3, <5>1
      <4>4. CASE p = q /\ v = u
        <5>1. \A w \in Users : p \in Reg(w)' /\ w # u => Domain(w) # Domain(u)
          BY <2>2, <2>8, <4>2, <4>4
        <5> QED BY <1>3, <2>2, <2>6, <4>4, <5>1
      <4>5. CASE p = q /\ v # u
        <5>1. p \in Reg(v)
          BY <4>1, <4>5
        <5>2. /\ use[p] = Mode(Proto(v, p)) /\ Domain(v) \in who[p] /\ Domain(v) # Domain(u)
              /\ use[p] = Mode(Proto(u, q)) /\ use[p] \in {"sni", "host"}
          BY <2>2, <4>2, <4>5, <5>1
        <5>3. \A w \in Users : p \in Reg(w)' /\ w # u => p \in Reg(w)
          BY <2>8
        <5> QED BY <2>6, <4>1, <4>2, <4>5, <5>1, <5>2, <5>3
      <4> QED BY <4>3, <4>4, <4>5
    <3>3. UNCHANGED config
      BY <1>1
    <3> QED BY <3>1, <3>2, <3>3 DEF RegOK, Domain, Proto
  <2> QED BY <1>5, <2>3, <2>4, <2>5, <2>7, <2>9
<1> QED BY <1>2, <1>6, <1>7, <1>8

-----------------------------------------------------------------------------
\* The invariant holds of a new server.
LEMMA InitSInv == Init => SInv
<1>1. SUFFICES ASSUME Init PROVE SInv
  OBVIOUS
<1> USE <1>1 DEF Init
<1>2. TypeOK
  <2>1. 0 \in Gens /\ 0 \in 0 .. MaxGen
    BY BoundsType DEF Gens
  <2>2. queue \in Seq(Commands) /\ Len(queue) <= QueueCap
    BY BoundsType
  <2>3. \A u \in Users : {q \in Ports : config[u].proto[q] # None} \in SUBSET Ports
    OBVIOUS
  <2>4. todo \in [Users -> SUBSET Ports] /\ held \in [Users -> SUBSET Ports]
    BY <2>3
  <2>5. inbox \in [Users -> BOOLEAN] /\ done \in BOOLEAN /\ certInFlight \in BOOLEAN
    OBVIOUS
  <2>6. /\ who \in [Ports -> SUBSET Domains] /\ routeCount \in Int /\ subs \subseteq Users
        /\ fired \in [Gens -> Nat] /\ certs \in [Gens -> Nat]
    OBVIOUS
  <2> QED BY <2>1, <2>2, <2>4, <2>5, <2>6 DEF TypeOK
<1>3. UserOK /\ QueueOK
  BY DEF UserOK, QueueOK, Wanted, Proto
<1>4. LoopOK /\ CertsOK /\ SubsOK
  BY DEF LoopOK, CertsOK, SubsOK
<1>5. RoutesOK
  <2>1. Pairs = {}
    BY DEF Pairs
  <2> QED BY <2>1, FS_EmptySet DEF RoutesOK
<1>6. RegOK
  BY DEF RegOK, Reg
<1> QED BY <1>2, <1>3, <1>4, <1>5, <1>6 DEF SInv

\* Every step keeps it.
LEMMA NextSInv == SInv /\ [Next]_vars => SInv'
<1>1. SUFFICES ASSUME SInv, [Next]_vars PROVE SInv'
  OBVIOUS
<1>2. CASE UNCHANGED vars
  <2> USE DEF SInv, vars, loopVars, routes, nodes, user, forward
  <2>1. TypeOK' /\ CertsOK'
    BY <1>1, <1>2 DEF TypeOK, CertsOK
  <2>2. QueueOK'
    BY <1>1, <1>2, QueueKept DEF CmdOK
  <2> QED BY <1>1, <1>2, <2>1, <2>2, SideFrame DEF LoopOK
<1>3. ASSUME NEW u \in Users, UserStep(u) \/ StartFails(u) \/ CloseUser(u) PROVE SInv'
  BY <1>1, <1>3, AcquireStep, ReleaseStep, AnsweredStep, UserElseStep DEF UserStep
<1>4. ASSUME NEW u \in Users, Forwarder(u) PROVE SInv'
  BY <1>1, <1>4, ForwarderStep
<1>5. ASSUME NEW g \in Gens, Producer(g) PROVE SInv'
  BY <1>1, <1>5, BridgeStep, CertDoneStep DEF Producer
<1>6. CASE TimerFires \/ CloseServer
  BY <1>1, <1>6, TimerFiresStep, CloseServerStep
<1>7. CASE Loop
  BY <1>1, <1>7, HandleAcquireStep, HandleReleaseStep, HandleIdleStep, HandleCloseStep,
     StopEndsStep, HandleWatchStep, HandleCertStep, HandleSubscriptionStep DEF Loop
<1> QED BY <1>1, <1>2, <1>3, <1>4, <1>5, <1>6, <1>7 DEF Next

\* The invariant of the shared server.
LEMMA SInvariance == Spec => []SInv
BY InitSInv, NextSInv, PTL DEF Spec

\* A proxy is served on every port it holds until the server is closed: no idle
\* timer, failed acquire or release of another proxy, however late the loop
\* reads its command, takes its listener away.
THEOREM HeldServed == Spec => []HeldIsServed
<1>1. SInv => HeldIsServed
  <2> SUFFICES ASSUME SInv, Serving, NEW u \in Users, NEW q \in held[u]
               PROVE  /\ rt = "node" /\ node[gen] = "up" /\ state = "running"
                      /\ use[q] = Mode(Proto(u, q))
                      /\ Domain(u) \in who[q]
    BY DEF HeldIsServed
  <2> USE DEF SInv
  <2>1. q \in Reg(u) /\ q \in Ports
    BY DEF Reg, TypeOK
  <2>2. use[q] = Mode(Proto(u, q)) /\ Domain(u) \in who[q]
    BY <2>1 DEF RegOK
  <2>3. state = "running"
    BY <2>1, <2>2, IdleEmpty DEF TypeOK
  <2> QED BY <2>2, <2>3 DEF LoopOK
<1> QED BY <1>1, SInvariance, PTL

\* A registered domain belongs to a proxy that holds its port, or has asked for
\* it or given it back: a failed start, a rollback or a reply that is never
\* read leaves no route behind.
THEOREM RoutesOwned == Spec => []NoLeakedRoute
<1>1. SInv => NoLeakedRoute
  BY DEF SInv, RegOK, Reg, NoLeakedRoute
<1> QED BY <1>1, SInvariance, PTL

\* The count that decides between idle and running is the number of routes; one
\* node is up at a time and none after Close; a node has one certificate fetch
\* at a time; and the loop sends on no subscription it has closed.
THEOREM ServerIsSound == Spec => []ServerSound
<1>1. SInv => ServerSound
  <2> SUFFICES ASSUME SInv PROVE ServerSound
    OBVIOUS
  <2> USE DEF SInv
  <2>1. RoutesCounted
    BY DEF RoutesCounted, RoutesOK, Pairs
  <2>2. \A g \in Gens : node[g] = "up" => g = gen /\ rt = "node" /\ ~done
    BY DEF LoopOK
  <2> QED BY <2>1, <2>2 DEF ServerSound, CertsOK, SubsOK
<1> QED BY <1>1, SInvariance, PTL
=============================================================================
