------------------------- MODULE ServicesServerProofs -------------------------
(***************************************************************************)
(* What the node of services mode promises its proxies, for any proxies,   *)
(* ports, configurations, number of restarts and capacity of the command   *)
(* channel.                                                                *)
(*                                                                         *)
(* The work of an acquire or a release passes from a command through a job *)
(* to a result, while its proxy waits: at any time it is in one place, and *)
(* what it has done so far (the service created, the listener opened) is   *)
(* found there.  So the induction says of each place what it stands for    *)
(* (JobOK, CmdOK), that a proxy has one of them at most (Apart), and that  *)
(* every listener and every unit of pendingCount belongs to one.           *)
(***************************************************************************)
EXTENDS ServicesServer, FiniteSetTheorems, SequenceTheorems, TLAPS

Results == {"acquired", "released"}
WorkOps == {"acquire", "release"} \cup Results

Commands == [op : WorkOps \cup {"subscribe", "unsubscribe", "watch", "close"},
             by : Users \cup {None}, port : Ports \cup {None},
             gen : Gens \cup {-1}, result : {None, "ok", "error"}]

Proxies == [pc : {"new", "acquire", "acquiring", "up", "release", "releasing",
                  "join", "closed"},
            todo : SUBSET Ports, cur : Ports \cup {None}, held : SUBSET Ports,
            reply : {None, "ok", "error"}, stopCh : {"nil", "open", "closed"}]

Workers == [pc : {"none", "create", "listen", "approve", "wait", "rollback", "api", "send"},
            op : {None, "acquire", "release"}, port : Ports \cup {None},
            gen : Gens \cup {-1}, ports : SUBSET Ports, factory : BOOLEAN,
            relisten : BOOLEAN, result : {None, "ok", "error"}]

Forwarders == [pc : {"none", "subscribe", "subscribing", "loop", "select", "deaf",
                     "unsubscribe", "unsubscribing", "done"},
               reply : {None, "ok"}, ch : {"none", "open", "closed"}, inbox : BOOLEAN]

\* The runtime is there and jobs report to it; the loop will still read commands.
Serving == loop.phase \in {"run", "drain"}
Answering == loop.phase \in {"run", "drain", "idling"}

Jobs == {u \in Users : job[u].pc # "none"}
Reported(q) == {i \in 1 .. Len(q) : q[i].op \in Results}

\* A proxy that waits for the reply to its command, or to what has become of it.
Waits(u, op, q) ==
  /\ usr[u].pc = IF op \in {"acquire", "acquired"} THEN "acquiring" ELSE "releasing"
  /\ usr[u].cur = q /\ usr[u].reply = None

Phases == {"run", "drain", "idling", "closing", "exit"}
Loops == [phase : Phases, state : {"idle", "running"}, rt : {"nil", "subs", "node"},
          running : BOOLEAN, gen : Gens, nextGen : 0 .. MaxGen]

Typed ==
  /\ queue \in Seq(Commands) /\ Len(queue) <= QueueCap
  /\ usr \in [Users -> Proxies] /\ fwd \in [Users -> Forwarders]
  /\ job \in [Users -> Workers]
  /\ config \in Configs /\ loop \in Loops
  /\ listeners \subseteq Users \X Ports /\ fetched \subseteq Users \X Ports
  /\ skipped \subseteq Users \X Ports
  /\ refCount \in Int /\ pending \in Int
  /\ subs \subseteq Users /\ timer \in BOOLEAN
  /\ node \in [Gens -> {"none", "up", "stopped"}]
  /\ bridge \in [Gens -> {"none", "waiting", "done"}]
  /\ open \subseteq Users \X Ports \X Gens /\ vip \in [Users -> SUBSET Ports]
  /\ closer \in {"idle", "sent", "returned"} /\ crashed \in BOOLEAN

UserOK ==
  \A u \in Users :
    /\ usr[u].pc \in {"acquiring", "releasing"} => usr[u].cur \in Ports
    /\ usr[u].pc = "releasing" => usr[u].cur \notin usr[u].held

\* A job under way.
JobOK(u) ==
  LET j == job[u] IN
  /\ loop.rt # "nil" /\ j.gen = loop.gen /\ (j.factory <=> loop.rt = "node")
  /\ j.op \in {"acquire", "release"} /\ j.port \in Ports /\ Waits(u, j.op, j.port)
  /\ j.op = "release" => j.pc \in {"api", "send"} /\ j.result = None
  /\ <<u, j.port>> \notin listeners
  /\ collectExistingServicePorts(listeners, u) \subseteq j.ports
  /\ j.op = "acquire" => j.pc # "api" /\ j.port \in j.ports
  /\ j.pc \in {"listen", "approve", "wait"} \/ j.result = "ok" => j.port \in vip[u]
  /\ j.pc \in {"approve"} => j.result = "ok"
  /\ j.result = "ok" => /\ j.pc \in {"approve", "send"} /\ loop.rt = "node"
                        /\ Lis(u) \in open

JobsOK == Serving => \A u \in Jobs : JobOK(u)

\* A command in the channel.
CmdOK(c) ==
  /\ c.op \in WorkOps =>
       /\ c.by \in Users /\ c.port \in Ports /\ Waits(c.by, c.op, c.port)
       /\ job[c.by].pc = "none"
  /\ c.op = "release" => <<c.by, c.port>> \in listeners
  /\ c.op \in Results => /\ Serving /\ loop.rt # "nil" /\ c.gen = loop.gen
                         /\ <<c.by, c.port>> \notin listeners
  /\ c.op = "acquired" /\ c.result = "ok" =>
       /\ loop.rt = "node" /\ c.port \in vip[c.by] /\ <<c.by, c.port, c.gen>> \in open
  /\ c.op \in {"subscribe", "unsubscribe"} => c.by \in Users

Apart(c, d) == c.op \in WorkOps /\ d.op \in WorkOps => c.by # d.by

QueueOK ==
  Answering =>
    /\ \A i \in 1 .. Len(queue) : CmdOK(queue[i])
    /\ \A i, k \in 1 .. Len(queue) : i # k => Apart(queue[i], queue[k])

\* Whom an open listener belongs to.
Owned(o) ==
  /\ o[3] = loop.gen /\ loop.rt = "node"
  /\ \/ <<o[1], o[2]>> \in listeners
     \/ /\ job[o[1]].pc # "none" /\ job[o[1]].result = "ok" /\ job[o[1]].port = o[2]
     \/ \E i \in 1 .. Len(queue) : /\ queue[i].op = "acquired" /\ queue[i].result = "ok"
                                  /\ queue[i].by = o[1] /\ queue[i].port = o[2]

OpenOK == IF Serving THEN \A o \in open : Owned(o) ELSE open = {}

\* After the runtime is stopped a job can open nothing.
OrphansOK ==
  ~Serving => \A u \in Jobs : /\ loop.phase # "idling" /\ job[u].gen \in Gens
                              /\ job[u].factory => node[job[u].gen] = "stopped"

LoopOK ==
  /\ loop.phase \in {"drain", "idling", "closing"} => loop.rt # "nil"
  /\ loop.phase = "exit" => loop.rt = "nil"
  /\ loop.rt # "node" \/ ~Serving => listeners = {}
  /\ loop.rt = "nil" \/ ~Serving => loop.state = "idle"
  /\ Serving /\ loop.rt = "node" => node[loop.gen] = "up"
  /\ loop.phase = "run" => /\ loop.rt = "node" => loop.state = "running"
                           /\ loop.state = "running" <=> refCount > 0 \/ pending > 0
  /\ ~timer

CountOK ==
  /\ IsFiniteSet(listeners) /\ refCount = Cardinality(listeners)
  /\ IsFiniteSet(Jobs)
  /\ Answering => pending = Cardinality(Jobs) + Cardinality(Reported(queue))

\* What a proxy holds, or has been told it holds, is registered; and what is
\* registered is open and offered.
RegOK ==
  /\ Answering => \A u \in Users :
       /\ \A q \in usr[u].held : <<u, q>> \in listeners
       /\ usr[u].pc = "acquiring" /\ usr[u].reply = "ok" => <<u, usr[u].cur>> \in listeners
  /\ loop.phase = "run" => \A e \in listeners :
       <<e[1], e[2], loop.gen>> \in open /\ e[2] \in vip[e[1]]

VInv == /\ Typed /\ UserOK /\ JobsOK /\ QueueOK /\ OpenOK /\ OrphansOK /\ LoopOK
        /\ CountOK /\ RegOK /\ CertsAskedFor

-----------------------------------------------------------------------------
(* The command channel. *)

\* What follows from a command being sent.
LEMMA Appended ==
  ASSUME queue \in Seq(Commands), NEW c \in Commands, queue' = Append(queue, c)
  PROVE  /\ queue' \in Seq(Commands) /\ Len(queue') = Len(queue) + 1
         /\ \A i \in 1 .. Len(queue) : queue'[i] = queue[i] /\ queue[i] \in Commands
         /\ queue'[Len(queue) + 1] = c
         /\ \A i \in 1 .. Len(queue') : i \in 1 .. Len(queue) \/ i = Len(queue) + 1
BY AppendProperties

\* What follows from a command being read.
LEMMA Taken ==
  ASSUME queue \in Seq(Commands), queue # <<>>, queue' = Tail(queue)
  PROVE  /\ queue' \in Seq(Commands) /\ Len(queue') = Len(queue) - 1
         /\ Len(queue) \in Nat /\ 1 \in 1 .. Len(queue) /\ C = queue[1] /\ C \in Commands
         /\ \A i \in 1 .. Len(queue') : queue'[i] = queue[i + 1] /\ i + 1 \in 1 .. Len(queue)
         /\ \A i \in 1 .. Len(queue) : queue[i] \in Commands
BY HeadTailProperties DEF C

\* The results in the channel can be counted.
LEMMA ReportedFinite ==
  ASSUME NEW q \in Seq(Commands)
  PROVE  IsFiniteSet(Reported(q)) /\ Cardinality(Reported(q)) \in Nat
<1>1. Reported(q) \in SUBSET (1 .. Len(q)) /\ Len(q) \in Nat
  BY DEF Reported
<1>2. IsFiniteSet(1 .. Len(q))
  BY <1>1, FS_Interval
<1> QED BY <1>1, <1>2, FS_Subset, FS_CardinalityType

\* A command that is sent is counted when it is a result.
LEMMA ReportedAppended ==
  ASSUME queue \in Seq(Commands), NEW c \in Commands, queue' = Append(queue, c)
  PROVE  Cardinality(Reported(queue')) =
           Cardinality(Reported(queue)) + IF c.op \in Results THEN 1 ELSE 0
<1>1. Len(queue) \in Nat /\ Len(queue) + 1 \notin Reported(queue)
  BY DEF Reported
<1>2. CASE c.op \in Results
  <2>1. Reported(queue') = Reported(queue) \cup {Len(queue) + 1}
    BY <1>1, <1>2, Appended DEF Reported
  <2> QED BY <1>1, <1>2, <2>1, ReportedFinite, FS_AddElement
<1>3. CASE c.op \notin Results
  <2>1. Reported(queue') = Reported(queue)
    BY <1>1, <1>3, Appended DEF Reported
  <2> QED BY <1>3, <2>1, ReportedFinite
<1> QED BY <1>2, <1>3

\* A result that is read is no longer counted.
LEMMA ReportedTaken ==
  ASSUME queue \in Seq(Commands), queue # <<>>, queue' = Tail(queue)
  PROVE  Cardinality(Reported(queue')) =
           Cardinality(Reported(queue)) - IF C.op \in Results THEN 1 ELSE 0
<1> DEFINE S == Reported(queue')
           T == Reported(queue) \ {1}
           f == [i \in S |-> i + 1]
<1>1. /\ Len(queue) \in Nat /\ Len(queue') = Len(queue) - 1
      /\ C = queue[1] /\ 1 \in 1 .. Len(queue) /\ queue' \in Seq(Commands)
      /\ \A i \in 1 .. Len(queue') : queue'[i] = queue[i + 1] /\ i + 1 \in 1 .. Len(queue)
  BY Taken
<1>2. f \in Bijection(S, T)
  <2>1. \A i \in S : i \in Nat /\ i + 1 \in T
    BY <1>1 DEF Reported
  <2>2. f \in Injection(S, T)
    BY <2>1 DEF Injection, IsInjective
  <2>3. \A t \in T : \E i \in S : f[i] = t
    <3> SUFFICES ASSUME NEW t \in T PROVE \E i \in S : f[i] = t
      OBVIOUS
    <3>1. t \in 2 .. Len(queue) /\ queue[t].op \in Results
      BY <1>1 DEF Reported
    <3>2. t - 1 \in 1 .. Len(queue') /\ queue'[t - 1] = queue[t]
      BY <1>1, <3>1
    <3>3. t - 1 \in S
      BY <3>1, <3>2 DEF Reported
    <3> QED BY <3>1, <3>3
  <2> QED BY <2>2, <2>3 DEF Bijection, Injection, Surjection
<1>3. Cardinality(T) = Cardinality(S)
  <2>1. IsFiniteSet(S)
    BY <1>1, ReportedFinite
  <2> HIDE DEF S, T, f
  <2> QED BY <1>2, <2>1, FS_Bijection DEF ExistsBijection
<1>4. IsFiniteSet(Reported(queue)) /\ Cardinality(Reported(queue)) \in Nat
  BY ReportedFinite
<1>5. 1 \in Reported(queue) <=> C.op \in Results
  BY <1>1 DEF Reported
<1>6. Cardinality(T) = IF 1 \in Reported(queue) THEN Cardinality(Reported(queue)) - 1
                       ELSE Cardinality(Reported(queue))
  BY <1>4, FS_RemoveElement
<1> QED BY <1>3, <1>4, <1>5, <1>6

\* A command is sent that finds its proxy waiting and is the only one of it.
LEMMA QueueSent ==
  ASSUME queue \in Seq(Commands), QueueOK, NEW c \in Commands, queue' = Append(queue, c),
         Answering' => Answering,
         Answering => CmdOK(c)' /\ \A i \in 1 .. Len(queue) : Apart(queue[i], c),
         Answering => \A d \in Commands : CmdOK(d) => CmdOK(d)'
  PROVE  QueueOK'
<1> SUFFICES ASSUME Answering'
             PROVE  /\ \A i \in 1 .. Len(queue') : CmdOK(queue[i])'
                    /\ \A i, k \in 1 .. Len(queue') : i # k => Apart(queue'[i], queue'[k])
  BY DEF QueueOK, Apart
<1>1. /\ queue' \in Seq(Commands) /\ Len(queue') = Len(queue) + 1
      /\ \A i \in 1 .. Len(queue) : queue'[i] = queue[i] /\ queue[i] \in Commands
      /\ queue'[Len(queue) + 1] = c
      /\ \A i \in 1 .. Len(queue') : i \in 1 .. Len(queue) \/ i = Len(queue) + 1
  BY Appended
<1>2. /\ \A i \in 1 .. Len(queue) : CmdOK(queue[i])
      /\ \A i, k \in 1 .. Len(queue) : i # k => Apart(queue[i], queue[k])
  BY DEF QueueOK
<1>3. ASSUME NEW i \in 1 .. Len(queue') PROVE CmdOK(queue[i])'
  <2>1. CASE i \in 1 .. Len(queue)
    <3>1. PICK d \in Commands : d = queue[i]
      BY <1>1, <2>1
    <3>2. CmdOK(d)'
      BY <1>2, <2>1, <3>1
    <3>3. queue'[i] = d
      BY <1>1, <2>1, <3>1
    <3> QED BY <3>2, <3>3 DEF CmdOK
  <2>2. CASE i = Len(queue) + 1
    BY <1>1, <2>2 DEF CmdOK
  <2> QED BY <1>1, <2>1, <2>2
<1>4. ASSUME NEW i \in 1 .. Len(queue'), NEW k \in 1 .. Len(queue'), i # k
      PROVE  Apart(queue'[i], queue'[k])
  <2>1. CASE i \in 1 .. Len(queue) /\ k \in 1 .. Len(queue)
    BY <1>1, <1>2, <1>4, <2>1
  <2>2. CASE i = Len(queue) + 1
    BY <1>1, <1>4, <2>2 DEF Apart
  <2>3. CASE k = Len(queue) + 1
    BY <1>1, <1>4, <2>3 DEF Apart
  <2> QED BY <1>1, <2>1, <2>2, <2>3
<1> QED BY <1>3, <1>4

\* A command is read, and the others stay as they should be.
LEMMA QueueTaken ==
  ASSUME queue \in Seq(Commands), QueueOK, queue # <<>>, queue' = Tail(queue), Answering,
         Answering' => \A i \in 1 .. Len(queue'), d \in Commands :
                         d = queue'[i] /\ CmdOK(d) /\ Apart(C, d) => CmdOK(d)'
  PROVE  QueueOK'
<1> SUFFICES ASSUME Answering'
             PROVE  /\ \A i \in 1 .. Len(queue') : CmdOK(queue[i])'
                    /\ \A i, k \in 1 .. Len(queue') : i # k => Apart(queue'[i], queue'[k])
  BY DEF QueueOK, Apart
<1>1. /\ Len(queue) \in Nat /\ 1 \in 1 .. Len(queue) /\ C = queue[1]
      /\ Len(queue') = Len(queue) - 1
      /\ \A i \in 1 .. Len(queue') : queue'[i] = queue[i + 1] /\ i + 1 \in 1 .. Len(queue)
      /\ \A i \in 1 .. Len(queue) : queue[i] \in Commands
  BY Taken
<1>2. /\ \A i \in 1 .. Len(queue) : CmdOK(queue[i])
      /\ \A i, k \in 1 .. Len(queue) : i # k => Apart(queue[i], queue[k])
  BY DEF QueueOK
<1>3. ASSUME NEW i \in 1 .. Len(queue') PROVE CmdOK(queue[i])'
  <2>1. PICK d \in Commands : d = queue[i + 1]
    BY <1>1
  <2>2. CmdOK(d) /\ Apart(C, d)
    BY <1>1, <1>2, <2>1
  <2>3. CmdOK(d)' /\ queue'[i] = d
    BY <1>1, <2>1, <2>2
  <2> QED BY <2>3 DEF CmdOK
<1>4. \A i, k \in 1 .. Len(queue') : i # k => Apart(queue'[i], queue'[k])
  BY <1>1, <1>2
<1> QED BY <1>3, <1>4

\* Nothing is sent or read.
LEMMA QueueKept ==
  ASSUME queue \in Seq(Commands), QueueOK, queue' = queue, Answering' => Answering,
         Answering' => \A d \in Commands : CmdOK(d) => CmdOK(d)'
  PROVE  QueueOK'
<1> SUFFICES ASSUME Answering', NEW i \in 1 .. Len(queue) PROVE CmdOK(queue[i])'
  BY DEF QueueOK, Apart
<1>1. PICK d \in Commands : d = queue[i]
  OBVIOUS
<1>2. CmdOK(d)'
  BY <1>1 DEF QueueOK
<1> QED BY <1>1, <1>2 DEF CmdOK

-----------------------------------------------------------------------------
(* Steps of the proxies, their forwarders, the bridge and Close. *)

\* A proxy that waits for no reply has neither a job nor a command that works for it.
Free(u) == usr[u].pc \notin {"acquiring", "releasing"} \/ usr[u].reply # None

\* A step outside the loop and the jobs: a proxy whose work is under way keeps
\* waiting, and what it sends is no result.
LEMMA OutsideStep ==
  ASSUME VInv, Typed', UserOK',
         UNCHANGED <<loop, runtime, timer, node, tailnet, job>>,
         \/ queue' = queue
         \/ \E c \in Commands : /\ queue' = Append(queue, c) /\ c.op \notin Results
                                /\ Answering => /\ CmdOK(c)'
                                                /\ \A i \in 1 .. Len(queue) : Apart(queue[i], c),
         Answering => \A v \in Users : usr'[v] = usr[v] \/ Free(v),
         Answering => \A v \in Users :
           /\ \A q \in usr'[v].held : <<v, q>> \in listeners
           /\ usr'[v].pc = "acquiring" /\ usr'[v].reply = "ok" => <<v, usr'[v].cur>> \in listeners
  PROVE  VInv'
<1> USE DEF VInv
<1>1. /\ Serving' = Serving /\ Answering' = Answering /\ Jobs' = Jobs
      /\ queue \in Seq(Commands) /\ (Serving => Answering)
  BY DEF Serving, Answering, Jobs, Typed
<1>2. JobsOK'
  <2> SUFFICES ASSUME Serving, NEW u \in Jobs PROVE JobOK(u)'
    BY <1>1 DEF JobsOK
  <2>1. JobOK(u) /\ u \in Users
    BY DEF JobsOK, Jobs
  <2>2. usr'[u] = usr[u]
    BY <1>1, <2>1 DEF JobOK, Waits, Free
  <2> QED BY <2>1, <2>2 DEF JobOK, Waits, Lis, runtime, tailnet, collectExistingServicePorts
<1>3. Answering => \A d \in Commands : CmdOK(d) => CmdOK(d)'
  <2> SUFFICES ASSUME Answering, NEW d \in Commands, CmdOK(d) PROVE CmdOK(d)'
    OBVIOUS
  <2>1. d.op \in WorkOps => usr'[d.by] = usr[d.by]
    BY DEF CmdOK, Waits, Free
  <2> QED BY <1>1, <2>1 DEF CmdOK, Waits, runtime, tailnet
<1>4. QueueOK'
  BY <1>1, <1>3, QueueKept, QueueSent
<1>5. OpenOK'
  <2>1. CASE ~Serving
    BY <1>1, <2>1 DEF OpenOK, tailnet
  <2>2. CASE Serving
    <3> SUFFICES ASSUME NEW o \in open PROVE Owned(o)'
      BY <1>1, <2>2 DEF OpenOK, tailnet
    <3>1. Owned(o)
      BY <2>2 DEF OpenOK
    <3>2. \A i \in 1 .. Len(queue) : i \in 1 .. Len(queue') /\ queue'[i] = queue[i]
      <4>1. CASE queue' = queue
        BY <4>1
      <4>2. ASSUME NEW c \in Commands, queue' = Append(queue, c)
            PROVE  \A i \in 1 .. Len(queue) : i \in 1 .. Len(queue') /\ queue'[i] = queue[i]
        BY <1>1, <4>2, Appended
      <4> QED BY <4>1, <4>2
    <3> QED BY <3>1, <3>2 DEF Owned, runtime
  <2> QED BY <2>1, <2>2
<1>6. OrphansOK' /\ LoopOK'
  BY <1>1 DEF OrphansOK, LoopOK, runtime
<1>7. CountOK'
  <2>1. Cardinality(Reported(queue')) = Cardinality(Reported(queue))
    <3>1. CASE queue' = queue
      BY <3>1
    <3>2. ASSUME NEW c \in Commands, queue' = Append(queue, c), c.op \notin Results
          PROVE  Cardinality(Reported(queue')) = Cardinality(Reported(queue))
      BY <1>1, <3>2, ReportedAppended, ReportedFinite
    <3> QED BY <3>1, <3>2
  <2> QED BY <1>1, <2>1 DEF CountOK, runtime
<1>8. RegOK'
  BY <1>1 DEF RegOK, runtime, tailnet
<1>9. CertsAskedFor'
  BY DEF CertsAskedFor, runtime
<1> QED BY <1>2, <1>4, <1>5, <1>6, <1>7, <1>8, <1>9

\* A command that is sent fits into the channel.
LEMMA SentTyped ==
  ASSUME Typed, NEW c \in Commands, Send(c)
  PROVE  queue' \in Seq(Commands) /\ Len(queue') <= QueueCap /\ queue' = Append(queue, c)
<1>1. queue' = Append(queue, c) /\ queue \in Seq(Commands) /\ Len(queue) < QueueCap
  BY DEF Send, Typed
<1>2. queue' \in Seq(Commands) /\ Len(queue') = Len(queue) + 1
  BY <1>1, Appended
<1> QED BY <1>1, <1>2, CapType

\* A command for the work of a proxy that waits for nothing stands alone.
LEMMA FreeApart ==
  ASSUME VInv, Answering, NEW u \in Users, Free(u), NEW c \in Commands, c.by = u
  PROVE  \A i \in 1 .. Len(queue) : Apart(queue[i], c)
BY DEF VInv, QueueOK, CmdOK, Waits, Free, Apart

\* Acquire of one port.
LEMMA AcquireStep ==
  ASSUME VInv, NEW u \in Users, NEW q \in Ports, Acquire(u, q)
  PROVE  VInv'
<1> USE DEF VInv
<1> DEFINE c == Cmd("acquire", u, q, -1)
<1>1. /\ usr[u].pc \in {"new", "acquire"} /\ q \in usr[u].todo /\ Send(c)
      /\ usr' = [usr EXCEPT ![u].pc = "acquiring", ![u].cur = q,
                            ![u].todo = @ \ {q}, ![u].reply = None]
      /\ UNCHANGED <<config, loop, runtime, timer, nodes, tailnet, job, closer, crashed, fwd>>
  BY DEF Acquire, UserOnly, Alive
<1>2. /\ c \in Commands /\ c.op = "acquire" /\ c.by = u /\ c.port = q
  BY DEF Commands, Cmd, WorkOps
<1> HIDE DEF c
<1>3. queue' \in Seq(Commands) /\ Len(queue') <= QueueCap /\ queue' = Append(queue, c)
  BY <1>1, <1>2, SentTyped
<1>4. usr[u] \in Proxies /\ usr \in [Users -> Proxies]
  BY DEF Typed
<1>5. /\ usr' \in [Users -> Proxies] /\ \A v \in Users : v # u => usr'[v] = usr[v]
      /\ usr'[u].pc = "acquiring" /\ usr'[u].cur = q /\ usr'[u].reply = None
      /\ usr'[u].held = usr[u].held
  BY <1>1, <1>4 DEF Proxies
<1>6. Typed'
  BY <1>1, <1>3, <1>5 DEF Typed, runtime, nodes, tailnet
<1>7. UserOK'
  BY <1>5 DEF UserOK
<1>8. Free(u)
  BY <1>1 DEF Free
<1>9. Answering => /\ CmdOK(c)' /\ \A i \in 1 .. Len(queue) : Apart(queue[i], c)
  <2> SUFFICES ASSUME Answering
               PROVE  CmdOK(c)' /\ \A i \in 1 .. Len(queue) : Apart(queue[i], c)
    OBVIOUS
  <2>1. job'[u].pc = "none"
    <3>1. u \in Jobs => Serving /\ JobOK(u)
      BY DEF OrphansOK, Serving, Answering, JobsOK
    <3> QED BY <1>1, <1>8, <3>1 DEF JobOK, Waits, Free, Jobs
  <2> QED BY <1>2, <1>5, <1>8, <2>1, FreeApart DEF CmdOK, Waits, Results
<1>10. Answering => \A v \in Users :
           /\ \A r \in usr'[v].held : <<v, r>> \in listeners
           /\ usr'[v].pc = "acquiring" /\ usr'[v].reply = "ok" => <<v, usr'[v].cur>> \in listeners
  BY <1>5, NoneFresh DEF RegOK
<1>11. Answering => \A v \in Users : usr'[v] = usr[v] \/ Free(v)
  BY <1>5, <1>8
<1> QED BY <1>1, <1>2, <1>3, <1>6, <1>7, <1>9, <1>10, <1>11, OutsideStep
       DEF runtime, nodes, Results

\* Release of one port.
LEMMA ReleaseStep ==
  ASSUME VInv, NEW u \in Users, NEW q \in Ports, Release(u, q)
  PROVE  VInv'
<1> USE DEF VInv
<1> DEFINE c == Cmd("release", u, q, -1)
<1>1. /\ usr[u].pc = "release" /\ q \in usr[u].held
      /\ UNCHANGED <<config, loop, runtime, timer, nodes, tailnet, job, closer, crashed, fwd>>
  BY DEF Release, UserOnly, Alive
<1>2. /\ c \in Commands /\ c.op = "release" /\ c.by = u /\ c.port = q
  BY DEF Commands, Cmd, WorkOps
<1>3. usr[u] \in Proxies /\ usr \in [Users -> Proxies]
  BY DEF Typed
<1>4. Free(u)
  BY <1>1 DEF Free
<1>5. CASE Send(c) /\ usr' = [usr EXCEPT ![u].pc = "releasing", ![u].cur = q,
                                         ![u].held = @ \ {q}, ![u].reply = None]
  <2> HIDE DEF c
  <2>1. queue' \in Seq(Commands) /\ Len(queue') <= QueueCap /\ queue' = Append(queue, c)
    BY <1>2, <1>5, SentTyped
  <2>2. /\ usr' \in [Users -> Proxies] /\ \A v \in Users : v # u => usr'[v] = usr[v]
        /\ usr'[u].pc = "releasing" /\ usr'[u].cur = q /\ usr'[u].reply = None
        /\ usr'[u].held = usr[u].held \ {q}
    BY <1>3, <1>5 DEF Proxies
  <2>3. Typed'
    BY <1>1, <2>1, <2>2 DEF Typed, runtime, nodes, tailnet
  <2>4. UserOK'
    BY <2>2 DEF UserOK
  <2>5. Answering => /\ CmdOK(c)' /\ \A i \in 1 .. Len(queue) : Apart(queue[i], c)
    <3> SUFFICES ASSUME Answering
                 PROVE  CmdOK(c)' /\ \A i \in 1 .. Len(queue) : Apart(queue[i], c)
      OBVIOUS
    <3>1. job'[u].pc = "none"
      <4>1. u \in Jobs => Serving /\ JobOK(u)
        BY DEF OrphansOK, Serving, Answering, JobsOK
      <4> QED BY <1>1, <1>4, <4>1 DEF JobOK, Waits, Free, Jobs
    <3>2. <<u, q>> \in listeners'
      BY <1>1 DEF RegOK, runtime
    <3> QED BY <1>2, <1>4, <2>2, <3>1, <3>2, FreeApart DEF CmdOK, Waits, Results
  <2>6. Answering => \A v \in Users :
             /\ \A r \in usr'[v].held : <<v, r>> \in listeners
             /\ usr'[v].pc = "acquiring" /\ usr'[v].reply = "ok" => <<v, usr'[v].cur>> \in listeners
    BY <2>2, NoneFresh DEF RegOK
  <2>7. Answering => \A v \in Users : usr'[v] = usr[v] \/ Free(v)
    BY <1>4, <2>2
  <2> QED BY <1>1, <1>2, <2>1, <2>3, <2>4, <2>5, <2>6, <2>7, OutsideStep
         DEF runtime, nodes, Results
<1>6. CASE Done /\ queue' = queue /\ usr' = [usr EXCEPT ![u].held = @ \ {q}]
  <2>2. /\ usr' \in [Users -> Proxies] /\ \A v \in Users : v # u => usr'[v] = usr[v]
        /\ usr'[u].pc = "release"
    BY <1>1, <1>3, <1>6 DEF Proxies
  <2>3. Typed'
    BY <1>1, <1>6, <2>2 DEF Typed, runtime, nodes, tailnet
  <2>4. UserOK'
    BY <2>2 DEF UserOK
  <2>5. ~Answering
    BY <1>6 DEF Done, Answering
  <2> QED BY <1>1, <1>6, <2>3, <2>4, <2>5, OutsideStep DEF runtime, nodes
<1> QED BY <1>5, <1>6 DEF Release, c

\* A proxy goes on without sending anything.
LEMMA UserMoves ==
  ASSUME VInv, NEW u \in Users, Answering => Free(u), NEW r \in Proxies,
         UNCHANGED <<config, queue, loop, runtime, timer, nodes, tailnet, job, closer, crashed>>,
         usr' = [usr EXCEPT ![u] = r], fwd' \in [Users -> Forwarders],
         r.pc \notin {"acquiring", "releasing"},
         Answering => \A q \in r.held : <<u, q>> \in listeners
  PROVE  VInv'
<1> USE DEF VInv
<1>1. /\ usr' \in [Users -> Proxies] /\ usr'[u] = r
      /\ \A v \in Users : v # u => usr'[v] = usr[v]
  BY DEF Typed
<1>2. Typed'
  BY <1>1 DEF Typed, runtime, nodes, tailnet
<1>3. UserOK'
  BY <1>1 DEF UserOK
<1>4. Answering => \A v \in Users :
           /\ \A q \in usr'[v].held : <<v, q>> \in listeners
           /\ usr'[v].pc = "acquiring" /\ usr'[v].reply = "ok" => <<v, usr'[v].cur>> \in listeners
  BY <1>1 DEF RegOK
<1>5. UNCHANGED <<loop, runtime, timer, node, tailnet, job>> /\ queue' = queue
  BY DEF nodes
<1>6. Answering => \A v \in Users : usr'[v] = usr[v] \/ Free(v)
  BY <1>1
<1> QED BY <1>2, <1>3, <1>4, <1>5, <1>6, OutsideStep

\* The other steps of a proxy.
LEMMA UserElseStep ==
  ASSUME VInv, NEW u \in Users,
         \/ Acquired(u) \/ StartFails(u) \/ Started(u) \/ CloseUser(u)
         \/ Released(u) \/ StopForwarder(u) \/ Closed(u)
  PROVE  VInv'
<1>1. UNCHANGED <<config, queue, loop, runtime, timer, nodes, tailnet, job, closer, crashed>>
  BY DEF Acquired, StartFails, Started, CloseUser, Released, StopForwarder, Closed,
         UserOnly, Alive
<1>2. /\ usr[u] \in Proxies /\ usr \in [Users -> Proxies] /\ fwd \in [Users -> Forwarders]
      /\ fwd[u] \in Forwarders
      /\ Answering => \A q \in usr[u].held : <<u, q>> \in listeners
  BY DEF VInv, Typed, RegOK
<1>3. Answering => ~Done
  BY DEF Answering, Done
<1>4. CASE StartFails(u)
  <2> DEFINE r == [usr[u] EXCEPT !.pc = "release", !.todo = {}]
  <2>1. r \in Proxies /\ r.pc = "release" /\ r.held = usr[u].held
    BY <1>2 DEF Proxies
  <2>2. usr' = [usr EXCEPT ![u] = r] /\ Free(u) /\ fwd' = fwd
    BY <1>2, <1>4 DEF StartFails, Free
  <2> HIDE DEF r
  <2> QED BY <1>1, <1>2, <2>1, <2>2, UserMoves
<1>5. CASE CloseUser(u)
  <2> DEFINE r == [usr[u] EXCEPT !.pc = "release"]
  <2>1. r \in Proxies /\ r.pc = "release" /\ r.held = usr[u].held
    BY <1>2 DEF Proxies
  <2>2. usr' = [usr EXCEPT ![u] = r] /\ Free(u) /\ fwd' = fwd
    BY <1>2, <1>5 DEF CloseUser, Free
  <2> HIDE DEF r
  <2> QED BY <1>1, <1>2, <2>1, <2>2, UserMoves
<1>6. CASE Released(u)
  <2> DEFINE r == [usr[u] EXCEPT !.pc = "release", !.cur = None]
  <2>1. r \in Proxies /\ r.pc = "release" /\ r.held = usr[u].held
    BY <1>2 DEF Proxies
  <2>2. usr' = [usr EXCEPT ![u] = r] /\ (Answering => Free(u)) /\ fwd' = fwd
    BY <1>2, <1>3, <1>6 DEF Released, Free
  <2> HIDE DEF r
  <2> QED BY <1>1, <1>2, <2>1, <2>2, UserMoves
<1>7. CASE Acquired(u)
  <2>1. (Answering => Free(u)) /\ fwd' = fwd /\ usr[u].pc = "acquiring"
    BY <1>3, <1>7, NoneFresh DEF Free, Acquired
  <2>2. usr[u].cur \in Ports
    BY <2>1 DEF VInv, UserOK
  <2>3. CASE usr[u].reply = "ok" /\ usr' = [usr EXCEPT ![u].pc = "acquire", ![u].cur = None,
                                                 ![u].held = @ \cup {usr[u].cur}]
    <3> DEFINE r == [usr[u] EXCEPT !.pc = "acquire", !.cur = None,
                                   !.held = @ \cup {usr[u].cur}]
    <3>1. r \in Proxies /\ r.pc = "acquire" /\ r.held = usr[u].held \cup {usr[u].cur}
      BY <1>2, <2>2 DEF Proxies
    <3>2. usr' = [usr EXCEPT ![u] = r]
      BY <1>2, <2>3
    <3> HIDE DEF r
    <3>3. Answering => <<u, usr[u].cur>> \in listeners
      BY <2>1, <2>3 DEF VInv, RegOK
    <3> QED BY <1>1, <1>2, <2>1, <3>1, <3>2, <3>3, UserMoves
  <2>4. CASE usr' = [usr EXCEPT ![u].pc = "release", ![u].cur = None, ![u].todo = {}]
    <3> DEFINE r == [usr[u] EXCEPT !.pc = "release", !.cur = None, !.todo = {}]
    <3>1. r \in Proxies /\ r.pc = "release" /\ r.held = usr[u].held
      BY <1>2 DEF Proxies
    <3>2. usr' = [usr EXCEPT ![u] = r]
      BY <1>2, <2>4
    <3> HIDE DEF r
    <3> QED BY <1>1, <1>2, <2>1, <3>1, <3>2, UserMoves
  <2> QED BY <1>7, <2>3, <2>4 DEF Acquired
<1>8. CASE Started(u)
  <2> DEFINE r == [usr[u] EXCEPT !.pc = "up", !.stopCh = "open"]
  <2>1. r \in Proxies /\ r.pc = "up" /\ r.held = usr[u].held
    BY <1>2 DEF Proxies
  <2>2. usr' = [usr EXCEPT ![u] = r] /\ Free(u)
    BY <1>2, <1>8 DEF Started, Free
  <2>3. fwd' \in [Users -> Forwarders]
    <3>1. fwd' = [fwd EXCEPT ![u] = [fwd[u] EXCEPT !.pc = "subscribe"]]
      BY <1>2, <1>8 DEF Started
    <3>2. [fwd[u] EXCEPT !.pc = "subscribe"] \in Forwarders
      BY <1>2 DEF Forwarders
    <3> QED BY <1>2, <3>1, <3>2
  <2> HIDE DEF r
  <2> QED BY <1>1, <1>2, <2>1, <2>2, <2>3, UserMoves
<1>9. CASE StopForwarder(u)
  <2> DEFINE up == usr[u].stopCh = "open"
             r == [usr[u] EXCEPT !.pc = IF up THEN "join" ELSE "closed",
                                 !.stopCh = IF up THEN "closed" ELSE "nil"]
  <2>1. r \in Proxies /\ r.pc \in {"join", "closed"} /\ r.held = usr[u].held
    BY <1>2 DEF Proxies
  <2>2. usr' = [usr EXCEPT ![u] = r] /\ Free(u) /\ fwd' = fwd
    BY <1>2, <1>9 DEF StopForwarder, Free
  <2> HIDE DEF r
  <2> QED BY <1>1, <1>2, <2>1, <2>2, UserMoves
<1>10. CASE Closed(u)
  <2> DEFINE r == [usr[u] EXCEPT !.pc = "closed"]
  <2>1. r \in Proxies /\ r.pc = "closed" /\ r.held = usr[u].held
    BY <1>2 DEF Proxies
  <2>2. usr' = [usr EXCEPT ![u] = r] /\ Free(u) /\ fwd' = fwd
    BY <1>2, <1>10 DEF Closed, Free
  <2> HIDE DEF r
  <2> QED BY <1>1, <1>2, <2>1, <2>2, UserMoves
<1> QED BY <1>4, <1>5, <1>6, <1>7, <1>8, <1>9, <1>10

\* A step beside the proxies that at most sends a command nobody's work depends on.
LEMMA SideStep ==
  ASSUME VInv, Typed', UNCHANGED <<loop, runtime, timer, node, tailnet, job, usr>>,
         \/ queue' = queue
         \/ \E c \in Commands : /\ queue' = Append(queue, c) /\ c.op \notin WorkOps
                                /\ c.op \in {"subscribe", "unsubscribe"} => c.by \in Users
  PROVE  VInv'
<1>1. UserOK'
  BY DEF VInv, UserOK
<1>2. \A c \in Commands :
        c.op \notin WorkOps /\ (c.op \in {"subscribe", "unsubscribe"} => c.by \in Users) =>
          /\ c.op \notin Results /\ CmdOK(c)'
          /\ \A i \in 1 .. Len(queue) : Apart(queue[i], c)
  BY DEF CmdOK, WorkOps, Results, Apart
<1>3. Answering => \A v \in Users :
           /\ \A q \in usr'[v].held : <<v, q>> \in listeners
           /\ usr'[v].pc = "acquiring" /\ usr'[v].reply = "ok" => <<v, usr'[v].cur>> \in listeners
  BY DEF VInv, RegOK
<1> QED BY <1>1, <1>2, <1>3, OutsideStep

\* forwardEvents.
LEMMA ForwarderStep ==
  ASSUME VInv, NEW u \in Users, Forwarder(u)
  PROVE  VInv'
<1>1. UNCHANGED <<config, loop, runtime, timer, nodes, tailnet, job, closer, crashed, usr>>
  BY DEF Forwarder, SubscribeEvents, UnsubscribeEvents, EnterSelect, Select, UserOnly, Alive
<1>2. fwd[u] \in Forwarders /\ fwd \in [Users -> Forwarders]
  BY DEF VInv, Typed
<1>3. ASSUME NEW op \in {"subscribe", "unsubscribe"}
      PROVE  /\ Cmd(op, u, None, -1) \in Commands /\ Cmd(op, u, None, -1).op = op
             /\ Cmd(op, u, None, -1).by = u /\ op \notin WorkOps
  BY DEF Commands, Cmd, WorkOps, Results
<1>4. fwd' \in [Users -> Forwarders]
  <2>1. ASSUME NEW f \in Forwarders, fwd' = [fwd EXCEPT ![u] = f]
        PROVE  fwd' \in [Users -> Forwarders]
    BY <1>2, <2>1
  <2>2. \A p \in {"subscribing", "unsubscribing", "done", "loop", "select", "deaf"} :
          [fwd[u] EXCEPT !.pc = p] \in Forwarders /\ [fwd[u] EXCEPT !.pc = p, !.reply = None] \in Forwarders
    BY <1>2 DEF Forwarders
  <2>3. \A p \in {"loop", "unsubscribe"} : [fwd[u] EXCEPT !.pc = p, !.inbox = FALSE] \in Forwarders
    BY <1>2 DEF Forwarders
  <2>4. CASE SubscribeEvents(u)
    BY <1>2, <2>1, <2>2, <2>4 DEF SubscribeEvents, Call
  <2>5. CASE UnsubscribeEvents(u)
    BY <1>2, <2>1, <2>2, <2>5 DEF UnsubscribeEvents, Call
  <2>6. CASE EnterSelect(u)
    BY <1>2, <2>1, <2>2, <2>6 DEF EnterSelect
  <2>7. CASE Select(u)
    BY <1>2, <2>1, <2>3, <2>7 DEF Select
  <2> QED BY <2>4, <2>5, <2>6, <2>7 DEF Forwarder
<1>5. \/ queue' = queue
      \/ \E op \in {"subscribe", "unsubscribe"} : Send(Cmd(op, u, None, -1))
  BY DEF Forwarder, SubscribeEvents, UnsubscribeEvents, EnterSelect, Select, Call
<1>6. CASE queue' = queue
  <2>1. Typed'
    BY <1>1, <1>4, <1>6 DEF VInv, Typed, runtime, nodes, tailnet
  <2> QED BY <1>1, <1>6, <2>1, SideStep DEF nodes
<1>7. ASSUME NEW op \in {"subscribe", "unsubscribe"}, Send(Cmd(op, u, None, -1))
      PROVE  VInv'
  <2>1. queue' \in Seq(Commands) /\ Len(queue') <= QueueCap /\ queue' = Append(queue, Cmd(op, u, None, -1))
    BY <1>3, <1>7, SentTyped DEF VInv
  <2>2. Typed'
    BY <1>1, <1>4, <2>1 DEF VInv, Typed, runtime, nodes, tailnet
  <2> QED BY <1>1, <1>3, <2>1, <2>2, SideStep DEF nodes
<1> QED BY <1>5, <1>6, <1>7

\* The bridge and Close.
LEMMA ProducerStep ==
  ASSUME VInv, CloseServer \/ \E g \in Gens : Producer(g)
  PROVE  VInv'
<1>1. UNCHANGED <<config, runtime, tailnet, job, usr, fwd, crashed, loop, timer, node>>
  BY DEF CloseServer, Producer, BridgeSend, BridgeEnds, Outside, Alive, nodes
<1>2. CASE CloseServer
  <2> DEFINE c == Cmd("close", None, None, -1)
  <2>1. c \in Commands /\ c.op = "close" /\ c.op \notin WorkOps
    BY DEF Commands, Cmd, WorkOps, Results
  <2>2. Send(c) /\ closer' = "sent" /\ bridge' = bridge
    BY <1>2 DEF CloseServer, nodes
  <2> HIDE DEF c
  <2>3. queue' \in Seq(Commands) /\ Len(queue') <= QueueCap /\ queue' = Append(queue, c)
    BY <2>1, <2>2, SentTyped DEF VInv
  <2>4. Typed'
    BY <1>1, <2>2, <2>3 DEF VInv, Typed, runtime, tailnet
  <2> QED BY <1>1, <2>1, <2>3, <2>4, SideStep
<1>3. ASSUME NEW g \in Gens, BridgeSend(g) PROVE VInv'
  <2> DEFINE c == Cmd("watch", None, None, g)
  <2>1. c \in Commands /\ c.op = "watch" /\ c.op \notin WorkOps
    BY DEF Commands, Cmd, WorkOps, Results
  <2>2. Send(c) /\ closer' = closer /\ bridge' = bridge
    BY <1>3 DEF BridgeSend, nodes
  <2> HIDE DEF c
  <2>3. queue' \in Seq(Commands) /\ Len(queue') <= QueueCap /\ queue' = Append(queue, c)
    BY <2>1, <2>2, SentTyped DEF VInv
  <2>4. Typed'
    BY <1>1, <2>2, <2>3 DEF VInv, Typed, runtime, tailnet
  <2> QED BY <1>1, <2>1, <2>3, <2>4, SideStep
<1>4. ASSUME NEW g \in Gens, BridgeEnds(g) PROVE VInv'
  <2>1. queue' = queue /\ closer' = closer /\ bridge' = [bridge EXCEPT ![g] = "done"]
    BY <1>4 DEF BridgeEnds
  <2>2. Typed'
    BY <1>1, <2>1 DEF VInv, Typed, runtime, tailnet
  <2> QED BY <1>1, <2>1, <2>2, SideStep
<1> QED BY <1>2, <1>3, <1>4 DEF Producer

-----------------------------------------------------------------------------
(* The jobs. *)

\* A job goes on: it may write the ports of its own service, and open or close
\* its own listener.
LEMMA JobMoves ==
  ASSUME VInv, NEW u \in Jobs, NEW j \in Workers, job' = [job EXCEPT ![u] = j],
         j.pc # "none", j.port = job[u].port, j.gen = job[u].gen, j.factory = job[u].factory,
         UNCHANGED <<config, queue, loop, runtime, timer, nodes, usr, fwd, closer>>,
         crashed' \in BOOLEAN,
         NEW P \in SUBSET Ports, vip' = [vip EXCEPT ![u] = P],
         open' \subseteq Users \X Ports \X Gens,
         \A o \in Users \X Ports \X Gens : o # Lis(u) => (o \in open' <=> o \in open),
         Serving => JobOK(u)' /\ (Lis(u) \in open' => j.result = "ok"),
         loop.phase = "run" => collectExistingServicePorts(listeners, u) \subseteq P,
         ~Serving => open' = {}
  PROVE  VInv'
<1> USE DEF VInv
<1>1. /\ Serving' = Serving /\ Answering' = Answering /\ u \in Users
      /\ (Serving => Answering) /\ (loop.phase = "run" => Serving)
      /\ UNCHANGED <<listeners, refCount, pending, subs, fetched, skipped, node, bridge>>
  BY DEF Serving, Answering, Jobs, runtime, nodes
<1>2. /\ job' \in [Users -> Workers] /\ job'[u] = j
      /\ \A v \in Users : v # u => job'[v] = job[v]
      /\ vip' \in [Users -> SUBSET Ports] /\ vip'[u] = P
      /\ \A v \in Users : v # u => vip'[v] = vip[v]
  BY <1>1 DEF Typed
<1>3. Typed'
  BY <1>1, <1>2 DEF Typed
<1>4. Jobs' = Jobs
  BY <1>1, <1>2 DEF Jobs
<1>5. UserOK'
  BY DEF UserOK
<1>6. \A v \in Users, q \in Ports, g \in Gens :
        v # u => (<<v, q, g>> \in open' <=> <<v, q, g>> \in open)
  BY DEF Lis
<1>7. JobsOK'
  <2> SUFFICES ASSUME Serving, NEW v \in Jobs, v # u PROVE JobOK(v)'
    BY <1>1, <1>4 DEF JobsOK
  <2>1. JobOK(v) /\ v \in Users /\ job'[v] = job[v] /\ vip'[v] = vip[v] /\ loop.gen \in Gens
    BY <1>2 DEF JobsOK, Jobs, Typed, Loops
  <2>2. Lis(v)' = Lis(v) /\ (Lis(v) \in open' <=> Lis(v) \in open)
    BY <1>6, <2>1 DEF Lis, JobOK
  <2> QED BY <1>1, <2>1, <2>2 DEF JobOK, Waits, collectExistingServicePorts
<1>8. QueueOK'
  <2>1. ASSUME Answering, NEW d \in Commands, CmdOK(d) PROVE CmdOK(d)'
    <3>1. CASE d.op \in WorkOps
      <4>1. d.by \in Users /\ d.by # u /\ d.port \in Ports
        BY <1>1, <2>1, <3>1 DEF CmdOK, Jobs
      <4>2. d.op = "acquired" => d.gen \in Gens
        BY <2>1 DEF CmdOK, Results, Typed, Loops
      <4>3. d.op = "acquired" =>
              (<<d.by, d.port, d.gen>> \in open' <=> <<d.by, d.port, d.gen>> \in open)
        BY <1>6, <4>1, <4>2
      <4>4. job'[d.by] = job[d.by] /\ vip'[d.by] = vip[d.by]
        BY <1>2, <4>1
      <4> QED BY <1>1, <2>1, <4>3, <4>4 DEF CmdOK, Waits
    <3>2. CASE d.op \notin WorkOps
      BY <2>1, <3>2 DEF CmdOK, WorkOps, Results
    <3> QED BY <3>1, <3>2
  <2> QED BY <1>1, <2>1, QueueKept DEF Typed
<1>9. OpenOK'
  <2>1. CASE ~Serving
    BY <1>1, <2>1 DEF OpenOK
  <2>2. CASE Serving
    <3> SUFFICES ASSUME NEW o \in open' PROVE Owned(o)'
      BY <1>1, <2>2 DEF OpenOK
    <3>1. CASE o = Lis(u)
      <4>1. j.result = "ok" /\ loop.rt = "node" /\ j.gen = loop.gen
        BY <1>2, <2>2, <3>1 DEF JobOK
      <4>2. o[1] = u /\ o[2] = j.port /\ o[3] = j.gen
        BY <3>1 DEF Lis
      <4> QED BY <1>2, <4>1, <4>2 DEF Owned
    <3>2. CASE o # Lis(u)
      <4>1. o \in open /\ o \in Users \X Ports \X Gens
        BY <3>2
      <4>2. Owned(o) /\ o = <<o[1], o[2], o[3]>> /\ o[1] \in Users
        BY <2>2, <4>1 DEF OpenOK
      <4>3. o[1] = u /\ job[u].port = o[2] => FALSE
        <5>1. job[u].gen = loop.gen /\ o[3] = loop.gen
          BY <2>2, <4>2 DEF JobsOK, JobOK, Owned
        <5> QED BY <3>2, <4>2, <5>1 DEF Lis
      <4> QED BY <1>1, <1>2, <4>2, <4>3 DEF Owned
    <3> QED BY <3>1, <3>2
  <2> QED BY <2>1, <2>2
<1>10. OrphansOK'
  BY <1>1, <1>2, <1>4 DEF OrphansOK, Jobs
<1>11. LoopOK' /\ CertsAskedFor'
  BY <1>1 DEF LoopOK, CertsAskedFor
<1>12. CountOK'
  BY <1>1, <1>4 DEF CountOK
<1>13. RegOK'
  <2>1. ASSUME loop.phase = "run", NEW e \in listeners
        PROVE  <<e[1], e[2], loop.gen>> \in open' /\ e[2] \in vip'[e[1]]
    <3>1. /\ <<e[1], e[2], loop.gen>> \in open /\ e[2] \in vip[e[1]]
          /\ e[1] \in Users /\ e[2] \in Ports /\ e = <<e[1], e[2]>> /\ loop.gen \in Gens
      BY <2>1 DEF RegOK, Typed, Loops
    <3>2. CASE e[1] = u
      <4>1. e[2] \in P
        BY <1>1, <2>1, <3>1, <3>2 DEF collectExistingServicePorts
      <4>2. <<u, job[u].port>> \notin listeners
        BY <1>1, <2>1 DEF JobsOK, JobOK
      <4>3. <<e[1], e[2], loop.gen>> # Lis(u)
        BY <3>1, <3>2, <4>2 DEF Lis
      <4> QED BY <1>2, <3>1, <3>2, <4>1, <4>3
    <3>3. CASE e[1] # u
      BY <1>2, <1>6, <3>1, <3>3
    <3> QED BY <3>2, <3>3
  <2> QED BY <1>1, <2>1 DEF RegOK
<1> QED BY <1>3, <1>5, <1>7, <1>8, <1>9, <1>10, <1>11, <1>12, <1>13

\* What is known of a job under way.
LEMMA JobFacts ==
  ASSUME VInv, NEW u \in Jobs
  PROVE  /\ u \in Users /\ job[u] \in Workers /\ job \in [Users -> Workers]
         /\ vip \in [Users -> SUBSET Ports] /\ vip[u] \in SUBSET Ports
         /\ vip = [vip EXCEPT ![u] = vip[u]] /\ open \subseteq Users \X Ports \X Gens
         /\ crashed \in BOOLEAN
         /\ Serving => JobOK(u)
         /\ ~Serving => open = {} /\ (job[u].factory => Aborted(u))
         /\ Serving => ~Aborted(u)
         /\ Serving => (Lis(u) \in open => job[u].result = "ok")
         /\ loop.phase # "idling"
         /\ loop.phase = "run" => Serving /\ collectExistingServicePorts(listeners, u) \subseteq vip[u]
<1> USE DEF VInv
<1>1. /\ u \in Users /\ job[u] \in Workers /\ job \in [Users -> Workers]
      /\ vip \in [Users -> SUBSET Ports] /\ vip[u] \in SUBSET Ports
      /\ vip = [vip EXCEPT ![u] = vip[u]] /\ open \subseteq Users \X Ports \X Gens
      /\ crashed \in BOOLEAN
  BY DEF Jobs, Typed
<1>2. Serving => JobOK(u)
  BY DEF JobsOK
<1>3. ~Serving => open = {} /\ (job[u].factory => Aborted(u))
  BY DEF OpenOK, OrphansOK, Aborted, Canceled
<1>4. Serving => ~Aborted(u)
  BY <1>2 DEF JobOK, Aborted, Canceled, LoopOK
<1>5. ASSUME Serving, Lis(u) \in open PROVE job[u].result = "ok"
  <2>1. Owned(Lis(u))
    BY <1>5 DEF OpenOK
  <2>2. <<u, job[u].port>> \notin listeners
    BY <1>2, <1>5 DEF JobOK
  <2>3. \A i \in 1 .. Len(queue) : queue[i].op = "acquired" => queue[i].by # u
    BY <1>5 DEF QueueOK, CmdOK, Jobs, Answering, Serving, WorkOps, Results
  <2> QED BY <2>1, <2>2, <2>3 DEF Owned, Lis
<1>6. loop.phase # "idling"
  BY DEF OrphansOK, Serving
<1>7. loop.phase = "run" => Serving /\ collectExistingServicePorts(listeners, u) \subseteq vip[u]
  BY DEF collectExistingServicePorts, RegOK, Serving
<1> QED BY <1>1, <1>2, <1>3, <1>4, <1>5, <1>6, <1>7

\* A job gives up without an open listener.
LEMMA JobFails ==
  ASSUME VInv, NEW u \in Jobs, Fail(u), open' = open, crashed' = crashed,
         UNCHANGED <<config, queue, loop, runtime, timer, nodes, usr, fwd, closer>>,
         NEW P \in SUBSET Ports, vip' = [vip EXCEPT ![u] = P],
         Serving => job[u].op = "acquire" /\ job[u].result # "ok",
         loop.phase = "run" => collectExistingServicePorts(listeners, u) \subseteq P
  PROVE  VInv'
<1> DEFINE j == [job[u] EXCEPT !.pc = "send", !.result = "error"]
<1>1. /\ u \in Users /\ job[u] \in Workers /\ job \in [Users -> Workers]
      /\ vip \in [Users -> SUBSET Ports]
      /\ open \subseteq Users \X Ports \X Gens /\ crashed \in BOOLEAN
      /\ Serving => JobOK(u) /\ Lis(u) \notin open
      /\ ~Serving => open = {}
  BY JobFacts
<1>2. job' = [job EXCEPT ![u] = j]
  BY <1>1 DEF Fail
<1>3. /\ j \in Workers /\ j.pc = "send" /\ j.port = job[u].port /\ j.gen = job[u].gen
      /\ j.factory = job[u].factory /\ j.op = job[u].op /\ j.ports = job[u].ports
      /\ j.result = "error"
  BY <1>1 DEF Workers
<1> HIDE DEF j
<1>4. job'[u] = j
  BY <1>1, <1>2
<1>5. Serving => JobOK(u)'
  BY <1>1, <1>3, <1>4 DEF JobOK, Waits, runtime, collectExistingServicePorts
<1> QED BY <1>1, <1>2, <1>3, <1>5, JobMoves

\* The job creates or updates the service.
LEMMA CreateServiceStep ==
  ASSUME VInv, NEW u \in Users, CreateService(u)
  PROVE  VInv'
<1>1. /\ job[u].pc = "create" /\ open' = open /\ crashed' = crashed
      /\ UNCHANGED <<config, queue, loop, runtime, timer, nodes, usr, fwd, closer>>
  BY DEF CreateService, JobOnly, Alive
<1>2. u \in Jobs
  BY <1>1 DEF Jobs
<1>3. /\ job[u] \in Workers /\ crashed \in BOOLEAN /\ open \subseteq Users \X Ports \X Gens
      /\ job \in [Users -> Workers] /\ vip \in [Users -> SUBSET Ports] /\ vip[u] \in SUBSET Ports
      /\ vip = [vip EXCEPT ![u] = vip[u]]
      /\ Serving => JobOK(u) /\ (Lis(u) \in open => job[u].result = "ok")
      /\ ~Serving => open = {}
      /\ loop.phase = "run" => Serving /\ collectExistingServicePorts(listeners, u) \subseteq vip[u]
  BY <1>2, JobFacts
<1>4. Serving => /\ job[u].op = "acquire" /\ job[u].result # "ok" /\ job[u].port \in job[u].ports
                 /\ collectExistingServicePorts(listeners, u) \subseteq job[u].ports
  BY <1>1, <1>3 DEF JobOK
<1>5. CASE Put(u, job[u].ports) /\ Step(u, "listen")
  <2> DEFINE j == [job[u] EXCEPT !.pc = "listen"]
             P == job[u].ports
  <2>1. job' = [job EXCEPT ![u] = j] /\ vip' = [vip EXCEPT ![u] = P]
    BY <1>3, <1>5 DEF Put, Step
  <2>2. /\ j \in Workers /\ j.pc = "listen" /\ j.port = job[u].port /\ j.gen = job[u].gen
        /\ j.factory = job[u].factory /\ j.op = job[u].op /\ j.ports = job[u].ports
        /\ j.result = job[u].result /\ P \in SUBSET Ports
    BY <1>3 DEF Workers
  <2> HIDE DEF j
  <2>3. job'[u] = j /\ vip'[u] = P
    BY <1>3, <2>1
  <2>4. Serving => JobOK(u)'
    BY <1>1, <1>3, <1>4, <2>2, <2>3 DEF JobOK, Waits, runtime, collectExistingServicePorts
  <2> HIDE DEF P
  <2>5. loop.phase = "run" => collectExistingServicePorts(listeners, u) \subseteq P
    BY <1>3, <1>4 DEF P
  <2> QED BY <1>1, <1>2, <1>3, <1>4, <2>1, <2>2, <2>4, <2>5, JobMoves
<1>6. CASE Fail(u) /\ vip' = vip
  BY <1>1, <1>2, <1>3, <1>4, <1>6, JobFails
<1> QED BY <1>5, <1>6 DEF CreateService

\* The job opens the listener, or meets a failure or a missing factory.
LEMMA ListenServiceStep ==
  ASSUME VInv, NEW u \in Users, ListenService(u)
  PROVE  VInv'
<1>1. /\ job[u].pc = "listen" /\ vip' = vip
      /\ UNCHANGED <<config, queue, loop, runtime, timer, nodes, usr, fwd, closer>>
  BY DEF ListenService, JobOnly, Alive
<1>2. u \in Jobs
  BY <1>1 DEF Jobs
<1>3. /\ job[u] \in Workers /\ crashed \in BOOLEAN /\ open \subseteq Users \X Ports \X Gens
      /\ job \in [Users -> Workers] /\ vip \in [Users -> SUBSET Ports] /\ vip[u] \in SUBSET Ports
      /\ vip = [vip EXCEPT ![u] = vip[u]]
      /\ Serving => JobOK(u) /\ (Lis(u) \in open => job[u].result = "ok")
      /\ ~Serving => open = {} /\ (job[u].factory => Aborted(u))
      /\ loop.phase = "run" => collectExistingServicePorts(listeners, u) \subseteq vip[u]
  BY <1>2, JobFacts
<1>4. CASE ~job[u].factory
  <2>1. crashed' = TRUE /\ open' = open /\ job' = job
    BY <1>4 DEF ListenService
  <2>2. job' = [job EXCEPT ![u] = job[u]] /\ vip' = [vip EXCEPT ![u] = vip[u]]
    BY <1>1, <1>3, <2>1
  <2>3. Serving => JobOK(u)'
    BY <1>1, <1>3, <2>1 DEF JobOK, Waits, Lis, runtime, collectExistingServicePorts
  <2> QED BY <1>1, <1>2, <1>3, <2>1, <2>2, <2>3, JobMoves
<1>5. CASE job[u].factory /\ ~Aborted(u) /\ open' = open \cup {Lis(u)} /\ crashed' = crashed
             /\ job' = [job EXCEPT ![u].result = "ok", ![u].pc =
                          IF config.autoApprove /\ ~job[u].relisten THEN "approve" ELSE "send"]
  <2> DEFINE p == IF config.autoApprove /\ ~job[u].relisten THEN "approve" ELSE "send"
             j == [job[u] EXCEPT !.result = "ok", !.pc = p]
  <2>1. job' = [job EXCEPT ![u] = j] /\ vip' = [vip EXCEPT ![u] = vip[u]]
    BY <1>1, <1>3, <1>5
  <2>2. p \in {"approve", "send"}
    OBVIOUS
  <2> HIDE DEF p
  <2>3. /\ j \in Workers /\ j.pc = p /\ j.port = job[u].port /\ j.gen = job[u].gen
        /\ j.factory = job[u].factory /\ j.op = job[u].op /\ j.ports = job[u].ports
        /\ j.result = "ok"
    BY <1>3, <2>2 DEF Workers
  <2> HIDE DEF j
  <2>4. job'[u] = j
    BY <1>3, <2>1
  <2>5. Serving
    BY <1>3, <1>5
  <2>6. JobOK(u)'
    BY <1>1, <1>3, <1>5, <2>2, <2>3, <2>4, <2>5
       DEF JobOK, Waits, Lis, runtime, collectExistingServicePorts
  <2>7. Lis(u) \in Users \X Ports \X Gens
    <3>1. job[u].port \in Ports /\ job[u].gen \in Gens
      BY <1>3, <2>5 DEF JobOK, VInv, Typed, Loops
    <3> QED BY <3>1 DEF Lis
  <2>8. /\ open' \subseteq Users \X Ports \X Gens
        /\ \A o \in Users \X Ports \X Gens : o # Lis(u) => (o \in open' <=> o \in open)
    BY <1>3, <1>5, <2>7
  <2>9. crashed' \in BOOLEAN /\ j.pc # "none"
    BY <1>3, <1>5, <2>2, <2>3
  <2> QED BY <1>1, <1>2, <1>3, <2>1, <2>3, <2>5, <2>6, <2>8, <2>9, JobMoves
<1>6. CASE Step(u, "rollback") /\ open' = open /\ crashed' = crashed
  <2> DEFINE j == [job[u] EXCEPT !.pc = "rollback"]
  <2>1. job' = [job EXCEPT ![u] = j] /\ vip' = [vip EXCEPT ![u] = vip[u]]
    BY <1>1, <1>3, <1>6 DEF Step
  <2>2. /\ j \in Workers /\ j.pc = "rollback" /\ j.port = job[u].port /\ j.gen = job[u].gen
        /\ j.factory = job[u].factory /\ j.op = job[u].op /\ j.ports = job[u].ports
        /\ j.result = job[u].result
    BY <1>3 DEF Workers
  <2> HIDE DEF j
  <2>3. job'[u] = j
    BY <1>3, <2>1
  <2>4. Serving => JobOK(u)'
    BY <1>1, <1>3, <2>2, <2>3 DEF JobOK, Waits, runtime, collectExistingServicePorts
  <2> QED BY <1>1, <1>2, <1>3, <1>6, <2>1, <2>2, <2>4, JobMoves, ZenonT(30)
<1> QED BY <1>4, <1>5, <1>6 DEF ListenService

\* The device is approved and the listener closed to be opened again; then the
\* job waits, and goes on or gives up.
LEMMA ApprovalStep ==
  ASSUME VInv, NEW u \in Users, Approve(u) \/ Readvertise(u)
  PROVE  VInv'
<1>1. /\ job[u].pc \in {"approve", "wait"} /\ vip' = vip /\ crashed' = crashed
      /\ UNCHANGED <<config, queue, loop, runtime, timer, nodes, usr, fwd, closer>>
  BY DEF Approve, Readvertise, JobOnly, Alive, tailnet
<1>2. u \in Jobs
  BY <1>1 DEF Jobs
<1>3. /\ job[u] \in Workers /\ crashed \in BOOLEAN /\ open \subseteq Users \X Ports \X Gens
      /\ job \in [Users -> Workers] /\ vip \in [Users -> SUBSET Ports] /\ vip[u] \in SUBSET Ports
      /\ vip = [vip EXCEPT ![u] = vip[u]]
      /\ Serving => JobOK(u) /\ (Lis(u) \in open => job[u].result = "ok")
      /\ ~Serving => open = {}
      /\ loop.phase = "run" => collectExistingServicePorts(listeners, u) \subseteq vip[u]
  BY <1>2, JobFacts
<1>4. CASE job[u].pc = "approve" /\ Step(u, "send") /\ open' = open
  <2> DEFINE j == [job[u] EXCEPT !.pc = "send"]
  <2>1. job' = [job EXCEPT ![u] = j] /\ vip' = [vip EXCEPT ![u] = vip[u]]
    BY <1>1, <1>3, <1>4 DEF Step
  <2>2. /\ j \in Workers /\ j.pc = "send" /\ j.port = job[u].port /\ j.gen = job[u].gen
        /\ j.factory = job[u].factory /\ j.op = job[u].op /\ j.ports = job[u].ports
        /\ j.result = job[u].result
    BY <1>3 DEF Workers
  <2> HIDE DEF j
  <2>3. job'[u] = j
    BY <1>3, <2>1
  <2>4. Serving => JobOK(u)'
    BY <1>1, <1>3, <1>4, <2>2, <2>3
      DEF JobOK, Waits, Lis, runtime, collectExistingServicePorts
  <2> QED BY <1>1, <1>2, <1>3, <1>4, <2>1, <2>2, <2>4, JobMoves, ZenonT(30)
<1>5. CASE job[u].pc = "approve" /\ open' = open \ {Lis(u)}
             /\ job' = [job EXCEPT ![u].pc = "wait", ![u].result = None]
  <2> DEFINE j == [job[u] EXCEPT !.pc = "wait", !.result = None]
  <2>1. job' = [job EXCEPT ![u] = j] /\ vip' = [vip EXCEPT ![u] = vip[u]]
    BY <1>1, <1>3, <1>5
  <2>2. /\ j \in Workers /\ j.pc = "wait" /\ j.port = job[u].port /\ j.gen = job[u].gen
        /\ j.factory = job[u].factory /\ j.op = job[u].op /\ j.ports = job[u].ports
        /\ j.result = None
    BY <1>3 DEF Workers
  <2> HIDE DEF j
  <2>3. job'[u] = j
    BY <1>3, <2>1
  <2>4. Serving => JobOK(u)'
    BY <1>1, <1>3, <1>5, <2>2, <2>3, NoneFresh
      DEF JobOK, Waits, runtime, collectExistingServicePorts
  <2>5. /\ open' \subseteq Users \X Ports \X Gens /\ Lis(u) \notin open'
        /\ \A o \in Users \X Ports \X Gens : o # Lis(u) => (o \in open' <=> o \in open)
        /\ ~Serving => open' = {}
    BY <1>3, <1>5
  <2>6. crashed' \in BOOLEAN /\ j.pc # "none"
    BY <1>1, <1>3, <2>2
  <2> QED BY <1>1, <1>2, <1>3, <2>1, <2>2, <2>4, <2>5, <2>6, JobMoves
<1>6. CASE job[u].pc = "wait" /\ open' = open
             /\ job' = [job EXCEPT ![u].pc = "listen", ![u].relisten = TRUE]
  <2> DEFINE j == [job[u] EXCEPT !.pc = "listen", !.relisten = TRUE]
  <2>1. job' = [job EXCEPT ![u] = j] /\ vip' = [vip EXCEPT ![u] = vip[u]]
    BY <1>1, <1>3, <1>6
  <2>2. /\ j \in Workers /\ j.pc = "listen" /\ j.port = job[u].port /\ j.gen = job[u].gen
        /\ j.factory = job[u].factory /\ j.op = job[u].op /\ j.ports = job[u].ports
        /\ j.result = job[u].result
    BY <1>3 DEF Workers
  <2> HIDE DEF j
  <2>3. job'[u] = j
    BY <1>3, <2>1
  <2>4. Serving => JobOK(u)'
    BY <1>1, <1>3, <1>6, <2>2, <2>3 DEF JobOK, Waits, runtime, collectExistingServicePorts
  <2>5. /\ open' \subseteq Users \X Ports \X Gens /\ crashed' \in BOOLEAN /\ j.pc # "none"
        /\ \A o \in Users \X Ports \X Gens : o # Lis(u) => (o \in open' <=> o \in open)
        /\ Serving => (Lis(u) \in open' => j.result = "ok")
        /\ ~Serving => open' = {}
    BY <1>1, <1>3, <1>6, <2>2
  <2> QED BY <1>1, <1>2, <1>3, <2>1, <2>2, <2>4, <2>5, JobMoves
<1>7. CASE job[u].pc = "wait" /\ open' = open /\ Fail(u)
  <2>1. Serving => job[u].op = "acquire" /\ job[u].result # "ok"
    BY <1>3, <1>7 DEF JobOK
  <2>2. vip' = [vip EXCEPT ![u] = vip[u]]
    BY <1>1, <1>3
  <2> QED BY <1>1, <1>2, <1>3, <1>7, <2>1, <2>2, JobFails
<1>8. CASE Approve(u)
  BY <1>4, <1>5, <1>8 DEF Approve
<1>9. CASE Readvertise(u)
  BY <1>6, <1>7, <1>9 DEF Readvertise, tailnet
<1> QED BY <1>8, <1>9

\* A failed listen takes its own port out of the service again.
LEMMA RollbackStep ==
  ASSUME VInv, NEW u \in Users, Rollback(u)
  PROVE  VInv'
<1>1. /\ job[u].pc = "rollback" /\ open' = open /\ crashed' = crashed /\ Fail(u)
      /\ Put(u, withoutPort(job[u].ports, job[u].port)) \/ vip' = vip
      /\ UNCHANGED <<config, queue, loop, runtime, timer, nodes, usr, fwd, closer>>
  BY DEF Rollback, JobOnly, Alive
<1>2. u \in Jobs
  BY <1>1 DEF Jobs
<1>3. /\ vip[u] \in SUBSET Ports /\ vip = [vip EXCEPT ![u] = vip[u]] /\ job[u] \in Workers
      /\ Serving => JobOK(u)
      /\ loop.phase = "run" => Serving /\ collectExistingServicePorts(listeners, u) \subseteq vip[u]
  BY <1>2, JobFacts
<1>4. Serving => job[u].op = "acquire" /\ job[u].result # "ok"
  BY <1>1, <1>3 DEF JobOK
<1> DEFINE P == withoutPort(job[u].ports, job[u].port)
<1>5. P \in SUBSET Ports
  BY <1>3 DEF Workers, withoutPort
<1>6. loop.phase = "run" => collectExistingServicePorts(listeners, u) \subseteq P
  BY <1>3 DEF JobOK, collectExistingServicePorts, withoutPort
<1> HIDE DEF P
<1>7. CASE Put(u, P)
  <2>1. vip' = [vip EXCEPT ![u] = P]
    BY <1>7 DEF Put
  <2> QED BY <1>1, <1>2, <1>4, <1>5, <1>6, <2>1, JobFails
<1>8. CASE vip' = vip
  BY <1>1, <1>2, <1>3, <1>4, <1>8, JobFails
<1> QED BY <1>1, <1>7, <1>8 DEF P

\* The job of a release writes the ports that are left.
LEMMA ReleaseServiceStep ==
  ASSUME VInv, NEW u \in Users, ReleaseService(u)
  PROVE  VInv'
<1>1. /\ job[u].pc = "api" /\ open' = open /\ crashed' = crashed /\ Step(u, "send")
      /\ Put(u, job[u].ports) \/ vip' = vip
      /\ UNCHANGED <<config, queue, loop, runtime, timer, nodes, usr, fwd, closer>>
  BY DEF ReleaseService, JobOnly, Alive
<1>2. u \in Jobs
  BY <1>1 DEF Jobs
<1>3. /\ job[u] \in Workers /\ crashed \in BOOLEAN /\ open \subseteq Users \X Ports \X Gens
      /\ job \in [Users -> Workers] /\ vip \in [Users -> SUBSET Ports] /\ vip[u] \in SUBSET Ports
      /\ vip = [vip EXCEPT ![u] = vip[u]]
      /\ Serving => JobOK(u) /\ (Lis(u) \in open => job[u].result = "ok")
      /\ ~Serving => open = {}
      /\ loop.phase = "run" => Serving /\ collectExistingServicePorts(listeners, u) \subseteq vip[u]
  BY <1>2, JobFacts
<1> DEFINE j == [job[u] EXCEPT !.pc = "send"]
<1>4. job' = [job EXCEPT ![u] = j]
  BY <1>1, <1>3 DEF Step
<1>5. /\ j \in Workers /\ j.pc = "send" /\ j.port = job[u].port /\ j.gen = job[u].gen
      /\ j.factory = job[u].factory /\ j.op = job[u].op /\ j.ports = job[u].ports
      /\ j.result = job[u].result
  BY <1>3 DEF Workers
<1> HIDE DEF j
<1>6. job'[u] = j
  BY <1>3, <1>4
<1>7. Serving => JobOK(u)' /\ job[u].result # "ok"
  BY <1>1, <1>3, <1>5, <1>6, NoneFresh
    DEF JobOK, Waits, runtime, collectExistingServicePorts
<1>8. CASE Put(u, job[u].ports)
  <2>1. vip' = [vip EXCEPT ![u] = job[u].ports] /\ job[u].ports \in SUBSET Ports
    BY <1>3, <1>8 DEF Put, Workers
  <2>2. loop.phase = "run" => collectExistingServicePorts(listeners, u) \subseteq job[u].ports
    BY <1>3 DEF JobOK
  <2> QED BY <1>1, <1>2, <1>3, <1>4, <1>5, <1>7, <2>1, <2>2, JobMoves
<1>9. CASE vip' = vip
  BY <1>1, <1>2, <1>3, <1>4, <1>5, <1>7, <1>9, JobMoves
<1> QED BY <1>1, <1>8, <1>9

\* The result of a job is sent, or the job finds its runtime gone.
LEMMA SendResultStep ==
  ASSUME VInv, NEW u \in Users, SendResult(u)
  PROVE  VInv'
<1> USE DEF VInv
<1> DEFINE op == IF job[u].op = "acquire" THEN "acquired" ELSE "released"
           msg == [Cmd(op, u, job[u].port, job[u].gen) EXCEPT !.result = job[u].result]
<1>1. /\ job[u].pc = "send" /\ job' = [job EXCEPT ![u] = NoJob] /\ vip' = vip
      /\ UNCHANGED <<config, loop, runtime, timer, nodes, fwd, closer, crashed>>
      /\ \/ Send(msg) /\ open' = open /\ usr' = usr
         \/ /\ Aborted(u) \/ Done
            /\ open' = open \ {Lis(u)} /\ queue' = queue
            /\ usr' = [usr EXCEPT ![u].reply = IF job[u].op = "acquire" THEN "error" ELSE "ok"]
         \/ Done /\ queue' = queue /\ open' = open /\ usr' = usr
  BY DEF SendResult, JobOnly, Alive, Cmd
<1>2. u \in Jobs
  BY <1>1 DEF Jobs
<1>3. /\ job[u] \in Workers /\ job \in [Users -> Workers] /\ open \subseteq Users \X Ports \X Gens
      /\ Serving => JobOK(u) /\ (Lis(u) \in open => job[u].result = "ok") /\ ~Aborted(u)
      /\ ~Serving => open = {}
      /\ loop.phase # "idling"
  BY <1>2, JobFacts
<1>4. /\ job' \in [Users -> Workers] /\ job'[u] = NoJob
      /\ \A v \in Users : v # u => job'[v] = job[v]
  BY <1>1, <1>3 DEF NoJob, Workers
<1>5. /\ Serving' = Serving /\ Answering' = Answering /\ (Answering <=> Serving)
      /\ UNCHANGED <<listeners, refCount, pending, subs, fetched, skipped, node, bridge>>
      /\ Done => ~Serving
  BY <1>1, <1>3 DEF Serving, Answering, runtime, nodes, Done
<1>6. Jobs' = Jobs \ {u} /\ NoJob.pc = "none"
  BY <1>4 DEF Jobs, NoJob
<1>7. IsFiniteSet(Jobs') /\ Cardinality(Jobs') = Cardinality(Jobs) - 1 /\ Cardinality(Jobs) \in Nat
  BY <1>2, <1>6, FS_RemoveElement, FS_CardinalityType DEF CountOK
<1>8. LoopOK' /\ CertsAskedFor'
  BY <1>1, <1>5 DEF LoopOK, CertsAskedFor
<1>9. OrphansOK'
  BY <1>1, <1>4, <1>5, <1>6 DEF OrphansOK, Jobs
<1>10. CASE ~Serving
  <2>1. usr' \in [Users -> Proxies] /\ UserOK'
    <3>1. CASE usr' = usr
      BY <3>1 DEF Typed, UserOK
    <3>2. CASE usr' = [usr EXCEPT ![u].reply = IF job[u].op = "acquire" THEN "error" ELSE "ok"]
      <4> DEFINE a == IF job[u].op = "acquire" THEN "error" ELSE "ok"
                 r == [usr[u] EXCEPT !.reply = a]
      <4>1. usr[u] \in Proxies /\ usr \in [Users -> Proxies] /\ a \in {"ok", "error"}
        BY DEF Typed
      <4> HIDE DEF a
      <4>2. r \in Proxies /\ r.pc = usr[u].pc /\ r.cur = usr[u].cur /\ r.held = usr[u].held
        BY <4>1 DEF Proxies
      <4>3. usr' = [usr EXCEPT ![u] = r]
        BY <3>2, <4>1 DEF a
      <4> HIDE DEF r
      <4> QED BY <4>1, <4>2, <4>3 DEF UserOK
    <3> QED BY <1>1, <3>1, <3>2
  <2>2. queue' \in Seq(Commands) /\ Len(queue') <= QueueCap
    <3>1. CASE queue' = queue
      BY <3>1 DEF Typed
    <3>2. CASE Send(msg)
      <4>1. op \in {"acquired", "released"} /\ job[u].gen \in Gens \cup {-1}
            /\ job[u].port \in Ports \cup {None} /\ job[u].result \in {None, "ok", "error"}
        BY <1>3 DEF Workers
      <4> HIDE DEF op
      <4>2. msg \in Commands
        BY <4>1 DEF Commands, Cmd, WorkOps, Results
      <4> QED BY <3>2, <4>2, SentTyped
    <3> QED BY <1>1, <3>1, <3>2
  <2>3. open' = {}
    BY <1>1, <1>3, <1>10
  <2>4. Typed'
    BY <1>1, <1>4, <1>5, <2>1, <2>2, <2>3 DEF Typed
  <2>5. JobsOK' /\ QueueOK' /\ OpenOK' /\ RegOK'
    BY <1>5, <1>10, <2>3 DEF JobsOK, QueueOK, OpenOK, RegOK, Serving
  <2>6. CountOK'
    BY <1>5, <1>7, <1>10 DEF CountOK
  <2> QED BY <1>8, <1>9, <2>1, <2>4, <2>5, <2>6
<1>11. CASE Serving
  <2>1. Send(msg) /\ open' = open /\ usr' = usr /\ JobOK(u)
    BY <1>1, <1>3, <1>5, <1>11
  <2>2. /\ op \in Results /\ job[u].gen = loop.gen /\ job[u].gen \in Gens /\ job[u].port \in Ports
        /\ job[u].result \in {None, "ok", "error"}
        /\ op = "acquired" <=> job[u].op = "acquire"
        /\ op = "released" <=> job[u].op = "release"
    BY <1>3, <2>1 DEF Workers, JobOK, Results, Typed, Loops
  <2> HIDE DEF op
  <2>a. /\ msg \in Commands /\ msg.op = op /\ msg.by = u /\ msg.port = job[u].port
        /\ msg.gen = job[u].gen /\ msg.result = job[u].result
    BY <2>2 DEF Commands, Cmd, WorkOps, Results
  <2> HIDE DEF msg
  <2>b. PICK c \in Commands : c = msg
    BY <2>a
  <2>3. /\ c.op = op /\ c.by = u /\ c.port = job[u].port /\ c.gen = job[u].gen
        /\ c.result = job[u].result /\ Send(c)
    BY <2>1, <2>a, <2>b
  <2>4. queue' \in Seq(Commands) /\ Len(queue') <= QueueCap /\ queue' = Append(queue, c)
    BY <2>3, SentTyped
  <2>5. Typed' /\ UserOK'
    BY <1>1, <1>4, <1>5, <2>1, <2>4 DEF Typed, UserOK
  <2>6. JobsOK'
    <3> SUFFICES ASSUME NEW v \in Jobs, v # u PROVE JobOK(v)'
      BY <1>6 DEF JobsOK
    <3>1. JobOK(v) /\ job'[v] = job[v]
      BY <1>4, <1>11 DEF JobsOK, Jobs
    <3> QED BY <1>1, <1>5, <2>1, <3>1 DEF JobOK, Waits, Lis, collectExistingServicePorts
  <2>7. QueueOK'
    <3>1. ASSUME NEW d \in Commands, CmdOK(d) PROVE CmdOK(d)' /\ (d.op \in WorkOps => d.by # u)
      <4>1. d.op \in WorkOps => d.by \in Users /\ d.by # u
        BY <1>1, <3>1 DEF CmdOK
      <4>2. d.op \in WorkOps => job'[d.by] = job[d.by]
        BY <1>4, <4>1
      <4> QED BY <1>1, <1>5, <2>1, <3>1, <4>1, <4>2 DEF CmdOK, Waits
    <3>2. CmdOK(c)'
      <4>1. Waits(u, c.op, c.port)'
        <5>1. CASE job[u].op = "acquire"
          BY <2>1, <2>2, <2>3, <5>1 DEF JobOK, Waits
        <5>2. CASE job[u].op = "release"
          BY <2>1, <2>2, <2>3, <5>2 DEF JobOK, Waits
        <5> QED BY <2>1, <5>1, <5>2 DEF JobOK
      <4>2. op = "acquired" /\ job[u].result = "ok" =>
              loop.rt = "node" /\ job[u].port \in vip[u] /\ Lis(u) \in open
        BY <2>1 DEF JobOK
      <4>3. loop.rt # "nil" /\ <<u, job[u].port>> \notin listeners
        BY <2>1 DEF JobOK
      <4> QED BY <1>1, <1>4, <1>5, <1>6, <1>11, <2>1, <2>2, <2>3, <4>1, <4>2, <4>3
             DEF CmdOK, WorkOps, Results, Lis
    <3>3. \A i \in 1 .. Len(queue) : Apart(queue[i], c)
      <4> SUFFICES ASSUME NEW i \in 1 .. Len(queue) PROVE Apart(queue[i], c)
        OBVIOUS
      <4>1. CmdOK(queue[i]) /\ queue[i] \in Commands
        BY <1>5, <1>11 DEF QueueOK, Typed
      <4> QED BY <2>3, <3>1, <4>1 DEF Apart
    <3>4. queue \in Seq(Commands)
      BY DEF Typed
    <3> QED BY <1>5, <2>3, <2>4, <3>1, <3>2, <3>3, <3>4, QueueSent
  <2>8. OpenOK'
    <3> SUFFICES ASSUME NEW o \in open PROVE Owned(o)'
      BY <1>5, <1>11, <2>1 DEF OpenOK
    <3>1. Owned(o)
      BY <1>11 DEF OpenOK
    <3>2. /\ \A i \in 1 .. Len(queue) : i \in 1 .. Len(queue') /\ queue'[i] = queue[i]
          /\ Len(queue) + 1 \in 1 .. Len(queue') /\ queue'[Len(queue) + 1] = c
      BY <2>3, <2>4, Appended DEF Typed
    <3>3. CASE job[o[1]].pc # "none" /\ job[o[1]].result = "ok" /\ job[o[1]].port = o[2] /\ o[1] = u
      <4>1. op = "acquired"
        BY <2>1, <2>2, <3>3, NoneFresh DEF JobOK
      <4> QED BY <1>1, <1>5, <2>3, <3>1, <3>2, <3>3, <4>1 DEF Owned
    <3>4. CASE job[o[1]].pc # "none" /\ job[o[1]].result = "ok" /\ job[o[1]].port = o[2] /\ o[1] # u
      <4>1. o[1] \in Users
        BY <1>3
      <4> QED BY <1>1, <1>4, <1>5, <3>1, <3>4, <4>1 DEF Owned
    <3>5. CASE <<o[1], o[2]>> \in listeners
      BY <1>1, <1>5, <3>1, <3>5 DEF Owned
    <3>6. CASE \E i \in 1 .. Len(queue) : /\ queue[i].op = "acquired" /\ queue[i].result = "ok"
                                         /\ queue[i].by = o[1] /\ queue[i].port = o[2]
      BY <1>1, <1>5, <3>1, <3>2, <3>6 DEF Owned
    <3> QED BY <3>1, <3>3, <3>4, <3>5, <3>6 DEF Owned
  <2>9. CountOK'
    <3>1. Cardinality(Reported(queue')) = Cardinality(Reported(queue)) + 1
          /\ Cardinality(Reported(queue)) \in Nat
      BY <2>2, <2>3, <2>4, ReportedAppended, ReportedFinite DEF Typed
    <3> QED BY <1>5, <1>7, <3>1 DEF CountOK
  <2>10. RegOK'
    BY <1>1, <1>5, <2>1 DEF RegOK
  <2> QED BY <1>8, <1>9, <2>5, <2>6, <2>7, <2>8, <2>9, <2>10
<1> QED BY <1>10, <1>11

-----------------------------------------------------------------------------
(* The loop. *)

\* The command that is read.
LEMMA HeadFacts ==
  ASSUME VInv, Serving, queue # <<>>, queue' = Tail(queue)
  PROVE  /\ queue' \in Seq(Commands) /\ Len(queue') <= QueueCap /\ Answering
         /\ queue \in Seq(Commands) /\ C \in Commands /\ CmdOK(C)
         /\ \A i \in 1 .. Len(queue) :
              (i = 1 /\ queue[i] = C) \/ (i - 1 \in 1 .. Len(queue') /\ queue'[i - 1] = queue[i])
         /\ \A i \in 1 .. Len(queue') : queue'[i] \in Commands
<1> USE DEF VInv
<1>1. queue \in Seq(Commands) /\ Len(queue) <= QueueCap /\ Answering
  BY DEF Typed, Serving, Answering
<1>2. /\ queue' \in Seq(Commands) /\ Len(queue') = Len(queue) - 1
      /\ Len(queue) \in Nat /\ 1 \in 1 .. Len(queue) /\ C = queue[1] /\ C \in Commands
      /\ \A i \in 1 .. Len(queue') : queue'[i] = queue[i + 1] /\ i + 1 \in 1 .. Len(queue)
  BY <1>1, Taken
<1>3. CmdOK(C)
  BY <1>1, <1>2 DEF QueueOK
<1>4. ASSUME NEW i \in 1 .. Len(queue), i # 1
      PROVE  i - 1 \in 1 .. Len(queue') /\ queue'[i - 1] = queue[i]
  BY <1>2, <1>4
<1>5. \A i \in 1 .. Len(queue') : queue'[i] \in Commands
  BY <1>2
<1> QED BY <1>1, <1>2, <1>3, <1>4, <1>5, CapType

\* The work of a proxy is answered: the proxy no longer waits.
LEMMA Answered ==
  ASSUME VInv, Serving, queue # <<>>, queue' = Tail(queue), C.op \in WorkOps,
         NEW r \in {"ok", "error"}, Reply(C.by, r)
  PROVE  /\ C.by \in Users /\ C.port \in Ports /\ usr' \in [Users -> Proxies] /\ UserOK'
         /\ \A v \in Users : v # C.by => usr'[v] = usr[v]
         /\ \A v \in Users : usr'[v].held = usr[v].held
         /\ usr'[C.by].pc = usr[C.by].pc /\ usr'[C.by].cur = C.port /\ usr'[C.by].reply = r
         /\ Waits(C.by, C.op, C.port) /\ job[C.by].pc = "none"
<1> USE DEF VInv
<1>1. C.by \in Users /\ C.port \in Ports /\ Waits(C.by, C.op, C.port) /\ job[C.by].pc = "none"
  BY HeadFacts DEF CmdOK
<1> DEFINE p == [usr[C.by] EXCEPT !.reply = r]
<1>2. usr[C.by] \in Proxies /\ usr \in [Users -> Proxies]
  BY <1>1 DEF Typed
<1>3. usr' = [usr EXCEPT ![C.by] = p]
  BY <1>1, <1>2 DEF Reply
<1>4. /\ p \in Proxies /\ p.pc = usr[C.by].pc /\ p.cur = usr[C.by].cur /\ p.reply = r
      /\ p.held = usr[C.by].held
  BY <1>2 DEF Proxies
<1> HIDE DEF p
<1>5. /\ usr' \in [Users -> Proxies] /\ usr'[C.by] = p
      /\ \A v \in Users : v # C.by => usr'[v] = usr[v]
  BY <1>1, <1>2, <1>3, <1>4
<1>6. UserOK'
  BY <1>4, <1>5 DEF UserOK
<1> QED BY <1>1, <1>4, <1>5, <1>6 DEF Waits

\* A look at some entries: all of them are either asked for or skipped.
LEMMA Prefetched ==
  ASSUME NEW S, Prefetch(S)
  PROVE  /\ fetched' \cup skipped' = fetched \cup skipped \cup {e \in S : e[2] \in HTTPS}
         /\ fetched' \subseteq fetched \cup S /\ skipped' \subseteq skipped \cup S
<1>1. PICK known \in SUBSET {e \in S : e[2] \in HTTPS /\ loop.rt = "node"} :
        /\ fetched' = fetched \cup known
        /\ skipped' = skipped \cup ({e \in S : e[2] \in HTTPS} \ known)
  BY DEF Prefetch
<1> QED BY <1>1

\* A command is read that concerns nobody's work.
LEMMA PlainTaken ==
  ASSUME VInv, Typed', Serving, queue # <<>>, queue' = Tail(queue), C.op \notin WorkOps,
         UNCHANGED <<listeners, refCount, pending, timer, node, tailnet, job, usr>>,
         loop'.phase = loop.phase \/ (loop'.phase = "drain" /\ loop.rt # "nil"),
         loop'.state = loop.state,
         \/ loop'.rt = loop.rt /\ loop'.gen = loop.gen
         \/ loop.rt = "nil" /\ loop'.rt = "subs",
         CertsAskedFor'
  PROVE  VInv'
<1> USE DEF VInv
<1>1. /\ Serving /\ Answering /\ Serving' /\ Answering' /\ Jobs' = Jobs
      /\ loop'.phase = "run" => loop.phase = "run"
  BY DEF Serving, Answering, Jobs
<1>2. /\ queue \in Seq(Commands)
      /\ \A i \in 1 .. Len(queue) :
           (i = 1 /\ queue[i] = C) \/ (i - 1 \in 1 .. Len(queue') /\ queue'[i - 1] = queue[i])
  BY <1>1, HeadFacts
<1>3. UserOK'
  BY DEF UserOK
<1>4. JobsOK'
  BY <1>1 DEF JobsOK, JobOK, Waits, Lis, tailnet, collectExistingServicePorts
<1>5. QueueOK'
  <2>1. \A d \in Commands : CmdOK(d) => CmdOK(d)'
    BY <1>1 DEF CmdOK, Waits, tailnet, WorkOps, Results
  <2> QED BY <1>1, <1>2, <2>1, QueueTaken
<1>6. OpenOK'
  <2> SUFFICES ASSUME NEW o \in open PROVE Owned(o)'
    BY <1>1 DEF OpenOK, tailnet
  <2>1. Owned(o)
    BY <1>1 DEF OpenOK
  <2>2. C.op # "acquired"
    BY DEF WorkOps, Results
  <2>3. \A i \in 1 .. Len(queue) :
          queue[i].op = "acquired" => i - 1 \in 1 .. Len(queue') /\ queue'[i - 1] = queue[i]
    BY <1>2, <2>2
  <2> QED BY <2>1, <2>3 DEF Owned
<1>7. OrphansOK'
  BY <1>1 DEF OrphansOK
<1>8. LoopOK'
  <2>1. \/ loop'.rt = loop.rt /\ loop'.gen = loop.gen
        \/ loop.rt = "nil" /\ loop'.rt = "subs" /\ loop'.phase = loop.phase
    OBVIOUS
  <2>2. loop'.phase \in {"drain", "idling", "closing"} => loop'.rt # "nil"
    BY <1>1, <2>1 DEF LoopOK
  <2>3. loop'.phase # "exit"
    BY <1>1 DEF Serving
  <2>4. /\ loop'.rt # "node" => listeners' = {}
        /\ loop'.rt = "nil" => loop'.state = "idle"
        /\ loop'.rt = "node" => node'[loop'.gen] = "up"
    BY <1>1, <2>1 DEF LoopOK
  <2>5. loop'.phase = "run" => /\ loop'.rt = "node" => loop'.state = "running"
                              /\ loop'.state = "running" <=> refCount' > 0 \/ pending' > 0
    BY <1>1, <2>1 DEF LoopOK
  <2> QED BY <1>1, <2>2, <2>3, <2>4, <2>5 DEF LoopOK
<1>9. CountOK'
  <2>1. C.op \notin Results
    BY DEF WorkOps
  <2>2. Cardinality(Reported(queue')) = Cardinality(Reported(queue))
    BY <1>2, <2>1, ReportedTaken, ReportedFinite
  <2> QED BY <1>1, <2>2 DEF CountOK
<1>10. RegOK'
  <2>1. loop'.gen = loop.gen \/ listeners = {}
    BY DEF LoopOK
  <2> QED BY <1>1, <2>1 DEF RegOK, tailnet
<1> QED BY <1>3, <1>4, <1>5, <1>6, <1>7, <1>8, <1>9, <1>10

\* Events, subscriptions and their end.
LEMMA PlainSteps ==
  ASSUME VInv, HandleWatch \/ HandleSubscribe \/ HandleUnsubscribe
  PROVE  VInv'
<1>1. /\ loop.phase = "run" /\ Serving /\ queue # <<>> /\ queue' = Tail(queue) /\ C.op \notin WorkOps
      /\ UNCHANGED <<config, listeners, refCount, pending, timer, nodes, tailnet, job, usr,
                     closer, crashed>>
  BY DEF HandleWatch, HandleSubscribe, HandleUnsubscribe, Take, Alive, WorkOps, Results,
         Serving
<1>2. queue' \in Seq(Commands) /\ Len(queue') <= QueueCap /\ CmdOK(C)
  BY <1>1, HeadFacts
<1>3. fwd \in [Users -> Forwarders] /\ loop \in Loops
  BY DEF VInv, Typed
<1>4. CASE HandleWatch
  <2>1. fwd' \in [Users -> Forwarders]
    <3>1. \A v \in Users : [fwd[v] EXCEPT !.inbox = TRUE] \in Forwarders
      BY <1>3 DEF Forwarders
    <3> QED BY <1>3, <1>4, <3>1 DEF HandleWatch
  <2>2. /\ loop' \in Loops /\ loop'.phase = "run" /\ loop'.state = loop.state
        /\ loop'.rt = loop.rt /\ loop'.gen = loop.gen
    BY <1>1, <1>3, <1>4 DEF HandleWatch, Loops
  <2>3. /\ fetched' \subseteq Users \X Ports /\ skipped' \subseteq Users \X Ports
        /\ CertsAskedFor'
    <3>1. CASE UNCHANGED <<loop, fetched, skipped>>
      BY <1>1, <1>4, <3>1 DEF VInv, Typed, CertsAskedFor, HandleWatch
    <3>2. CASE ~loop.running /\ Prefetch(listeners) /\ loop' = [loop EXCEPT !.running = TRUE]
      <4>1. fetched = {} /\ skipped = {}
        BY <1>1, <3>2 DEF VInv, CertsAskedFor
      <4>2. /\ fetched' \cup skipped' = {e \in listeners : e[2] \in HTTPS}
            /\ fetched' \subseteq listeners /\ skipped' \subseteq listeners
        BY <3>2, <4>1, Prefetched
      <4>3. loop' = [loop EXCEPT !.running = TRUE] /\ listeners' = listeners
        BY <1>1, <1>4, <3>2 DEF HandleWatch
      <4> QED BY <1>1, <1>3, <4>2, <4>3 DEF VInv, Typed, Loops, CertsAskedFor
    <3> QED BY <1>4, <3>1, <3>2 DEF HandleWatch
  <2>4. subs' = subs
    BY <1>4 DEF HandleWatch
  <2>5. Typed'
    BY <1>1, <1>2, <2>1, <2>2, <2>3, <2>4 DEF VInv, Typed, nodes, tailnet
  <2>6. CertsAskedFor'
    BY <2>3
  <2>7. loop'.phase = loop.phase /\ node' = node
    BY <1>1, <2>2 DEF nodes
  <2>8. UNCHANGED <<listeners, refCount, pending, timer, node, tailnet, job, usr>>
    BY <1>1, <2>7
  <2> QED BY <1>1, <2>2, <2>5, <2>6, <2>7, <2>8, PlainTaken
<1>5. CASE HandleSubscribe \/ HandleUnsubscribe
  <2>1. C.by \in Users
    BY <1>2, <1>5 DEF CmdOK, HandleSubscribe, HandleUnsubscribe, Take
  <2>2. fwd' \in [Users -> Forwarders]
    <3>1. \A h \in {"none", "open", "closed"} :
            [fwd[C.by] EXCEPT !.reply = "ok", !.ch = h] \in Forwarders
      BY <1>3, <2>1 DEF Forwarders
    <3>2. fwd[C.by].ch \in {"none", "open", "closed"}
      BY <1>3, <2>1 DEF Forwarders
    <3>3. CASE HandleSubscribe
      BY <1>3, <2>1, <3>1, <3>3 DEF HandleSubscribe
    <3>4. CASE HandleUnsubscribe
      BY <1>3, <2>1, <3>1, <3>2, <3>4 DEF HandleUnsubscribe
    <3> QED BY <1>5, <3>3, <3>4
  <2>3. /\ loop' \in Loops /\ loop'.phase = "run" /\ loop'.state = loop.state
        /\ loop'.running = loop.running
        /\ \/ loop'.rt = loop.rt /\ loop'.gen = loop.gen
           \/ loop.rt = "nil" /\ loop'.rt = "subs"
    <3>1. 0 \in Gens
      BY CapType DEF Gens
    <3> QED BY <1>1, <1>3, <1>5, <3>1 DEF HandleSubscribe, HandleUnsubscribe, Loops
  <2>4. fetched' = fetched /\ skipped' = skipped /\ subs' \subseteq Users
    BY <1>5, <2>1 DEF HandleSubscribe, HandleUnsubscribe, VInv, Typed
  <2>5. Typed'
    BY <1>1, <1>2, <2>2, <2>3, <2>4 DEF VInv, Typed, nodes, tailnet
  <2>6. CertsAskedFor'
    BY <1>1, <2>3, <2>4 DEF VInv, CertsAskedFor
  <2>7. loop'.phase = loop.phase /\ node' = node
    BY <1>1, <2>3 DEF nodes
  <2>8. UNCHANGED <<listeners, refCount, pending, timer, node, tailnet, job, usr>>
    BY <1>1, <2>7
  <2> QED BY <1>1, <2>3, <2>5, <2>6, <2>7, <2>8, PlainTaken
<1> QED BY <1>4, <1>5

\* The other jobs and commands when the work of one proxy is answered.
LEMMA AnsweredRest ==
  ASSUME VInv, Serving, queue # <<>>, queue' = Tail(queue), C.op \in WorkOps,
         NEW r \in {"ok", "error"}, Reply(C.by, r),
         UNCHANGED <<loop, job>>, vip' = vip,
         \A v \in Users : v # C.by =>
           /\ \A q \in Ports, g \in Gens : <<v, q, g>> \in open => <<v, q, g>> \in open'
           /\ \A q \in Ports : <<v, q>> \in listeners' <=> <<v, q>> \in listeners
  PROVE  JobsOK' /\ QueueOK'
<1> USE DEF VInv
<1>1. /\ C.by \in Users /\ C.port \in Ports /\ job[C.by].pc = "none"
      /\ \A v \in Users : v # C.by => usr'[v] = usr[v]
  BY Answered
<1>2. /\ Serving' = Serving /\ Answering' = Answering /\ Jobs' = Jobs /\ Answering
      /\ loop.gen \in Gens /\ queue \in Seq(Commands)
  BY DEF Serving, Answering, Jobs, Typed, Loops
<1>3. JobsOK'
  <2> SUFFICES ASSUME NEW v \in Jobs PROVE JobOK(v)'
    BY <1>2 DEF JobsOK
  <2>1. v \in Users /\ v # C.by /\ JobOK(v) /\ usr'[v] = usr[v]
    BY <1>1 DEF Jobs, JobsOK
  <2>2. job[v].port \in Ports /\ (<<v, job[v].port>> \in listeners' <=> <<v, job[v].port>> \in listeners)
    BY <2>1 DEF JobOK
  <2>3. Lis(v) \in open => Lis(v) \in open'
    BY <1>2, <2>1, <2>2 DEF Lis, JobOK
  <2>4. collectExistingServicePorts(listeners', v) = collectExistingServicePorts(listeners, v)
    BY <2>1 DEF collectExistingServicePorts
  <2> QED BY <2>1, <2>2, <2>3, <2>4 DEF JobOK, Waits, Lis
<1>4. QueueOK'
  <2>1. ASSUME NEW d \in Commands, CmdOK(d), Apart(C, d) PROVE CmdOK(d)'
    <3>1. CASE d.op \notin WorkOps
      BY <2>1, <3>1 DEF CmdOK, WorkOps, Results
    <3>2. CASE d.op \in WorkOps
      <4>1. d.by \in Users /\ d.by # C.by /\ d.port \in Ports /\ usr'[d.by] = usr[d.by]
        BY <1>1, <2>1, <3>2 DEF CmdOK, Apart
      <4>2. <<d.by, d.port>> \in listeners' <=> <<d.by, d.port>> \in listeners
        BY <4>1
      <4>3. d.op \in Results => d.gen \in Gens
        BY <1>2, <2>1 DEF CmdOK
      <4>4. d.op = "acquired" /\ <<d.by, d.port, d.gen>> \in open => <<d.by, d.port, d.gen>> \in open'
        BY <4>1, <4>3 DEF Results
      <4> QED BY <1>2, <2>1, <4>1, <4>2, <4>4 DEF CmdOK, Waits
    <3> QED BY <3>1, <3>2
  <2> QED BY <1>2, <2>1, QueueTaken
<1> QED BY <1>3, <1>4

\* A listener that the command read does not own keeps its owner.
LEMMA OwnedRest ==
  ASSUME VInv, Serving, queue # <<>>, queue' = Tail(queue), UNCHANGED <<loop, job>>,
         NEW o \in open,
         \/ C.op # "acquired" \/ C.result # "ok" \/ C.by # o[1] \/ C.port # o[2],
         <<o[1], o[2]>> \in listeners => <<o[1], o[2]>> \in listeners'
  PROVE  Owned(o)'
<1>1. Owned(o)
  BY DEF VInv, OpenOK
<1>2. \A i \in 1 .. Len(queue) :
        (i = 1 /\ queue[i] = C) \/ (i - 1 \in 1 .. Len(queue') /\ queue'[i - 1] = queue[i])
  BY HeadFacts
<1> QED BY <1>1, <1>2 DEF Owned

\* A result is read that brings no listener: with nothing left the server goes
\* idle, and only then.
LEMMA SettledStep ==
  ASSUME VInv, loop.phase = "run", queue # <<>>, queue' = Tail(queue), C.op \in Results,
         ~(C.op = "acquired" /\ C.result = "ok"),
         NEW r \in {"ok", "error"}, Reply(C.by, r), r = "ok" => C.op = "released",
         MaybeIdle(refCount, pending - 1), timer' = FALSE,
         UNCHANGED <<config, subs, bridge, job, fwd, closer, crashed>>
  PROVE  VInv'
<1> USE DEF VInv
<1>1. Serving /\ Answering /\ C.op \in WorkOps /\ Jobs' = Jobs
  BY DEF Serving, Answering, WorkOps, Jobs
<1>2. /\ queue' \in Seq(Commands) /\ Len(queue') <= QueueCap
      /\ queue \in Seq(Commands) /\ C \in Commands /\ CmdOK(C)
      /\ \A i \in 1 .. Len(queue') : queue'[i] \in Commands
  BY <1>1, HeadFacts
<1>3. /\ C.by \in Users /\ C.port \in Ports /\ usr' \in [Users -> Proxies] /\ UserOK'
      /\ \A v \in Users : v # C.by => usr'[v] = usr[v]
      /\ \A v \in Users : usr'[v].held = usr[v].held
      /\ usr'[C.by].pc = usr[C.by].pc /\ usr'[C.by].cur = C.port /\ usr'[C.by].reply = r
      /\ Waits(C.by, C.op, C.port) /\ job[C.by].pc = "none"
  BY <1>1, Answered
<1>4. /\ Cardinality(Reported(queue')) = Cardinality(Reported(queue)) - 1
      /\ Cardinality(Reported(queue)) \in Nat /\ Cardinality(Reported(queue')) \in Nat
      /\ IsFiniteSet(Reported(queue'))
  BY <1>2, ReportedTaken, ReportedFinite
<1>5. /\ Cardinality(Jobs) \in Nat /\ pending = Cardinality(Jobs) + Cardinality(Reported(queue))
      /\ pending >= 1 /\ Cardinality(listeners) \in Nat /\ refCount = Cardinality(listeners)
      /\ IsFiniteSet(Jobs) /\ IsFiniteSet(listeners)
  <2>1. IsFiniteSet(Jobs) /\ IsFiniteSet(listeners) /\ refCount = Cardinality(listeners)
        /\ pending = Cardinality(Jobs) + Cardinality(Reported(queue))
    BY <1>1 DEF CountOK
  <2>2. Cardinality(Jobs) \in Nat /\ Cardinality(listeners) \in Nat
    BY <2>1, FS_CardinalityType
  <2> QED BY <1>4, <2>1, <2>2
<1>6. loop.rt # "nil" /\ loop.state = "running" /\ loop \in Loops
  BY <1>2, <1>5 DEF CmdOK, LoopOK, Typed
<1>7. \A v \in Users : usr'[v].pc = "acquiring" /\ usr'[v].reply = "ok" => v # C.by
  BY <1>3 DEF Waits
<1>8. timer' \in BOOLEAN
  OBVIOUS
<1>9. CASE refCount <= 0 /\ pending - 1 <= 0
  <2>1. StopBegins("idling", loop.rt)
    BY <1>9 DEF MaybeIdle
  <2>2. listeners = {} /\ Jobs = {} /\ Reported(queue') = {}
    BY <1>4, <1>5, <1>9, FS_EmptySet
  <2>3. /\ loop' = [loop EXCEPT !.phase = "idling", !.state = "idle"]
        /\ listeners' = {} /\ refCount' = 0 /\ pending' = 0 /\ fetched' = {} /\ skipped' = {}
        /\ open' = {o \in open : o[3] # loop.gen}
        /\ node' = IF loop.rt = "node" THEN [node EXCEPT ![loop.gen] = "stopped"] ELSE node
    BY <2>1 DEF StopBegins
  <2>4. /\ loop' \in Loops /\ loop'.phase = "idling" /\ loop'.state = "idle" /\ loop'.rt = loop.rt
        /\ loop'.gen = loop.gen
    BY <1>6, <2>3 DEF Loops, Phases
  <2>5. open' = {}
    BY <1>1, <2>3 DEF OpenOK, Owned
  <2>6. vip' \in [Users -> SUBSET Ports] /\ node' \in [Gens -> {"none", "up", "stopped"}]
    <3>1. PICK deleted : vip' = [u \in Users |-> IF u \in deleted THEN {} ELSE vip[u]]
      BY <2>1 DEF StopBegins
    <3> QED BY <2>3, <3>1 DEF Typed
  <2>7. Typed'
    <3>1. /\ refCount' \in Int /\ pending' \in Int /\ listeners' \subseteq Users \X Ports
          /\ fetched' \subseteq Users \X Ports /\ skipped' \subseteq Users \X Ports
          /\ open' \subseteq Users \X Ports \X Gens
      BY <2>3, <2>5
    <3> QED BY <1>2, <1>3, <1>8, <2>4, <2>6, <3>1 DEF Typed
  <2>8. ~Serving' /\ Answering'
    BY <2>4 DEF Serving, Answering
  <2>9. JobsOK' /\ OpenOK' /\ OrphansOK' /\ CertsAskedFor'
    BY <1>1, <2>2, <2>3, <2>4, <2>5, <2>8 DEF JobsOK, OpenOK, OrphansOK, CertsAskedFor
  <2>10. QueueOK'
    <3>1. ASSUME NEW i \in 1 .. Len(queue'), NEW d \in Commands, d = queue'[i],
                 CmdOK(d), Apart(C, d)
          PROVE  CmdOK(d)'
      <4>1. d.op \notin Results /\ d.op # "release"
        BY <2>2, <3>1 DEF Reported, CmdOK
      <4>2. d.op \in WorkOps => d.by \in Users /\ usr'[d.by] = usr[d.by]
        BY <1>1, <1>3, <3>1 DEF CmdOK, Apart
      <4> QED BY <3>1, <4>1, <4>2 DEF CmdOK, Waits, Results
    <3> QED BY <1>1, <1>2, <3>1, QueueTaken
  <2>11. LoopOK'
    BY <1>6, <2>3, <2>4, <2>8 DEF LoopOK
  <2>12. CountOK'
    <3>1. Jobs' = {} /\ Reported(queue)' = {} /\ listeners' = {} /\ refCount' = 0 /\ pending' = 0
      BY <1>1, <2>2, <2>3 DEF Reported
    <3>2. IsFiniteSet({}) /\ Cardinality({}) = 0
      BY FS_EmptySet
    <3>3. IsFiniteSet(listeners') /\ refCount' = Cardinality(listeners') /\ IsFiniteSet(Jobs')
      BY <3>1, <3>2
    <3>4. pending' = Cardinality(Jobs') + Cardinality(Reported(queue)')
      <4>1. Cardinality(Jobs') = 0 /\ Cardinality(Reported(queue)') = 0
        BY <3>1, <3>2, Zenon
      <4> QED BY <3>1, <4>1
    <3> QED BY <3>3, <3>4 DEF CountOK
  <2>13. RegOK'
    BY <1>1, <1>3, <1>7, <2>2, <2>3, <2>4 DEF RegOK
  <2> QED BY <1>3, <2>7, <2>9, <2>10, <2>11, <2>12, <2>13
<1>10. CASE ~(refCount <= 0 /\ pending - 1 <= 0)
  <2>1. /\ refCount' = refCount /\ pending' = pending - 1
        /\ UNCHANGED <<loop, listeners, fetched, skipped, node, open, vip>>
    BY <1>10 DEF MaybeIdle, tailnet
  <2>2. Typed'
    <3>1. refCount' \in Int /\ pending' \in Int
      BY <2>1 DEF Typed
    <3> QED BY <1>2, <1>3, <1>8, <2>1, <3>1 DEF Typed
  <2>3. JobsOK' /\ QueueOK'
    BY <1>1, <2>1, AnsweredRest
  <2>4. Serving' /\ Answering'
    BY <1>1, <2>1 DEF Serving, Answering
  <2>5. OpenOK'
    BY <1>1, <2>1, <2>4, OwnedRest DEF OpenOK
  <2>6. OrphansOK' /\ CertsAskedFor'
    BY <2>1, <2>4 DEF OrphansOK, CertsAskedFor
  <2>7. LoopOK'
    <3>1. refCount' > 0 \/ pending' > 0
      BY <1>5, <1>10, <2>1
    <3> QED BY <1>6, <2>1, <2>4, <3>1 DEF LoopOK
  <2>8. CountOK'
    BY <1>1, <1>4, <1>5, <2>1 DEF CountOK
  <2>9. RegOK'
    BY <1>1, <1>3, <1>7, <2>1 DEF RegOK
  <2> QED BY <1>3, <2>2, <2>3, <2>5, <2>6, <2>7, <2>8, <2>9
<1> QED BY <1>9, <1>10

\* The result of an acquire.
LEMMA HandleAcquiredStep ==
  ASSUME VInv, HandleAcquired
  PROVE  VInv'
<1> USE DEF VInv
<1>1. /\ loop.phase = "run" /\ queue # <<>> /\ queue' = Tail(queue) /\ C.op = "acquired"
      /\ timer' = FALSE /\ UNCHANGED <<config, subs, bridge, job, fwd, closer, crashed>>
  BY DEF HandleAcquired, Take, Alive
<1>2. Serving /\ Answering /\ C.op \in WorkOps /\ C.op \in Results /\ Jobs' = Jobs
  BY <1>1 DEF Serving, Answering, WorkOps, Results, Jobs
<1>3. /\ queue' \in Seq(Commands) /\ Len(queue') <= QueueCap
      /\ queue \in Seq(Commands) /\ C \in Commands /\ CmdOK(C)
  BY <1>1, <1>2, HeadFacts
<1>4. loop.rt # "nil" /\ C.gen = loop.gen /\ loop \in Loops
  BY <1>2, <1>3 DEF CmdOK, Typed
<1>5. CASE C.result # "ok"
  <2>1. Reply(C.by, "error") /\ MaybeIdle(refCount, pending - 1)
    BY <1>4, <1>5 DEF HandleAcquired
  <2> QED BY <1>1, <1>2, <1>5, <2>1, SettledStep
<1>6. CASE C.result = "ok"
  <2>1. /\ Entry \notin listeners /\ Reply(C.by, "ok")
        /\ listeners' = listeners \cup {Entry} /\ refCount' = refCount + 1
        /\ Prefetch(IF loop.running THEN {Entry} ELSE {})
        /\ loop' = [loop EXCEPT !.state = "running"]
        /\ pending' = pending - 1 /\ UNCHANGED <<node, open, vip>>
    BY <1>4, <1>6 DEF HandleAcquired, tailnet
  <2>2. /\ C.by \in Users /\ C.port \in Ports /\ usr' \in [Users -> Proxies] /\ UserOK'
        /\ \A v \in Users : v # C.by => usr'[v] = usr[v]
        /\ \A v \in Users : usr'[v].held = usr[v].held
        /\ usr'[C.by].cur = C.port
    BY <1>1, <1>2, <2>1, Answered
  <2>3. /\ Cardinality(Reported(queue')) = Cardinality(Reported(queue)) - 1
        /\ Cardinality(Reported(queue)) \in Nat /\ Cardinality(Reported(queue')) \in Nat
    BY <1>1, <1>2, <1>3, ReportedTaken, ReportedFinite
  <2>4. /\ Cardinality(Jobs) \in Nat /\ pending = Cardinality(Jobs) + Cardinality(Reported(queue))
        /\ IsFiniteSet(Jobs) /\ IsFiniteSet(listeners) /\ refCount = Cardinality(listeners)
        /\ Cardinality(listeners) \in Nat
    BY <1>2, FS_CardinalityType DEF CountOK
  <2>5. loop.state = "running" /\ loop' = loop
    <3>1. loop.state = "running"
      BY <1>1, <2>3, <2>4 DEF LoopOK
    <3> QED BY <1>4, <2>1, <3>1 DEF Loops
  <2>6. Entry = <<C.by, C.port>> /\ Entry \in Users \X Ports
    BY <2>2 DEF Entry
  <2>s. /\ fetched' \cup skipped' = fetched \cup skipped \cup
             {e \in IF loop.running THEN {Entry} ELSE {} : e[2] \in HTTPS}
        /\ fetched' \subseteq fetched \cup {Entry} /\ skipped' \subseteq skipped \cup {Entry}
    BY <2>1, Prefetched
  <2>7. timer' \in BOOLEAN /\ refCount' \in Int /\ pending' \in Int
        /\ listeners' \subseteq Users \X Ports /\ fetched' \subseteq Users \X Ports /\ skipped' \subseteq Users \X Ports
    <3>1. timer' \in BOOLEAN
      BY <1>1
    <3>2. refCount' \in Int /\ pending' \in Int
      BY <2>1 DEF Typed
    <3>3. listeners' \subseteq Users \X Ports /\ fetched' \subseteq Users \X Ports /\ skipped' \subseteq Users \X Ports
      BY <2>1, <2>s, <2>6 DEF Typed
    <3> QED BY <3>1, <3>2, <3>3
  <2>8. Typed'
    BY <1>1, <1>3, <2>1, <2>2, <2>5, <2>7 DEF Typed
  <2>9. \A v \in Users : v # C.by => \A q \in Ports : <<v, q>> \in listeners' <=> <<v, q>> \in listeners
    BY <2>1, <2>6
  <2>10. JobsOK' /\ QueueOK'
    BY <1>1, <1>2, <2>1, <2>5, <2>9, AnsweredRest
  <2>11. Serving' /\ Answering'
    BY <1>2, <2>5 DEF Serving, Answering
  <2>12. /\ loop.rt = "node" /\ C.port \in vip[C.by] /\ <<C.by, C.port, loop.gen>> \in open
    BY <1>1, <1>3, <1>4, <1>6 DEF CmdOK
  <2>13. OpenOK'
    <3> SUFFICES ASSUME NEW o \in open PROVE Owned(o)'
      BY <2>1, <2>11 DEF OpenOK
    <3>1. CASE C.by = o[1] /\ C.port = o[2]
      <4>1. Owned(o)
        BY <1>2 DEF OpenOK
      <4>2. <<o[1], o[2]>> \in listeners'
        BY <2>1, <2>6, <3>1
      <4> QED BY <2>5, <4>1, <4>2 DEF Owned
    <3>2. CASE C.by # o[1] \/ C.port # o[2]
      BY <1>1, <1>2, <2>1, <2>5, <3>2, OwnedRest
    <3> QED BY <3>1, <3>2
  <2>c. CertsAskedFor'
    BY <1>1, <1>2, <2>1, <2>s, <2>5 DEF CertsAskedFor
  <2>14. OrphansOK' /\ CertsAskedFor'
    BY <2>1, <2>5, <2>11, <2>c DEF OrphansOK
  <2>15. CountOK'
    <3>1. IsFiniteSet(listeners') /\ Cardinality(listeners') = Cardinality(listeners) + 1
      BY <2>1, <2>4, FS_AddElement
    <3> QED BY <1>2, <2>1, <2>3, <2>4, <3>1 DEF CountOK
  <2>16. LoopOK'
    BY <1>1, <2>1, <2>4, <2>5, <2>11, <2>12 DEF LoopOK
  <2>17. RegOK'
    <3>1. ASSUME NEW e \in listeners'
          PROVE  <<e[1], e[2], loop.gen>> \in open /\ e[2] \in vip[e[1]]
      <4>1. CASE e = Entry
        BY <2>6, <2>12, <4>1
      <4>2. CASE e \in listeners
        BY <1>1, <4>2 DEF RegOK
      <4> QED BY <2>1, <4>1, <4>2
    <3>2. ASSUME NEW v \in Users
          PROVE  /\ \A q \in usr'[v].held : <<v, q>> \in listeners'
                 /\ usr'[v].pc = "acquiring" /\ usr'[v].reply = "ok" =>
                      <<v, usr'[v].cur>> \in listeners'
      <4>1. CASE v = C.by
        BY <1>2, <2>1, <2>2, <2>6, <4>1 DEF RegOK
      <4>2. CASE v # C.by
        BY <1>2, <2>1, <2>2, <4>2 DEF RegOK
      <4> QED BY <4>1, <4>2
    <3> QED BY <1>1, <2>1, <2>5, <3>1, <3>2 DEF RegOK
  <2> QED BY <2>2, <2>8, <2>10, <2>13, <2>14, <2>15, <2>16, <2>17
<1> QED BY <1>5, <1>6

\* The result of a release.
LEMMA HandleReleasedStep ==
  ASSUME VInv, HandleReleased
  PROVE  VInv'
<1> USE DEF VInv
<1>1. /\ loop.phase = "run" /\ queue # <<>> /\ queue' = Tail(queue) /\ C.op = "released"
      /\ Reply(C.by, "ok") /\ UNCHANGED <<config, subs, bridge, job, fwd, closer, crashed>>
  BY DEF HandleReleased, Take, Alive
<1>2. Serving /\ Answering /\ C.op \in WorkOps /\ C.op \in Results
  BY <1>1 DEF Serving, Answering, WorkOps, Results
<1>3. queue \in Seq(Commands) /\ CmdOK(C)
  BY <1>1, <1>2, HeadFacts
<1>4. loop.rt # "nil" /\ C.gen = loop.gen /\ loop \in Loops
  BY <1>2, <1>3 DEF CmdOK, Typed
<1>5. MaybeIdle(refCount, pending - 1) /\ Reschedule
  BY <1>4 DEF HandleReleased
<1>6. loop.state = "running"
  <2>1. Cardinality(Reported(queue)) >= 1
    <3>1. queue' \in Seq(Commands)
      BY <1>1, <1>3, Taken
    <3>2. Cardinality(Reported(queue')) \in Nat /\ Cardinality(Reported(queue)) \in Nat
      BY <1>3, <3>1, ReportedFinite
    <3>3. Cardinality(Reported(queue')) = Cardinality(Reported(queue)) - 1
      BY <1>1, <1>2, <1>3, ReportedTaken
    <3> QED BY <3>2, <3>3
  <2>2. Cardinality(Jobs) \in Nat /\ pending = Cardinality(Jobs) + Cardinality(Reported(queue))
        /\ Cardinality(Reported(queue)) \in Nat
    BY <1>2, <1>3, ReportedFinite, FS_CardinalityType DEF CountOK
  <2> QED BY <1>1, <2>1, <2>2 DEF LoopOK
<1>7. timer' = FALSE
  <2>1. CASE refCount <= 0 /\ pending - 1 <= 0
    <3>1. loop'.phase = "idling"
      BY <1>4, <1>5, <2>1 DEF MaybeIdle, StopBegins, Loops
    <3> QED BY <1>5, <3>1 DEF Reschedule
  <2>2. CASE ~(refCount <= 0 /\ pending - 1 <= 0)
    <3>1. loop' = loop
      BY <1>5, <2>2 DEF MaybeIdle
    <3> QED BY <1>5, <1>6, <3>1 DEF Reschedule
  <2> QED BY <2>1, <2>2
<1> QED BY <1>1, <1>2, <1>5, <1>7, SettledStep

\* A port is given back: its listener is closed at once, the service is left to a job.
LEMMA HandleReleaseStep ==
  ASSUME VInv, HandleRelease
  PROVE  VInv'
<1> USE DEF VInv
<1>1. /\ loop.phase = "run" /\ queue # <<>> /\ queue' = Tail(queue) /\ C.op = "release"
      /\ Reschedule /\ UNCHANGED <<config, subs, nodes, vip, fwd, closer, crashed>>
  BY DEF HandleRelease, Take, Alive
<1>2. Serving /\ Answering /\ C.op \in WorkOps /\ C.op \notin Results
  BY <1>1 DEF Serving, Answering, WorkOps, Results
<1>3. /\ queue' \in Seq(Commands) /\ Len(queue') <= QueueCap
      /\ queue \in Seq(Commands) /\ CmdOK(C)
      /\ \A i \in 1 .. Len(queue) :
           (i = 1 /\ queue[i] = C) \/ (i - 1 \in 1 .. Len(queue') /\ queue'[i - 1] = queue[i])
  BY <1>1, <1>2, HeadFacts
<1>4. PICK u \in Users, q \in Ports :
        /\ u = C.by /\ q = C.port /\ Waits(u, "release", q) /\ job[u].pc = "none"
        /\ <<u, q>> \in listeners
  <2>1. C.by \in Users /\ C.port \in Ports /\ Waits(C.by, "release", C.port)
        /\ job[C.by].pc = "none" /\ <<C.by, C.port>> \in listeners
    BY <1>1, <1>2, <1>3 DEF CmdOK
  <2> QED BY <2>1
<1>5. loop.rt = "node" /\ loop.state = "running" /\ loop \in Loops /\ loop.gen \in Gens
  BY <1>1, <1>4 DEF LoopOK, Typed, Loops
<1> DEFINE e == <<u, q>>
           ports == collectExistingServicePorts(listeners', u)
           j == [NoJob EXCEPT !.pc = "api", !.op = "release", !.port = q, !.gen = loop.gen,
                              !.factory = loop.rt = "node", !.ports = ports]
<1>6. /\ listeners' = listeners \ {e} /\ refCount' = refCount - 1
      /\ pending' = pending + 1 /\ fetched' = fetched \ {e} /\ skipped' = skipped \ {e}
      /\ open' = open \ {<<u, q, loop.gen>>}
      /\ job' = [job EXCEPT ![u] = j]
      /\ UNCHANGED <<loop, usr>>
  BY <1>4, <1>5 DEF HandleRelease, Forget, Entry
<1>7. /\ j \in Workers /\ j.pc = "api" /\ j.op = "release" /\ j.port = q /\ j.gen = loop.gen
      /\ j.factory = TRUE /\ j.ports = ports /\ j.result = None
  <2>1. ports \in SUBSET Ports
    BY DEF collectExistingServicePorts
  <2> HIDE DEF ports
  <2> QED BY <1>4, <1>5, <2>1 DEF NoJob, Workers
<1> HIDE DEF j
<1>8. /\ job' \in [Users -> Workers] /\ job'[u] = j
      /\ \A v \in Users : v # u => job'[v] = job[v]
  BY <1>4, <1>6, <1>7 DEF Typed
<1>9. timer' = FALSE
  BY <1>1, <1>5, <1>6 DEF Reschedule
<1>10. Typed' /\ UserOK'
  <2>1. timer' \in BOOLEAN
    BY <1>9
  <2>2. refCount' \in Int /\ pending' \in Int
    BY <1>6 DEF Typed
  <2>3. listeners' \subseteq Users \X Ports /\ fetched' \subseteq Users \X Ports /\ skipped' \subseteq Users \X Ports
        /\ open' \subseteq Users \X Ports \X Gens
    BY <1>6 DEF Typed
  <2> QED BY <1>1, <1>3, <1>6, <1>8, <2>1, <2>2, <2>3 DEF Typed, UserOK, nodes
<1>11. Serving' /\ Answering' /\ Jobs' = Jobs \cup {u} /\ u \notin Jobs
  BY <1>2, <1>4, <1>6, <1>7, <1>8 DEF Serving, Answering, Jobs
<1>12. \A v \in Users : v # u =>
         /\ \A r \in Ports, g \in Gens : <<v, r, g>> \in open => <<v, r, g>> \in open'
         /\ \A r \in Ports : <<v, r>> \in listeners' <=> <<v, r>> \in listeners
  BY <1>6
<1>13. JobsOK'
  <2> SUFFICES ASSUME NEW v \in Jobs' PROVE JobOK(v)'
    BY DEF JobsOK
  <2>1. CASE v = u
    <3>1. JobOK(u)'
      BY <1>4, <1>5, <1>6, <1>7, <1>8, NoneFresh
        DEF JobOK, Waits, collectExistingServicePorts
    <3> QED BY <2>1, <3>1
  <2>2. CASE v # u
    <3>1. v \in Users /\ JobOK(v) /\ job'[v] = job[v]
      BY <1>2, <1>8, <1>11, <2>2 DEF Jobs, JobsOK
    <3>2. job[v].port \in Ports /\ (<<v, job[v].port>> \in listeners' <=> <<v, job[v].port>> \in listeners)
      BY <1>12, <2>2, <3>1 DEF JobOK
    <3>3. Lis(v) \in open => Lis(v) \in open'
      BY <1>5, <1>12, <2>2, <3>1, <3>2 DEF Lis, JobOK
    <3>4. collectExistingServicePorts(listeners', v) = collectExistingServicePorts(listeners, v)
      BY <1>12, <2>2, <3>1 DEF collectExistingServicePorts
    <3> QED BY <1>1, <1>6, <3>1, <3>2, <3>3, <3>4 DEF JobOK, Waits, Lis
  <2> QED BY <2>1, <2>2
<1>14. QueueOK'
  <2>1. ASSUME NEW d \in Commands, CmdOK(d), Apart(C, d) PROVE CmdOK(d)'
    <3>1. CASE d.op \notin WorkOps
      BY <2>1, <3>1 DEF CmdOK, WorkOps, Results
    <3>2. CASE d.op \in WorkOps
      <4>1. d.by \in Users /\ d.by # u /\ d.port \in Ports /\ job'[d.by] = job[d.by]
        BY <1>2, <1>4, <1>8, <2>1, <3>2 DEF CmdOK, Apart
      <4>2. <<d.by, d.port>> \in listeners' <=> <<d.by, d.port>> \in listeners
        BY <1>12, <4>1
      <4>3. d.op \in Results => d.gen \in Gens
        BY <1>5, <2>1 DEF CmdOK
      <4>4. d.op = "acquired" /\ <<d.by, d.port, d.gen>> \in open => <<d.by, d.port, d.gen>> \in open'
        BY <1>12, <4>1, <4>3 DEF Results
      <4> QED BY <1>1, <1>6, <1>11, <2>1, <4>1, <4>2, <4>4 DEF CmdOK, Waits
    <3> QED BY <3>1, <3>2
  <2> QED BY <1>1, <1>2, <1>3, <2>1, QueueTaken
<1>15. OpenOK'
  <2> SUFFICES ASSUME NEW o \in open' PROVE Owned(o)'
    BY <1>11 DEF OpenOK
  <2>1. /\ o \in open /\ o # <<u, q, loop.gen>> /\ Owned(o) /\ o \in Users \X Ports \X Gens
    BY <1>2, <1>6 DEF OpenOK, Typed
  <2>2. o[1] \in Users /\ o = <<o[1], o[2], o[3]>>
    BY <2>1
  <2>3. <<o[1], o[2]>> \in listeners => <<o[1], o[2]>> \in listeners'
    BY <1>6, <2>1, <2>2 DEF Owned
  <2>4. job[o[1]].pc # "none" => job'[o[1]] = job[o[1]]
    BY <1>4, <1>8, <2>2
  <2>5. \A i \in 1 .. Len(queue) :
          queue[i].op = "acquired" => i - 1 \in 1 .. Len(queue') /\ queue'[i - 1] = queue[i]
    BY <1>1, <1>3
  <2> QED BY <1>6, <2>1, <2>3, <2>4, <2>5 DEF Owned
<1>16. OrphansOK' /\ CertsAskedFor'
  BY <1>6, <1>11 DEF OrphansOK, CertsAskedFor
<1>17. /\ IsFiniteSet(Jobs) /\ IsFiniteSet(listeners) /\ refCount = Cardinality(listeners)
       /\ pending = Cardinality(Jobs) + Cardinality(Reported(queue))
       /\ Cardinality(Jobs) \in Nat /\ Cardinality(Reported(queue)) \in Nat
  BY <1>2, <1>3, ReportedFinite, FS_CardinalityType DEF CountOK
<1>18. CountOK'
  <2>1. IsFiniteSet(listeners') /\ refCount' = Cardinality(listeners')
    BY <1>4, <1>6, <1>17, FS_RemoveElement
  <2>2. IsFiniteSet(Jobs') /\ Cardinality(Jobs') = Cardinality(Jobs) + 1
    BY <1>11, <1>17, FS_AddElement
  <2>3. Cardinality(Reported(queue')) = Cardinality(Reported(queue))
    BY <1>1, <1>2, <1>3, <1>17, ReportedTaken
  <2> QED BY <1>6, <1>17, <2>1, <2>2, <2>3 DEF CountOK
<1>19. LoopOK'
  BY <1>1, <1>5, <1>6, <1>9, <1>11, <1>17 DEF LoopOK, nodes
<1>20. RegOK'
  <2>1. ASSUME NEW x \in listeners'
        PROVE  <<x[1], x[2], loop.gen>> \in open' /\ x[2] \in vip[x[1]]
    <3>1. x \in listeners /\ x # e /\ x \in Users \X Ports
      BY <1>6, <2>1 DEF Typed
    <3>2. x = <<x[1], x[2]>>
      BY <3>1
    <3>3. <<x[1], x[2], loop.gen>> \in open /\ x[2] \in vip[x[1]]
      BY <1>1, <3>1 DEF RegOK
    <3> QED BY <1>6, <3>1, <3>2, <3>3
  <2>2. ASSUME NEW v \in Users
        PROVE  /\ \A r \in usr'[v].held : <<v, r>> \in listeners'
               /\ usr'[v].pc = "acquiring" /\ usr'[v].reply = "ok" => <<v, usr'[v].cur>> \in listeners'
    <3>1. usr[u].pc = "releasing" /\ q \notin usr[u].held
      BY <1>4 DEF Waits, UserOK
    <3>2. /\ \A r \in usr[v].held : <<v, r>> \in listeners
          /\ usr[v].pc = "acquiring" /\ usr[v].reply = "ok" => <<v, usr[v].cur>> \in listeners
      BY <1>2 DEF RegOK
    <3> QED BY <1>6, <3>1, <3>2
  <2> QED BY <1>1, <1>6, <2>1, <2>2 DEF RegOK
<1> QED BY <1>10, <1>13, <1>14, <1>15, <1>16, <1>18, <1>19, <1>20

\* A command is answered and no more: an acquire that is refused, or anything
\* that is read while Close waits, where a listener that arrives is closed.
LEMMA AnsweredOnly ==
  ASSUME VInv, Serving, queue # <<>>, queue' = Tail(queue), C.op \in WorkOps,
         NEW r \in {"ok", "error"}, Reply(C.by, r),
         r = "ok" => C.op \in {"release", "released"},
         C.op \in Results => loop.phase = "drain",
         pending' = (IF C.op \in Results THEN pending - 1 ELSE pending),
         open' = (IF C.op = "acquired" THEN open \ {<<C.by, C.port, C.gen>>} ELSE open),
         timer' = FALSE,
         UNCHANGED <<config, loop, listeners, refCount, subs, fetched, skipped, node, bridge, vip, job,
                     fwd, closer, crashed>>
  PROVE  VInv'
<1> USE DEF VInv
<1>1. Serving' /\ Answering /\ Answering' /\ Jobs' = Jobs
  BY DEF Serving, Answering, Jobs
<1>2. /\ queue' \in Seq(Commands) /\ Len(queue') <= QueueCap
      /\ queue \in Seq(Commands) /\ C \in Commands /\ CmdOK(C)
  BY HeadFacts
<1>3. /\ C.by \in Users /\ C.port \in Ports /\ usr' \in [Users -> Proxies] /\ UserOK'
      /\ \A v \in Users : v # C.by => usr'[v] = usr[v]
      /\ \A v \in Users : usr'[v].held = usr[v].held
      /\ usr'[C.by].pc = usr[C.by].pc /\ usr'[C.by].reply = r
      /\ Waits(C.by, C.op, C.port)
  BY Answered
<1>4. Typed'
  <2>1. timer' \in BOOLEAN
    OBVIOUS
  <2>2. pending' \in Int
    BY DEF Typed
  <2>3. open' \subseteq Users \X Ports \X Gens
    BY DEF Typed
  <2> QED BY <1>2, <1>3, <2>1, <2>2, <2>3 DEF Typed
<1>5. \A v \in Users : v # C.by =>
        \A q \in Ports, g \in Gens : <<v, q, g>> \in open => <<v, q, g>> \in open'
  OBVIOUS
<1>6. JobsOK' /\ QueueOK'
  BY <1>5, AnsweredRest
<1>7. OpenOK'
  <2> SUFFICES ASSUME NEW o \in open' PROVE Owned(o)'
    BY <1>1 DEF OpenOK
  <2>1. o \in open /\ Owned(o) /\ o \in Users \X Ports \X Gens
    BY DEF OpenOK, Typed
  <2>2. o = <<o[1], o[2], o[3]>> /\ o[3] = loop.gen
    BY <2>1 DEF Owned
  <2>3. C.op = "acquired" => C.gen = loop.gen
    BY <1>2 DEF CmdOK, Results
  <2>4. C.op # "acquired" \/ C.by # o[1] \/ C.port # o[2]
    BY <2>2, <2>3
  <2> QED BY <2>1, <2>4, OwnedRest
<1>8. OrphansOK' /\ CertsAskedFor'
  BY <1>1 DEF OrphansOK, CertsAskedFor
<1>9. LoopOK'
  <2>1. loop.phase = "run" => pending' = pending
    OBVIOUS
  <2> QED BY <1>1, <2>1 DEF LoopOK
<1>10. CountOK'
  <2>1. /\ Cardinality(Reported(queue')) =
             Cardinality(Reported(queue)) - IF C.op \in Results THEN 1 ELSE 0
        /\ Cardinality(Reported(queue)) \in Nat
    BY <1>2, ReportedTaken, ReportedFinite
  <2>2. Cardinality(Jobs) \in Nat /\ pending = Cardinality(Jobs) + Cardinality(Reported(queue))
    BY <1>1, FS_CardinalityType DEF CountOK
  <2> QED BY <1>1, <2>1, <2>2 DEF CountOK
<1>11. RegOK'
  <2>1. ASSUME NEW v \in Users
        PROVE  /\ \A q \in usr'[v].held : <<v, q>> \in listeners'
               /\ usr'[v].pc = "acquiring" /\ usr'[v].reply = "ok" => <<v, usr'[v].cur>> \in listeners'
    <3>1. /\ \A q \in usr[v].held : <<v, q>> \in listeners
          /\ usr[v].pc = "acquiring" /\ usr[v].reply = "ok" => <<v, usr[v].cur>> \in listeners
      BY <1>1 DEF RegOK
    <3>2. v = C.by => ~(usr'[v].pc = "acquiring" /\ usr'[v].reply = "ok")
      BY <1>3 DEF Waits
    <3> QED BY <1>3, <3>1, <3>2
  <2>2. loop.phase = "run" => open' = open
    BY DEF Results
  <2> QED BY <2>1, <2>2 DEF RegOK
<1> QED BY <1>3, <1>4, <1>6, <1>7, <1>8, <1>9, <1>10, <1>11

\* An acquire is accepted: a node is started if there is no runtime, and a job
\* begins.  Without a runtime there is nothing yet that could be mistaken for
\* belonging to the new node.
LEMMA AcceptStep ==
  ASSUME VInv, HandleAcquire, Entry \notin listeners, pending' # pending
  PROVE  VInv'
<1> USE DEF VInv
<1>1. /\ loop.phase = "run" /\ queue # <<>> /\ queue' = Tail(queue) /\ C.op = "acquire"
      /\ timer' = FALSE
      /\ UNCHANGED <<config, listeners, refCount, subs, fetched, skipped, open, vip, usr,
                     fwd, closer, crashed>>
      /\ pending' = pending + 1
      /\ IF loop.state = "idle" /\ loop.rt = "nil"
         THEN StartRuntime
         ELSE loop' = [loop EXCEPT !.state = "running"] /\ UNCHANGED nodes
  BY DEF HandleAcquire, Take, Alive, tailnet, runtime
<1>2. Serving /\ Answering /\ C.op \in WorkOps /\ C.op \notin Results
  BY <1>1 DEF Serving, Answering, WorkOps, Results
<1>3. /\ queue' \in Seq(Commands) /\ Len(queue') <= QueueCap
      /\ queue \in Seq(Commands) /\ CmdOK(C)
      /\ \A i \in 1 .. Len(queue) :
           (i = 1 /\ queue[i] = C) \/ (i - 1 \in 1 .. Len(queue') /\ queue'[i - 1] = queue[i])
  BY <1>1, <1>2, HeadFacts
<1>4. PICK u \in Users, q \in Ports :
        /\ u = C.by /\ q = C.port /\ Waits(u, "acquire", q) /\ job[u].pc = "none"
        /\ <<u, q>> \notin listeners
  <2>1. C.by \in Users /\ C.port \in Ports /\ Waits(C.by, "acquire", C.port)
        /\ job[C.by].pc = "none" /\ <<C.by, C.port>> \notin listeners
    BY <1>1, <1>2, <1>3 DEF CmdOK, Entry
  <2> QED BY <2>1
<1>5. /\ loop \in Loops /\ node \in [Gens -> {"none", "up", "stopped"}]
      /\ bridge \in [Gens -> {"none", "waiting", "done"}]
  BY DEF Typed
<1>6. /\ loop' \in Loops /\ loop'.phase = "run" /\ loop'.state = "running" /\ loop'.rt # "nil"
      /\ loop'.gen \in Gens /\ (loop'.running => loop.running)
      /\ node' \in [Gens -> {"none", "up", "stopped"}]
      /\ bridge' \in [Gens -> {"none", "waiting", "done"}]
      /\ loop'.rt = "node" => node'[loop'.gen] = "up"
      /\ \/ /\ loop'.rt = loop.rt /\ loop'.gen = loop.gen /\ loop.rt # "nil"
            /\ loop'.running = loop.running
         \/ loop.rt = "nil" /\ loop'.rt = "node"
  <2>1. CASE loop.state = "idle" /\ loop.rt = "nil"
    <3>1. /\ loop.nextGen < MaxGen /\ loop.nextGen \in 0 .. MaxGen
          /\ loop' = [loop EXCEPT !.state = "running", !.rt = "node", !.gen = loop.nextGen,
                                  !.nextGen = @ + 1, !.running = FALSE]
          /\ node' = [node EXCEPT ![loop.nextGen] = "up"]
          /\ bridge' = [bridge EXCEPT ![loop.nextGen] = "waiting"]
      BY <1>1, <1>5, <2>1 DEF StartRuntime, Loops
    <3>2. loop.nextGen \in Gens /\ loop.nextGen + 1 \in 0 .. MaxGen
      BY <3>1, CapType DEF Gens
    <3>3. loop' \in Loops
      BY <1>5, <3>1, <3>2 DEF Loops
    <3>4. /\ loop'.phase = "run" /\ loop'.state = "running" /\ loop'.rt = "node"
          /\ loop'.gen = loop.nextGen /\ loop'.running = FALSE
      BY <1>1, <1>5, <3>1 DEF Loops
    <3> QED BY <1>5, <2>1, <3>1, <3>2, <3>3, <3>4
  <2>2. CASE ~(loop.state = "idle" /\ loop.rt = "nil")
    <3>1. loop' = [loop EXCEPT !.state = "running"] /\ node' = node /\ bridge' = bridge
      BY <1>1, <2>2 DEF nodes
    <3>2. loop.rt # "nil" /\ (loop.rt = "node" => node[loop.gen] = "up")
      BY <1>2, <2>2 DEF LoopOK
    <3>3. /\ loop' \in Loops /\ loop'.phase = "run" /\ loop'.state = "running"
          /\ loop'.rt = loop.rt /\ loop'.gen = loop.gen /\ loop'.running = loop.running
          /\ loop.gen \in Gens
      BY <1>1, <1>5, <3>1 DEF Loops
    <3> QED BY <1>5, <3>1, <3>2, <3>3
  <2> QED BY <2>1, <2>2
<1>7. loop.rt = "nil" => listeners = {} /\ open = {} /\ Jobs = {}
  BY <1>2 DEF LoopOK, OpenOK, Owned, JobsOK, JobOK
<1> DEFINE ports == collectServicePorts(u, q)
           j == [NoJob EXCEPT !.pc = "create", !.op = "acquire", !.port = q, !.gen = loop'.gen,
                              !.factory = loop'.rt = "node", !.ports = ports]
<1>8. job' = [job EXCEPT ![u] = j]
  BY <1>4 DEF HandleAcquire, Entry, runtime
<1>9. PICK w \in Workers :
        /\ job' = [job EXCEPT ![u] = w]
        /\ w.pc = "create" /\ w.op = "acquire" /\ w.port = q /\ w.gen = loop'.gen
        /\ w.factory <=> loop'.rt = "node"
        /\ w.ports = {q} \cup collectExistingServicePorts(listeners, u) /\ w.result = None
  <2>1. ports \in SUBSET Ports /\ ports = {q} \cup collectExistingServicePorts(listeners, u)
    BY <1>4 DEF collectServicePorts, collectExistingServicePorts
  <2> HIDE DEF ports
  <2>2. j \in Workers
    BY <1>4, <1>6, <2>1 DEF NoJob, Workers
  <2>3. /\ j.pc = "create" /\ j.op = "acquire" /\ j.port = q /\ j.gen = loop'.gen
        /\ j.factory = (loop'.rt = "node") /\ j.ports = ports /\ j.result = None
    BY DEF NoJob
  <2> HIDE DEF j
  <2> QED BY <1>8, <2>1, <2>2, <2>3
<1> HIDE DEF j, ports
<1>10. /\ job' \in [Users -> Workers] /\ job'[u] = w
       /\ \A v \in Users : v # u => job'[v] = job[v]
  BY <1>4, <1>9 DEF Typed
<1>11. Typed' /\ UserOK'
  <2>1. timer' \in BOOLEAN
    BY <1>1
  <2>2. pending' \in Int
    BY <1>1 DEF Typed
  <2> QED BY <1>1, <1>3, <1>6, <1>10, <2>1, <2>2 DEF Typed, UserOK
<1>12. Serving' /\ Answering' /\ Jobs' = Jobs \cup {u} /\ u \notin Jobs
  BY <1>4, <1>6, <1>9, <1>10 DEF Serving, Answering, Jobs
<1>13. JobsOK'
  <2> SUFFICES ASSUME NEW v \in Jobs' PROVE JobOK(v)'
    BY DEF JobsOK
  <2>1. CASE v = u
    <3>1. JobOK(u)'
      BY <1>1, <1>4, <1>6, <1>9, <1>10, NoneFresh DEF JobOK, Waits
    <3> QED BY <2>1, <3>1
  <2>2. CASE v # u
    <3>1. v \in Users /\ v \in Jobs /\ JobOK(v) /\ job'[v] = job[v]
      BY <1>2, <1>10, <1>12, <2>2 DEF Jobs, JobsOK
    <3>2. loop'.rt = loop.rt /\ loop'.gen = loop.gen
      BY <1>6, <1>7, <3>1
    <3> QED BY <1>1, <3>1, <3>2 DEF JobOK, Waits, Lis, collectExistingServicePorts
  <2> QED BY <2>1, <2>2
<1>14. QueueOK'
  <2>1. ASSUME NEW d \in Commands, CmdOK(d), Apart(C, d) PROVE CmdOK(d)'
    <3>1. d.op \in WorkOps => d.by \in Users /\ d.by # u /\ job'[d.by] = job[d.by]
      BY <1>2, <1>4, <1>10, <2>1 DEF CmdOK, Apart
    <3>2. d.op \in Results => loop'.rt = loop.rt /\ loop'.gen = loop.gen
      BY <1>6, <2>1 DEF CmdOK
    <3>3. d.op = "acquired" => d.op \in Results
      BY DEF Results
    <3> QED BY <1>1, <1>12, <2>1, <3>1, <3>2, <3>3 DEF CmdOK, Waits
  <2> QED BY <1>1, <1>2, <1>3, <2>1, QueueTaken
<1>15. OpenOK'
  <2> SUFFICES ASSUME NEW o \in open PROVE Owned(o)'
    BY <1>1, <1>12 DEF OpenOK
  <2>1. Owned(o) /\ o \in Users \X Ports \X Gens
    BY <1>2 DEF OpenOK, Typed
  <2>2. loop'.rt = loop.rt /\ loop'.gen = loop.gen
    BY <1>6, <1>7
  <2>3. o[1] \in Users /\ (job[o[1]].pc # "none" => job'[o[1]] = job[o[1]])
    BY <1>4, <1>10, <2>1
  <2>4. \A i \in 1 .. Len(queue) :
          queue[i].op = "acquired" => i - 1 \in 1 .. Len(queue') /\ queue'[i - 1] = queue[i]
    BY <1>1, <1>3
  <2> QED BY <1>1, <2>1, <2>2, <2>3, <2>4 DEF Owned
<1>16. OrphansOK' /\ CertsAskedFor'
  BY <1>1, <1>6, <1>7, <1>12 DEF OrphansOK, CertsAskedFor
<1>17. /\ IsFiniteSet(Jobs) /\ IsFiniteSet(listeners) /\ refCount = Cardinality(listeners)
       /\ pending = Cardinality(Jobs) + Cardinality(Reported(queue))
       /\ Cardinality(Jobs) \in Nat /\ Cardinality(Reported(queue)) \in Nat
       /\ Cardinality(listeners) \in Nat
  BY <1>2, <1>3, ReportedFinite, FS_CardinalityType DEF CountOK
<1>18. CountOK'
  <2>1. IsFiniteSet(Jobs') /\ Cardinality(Jobs') = Cardinality(Jobs) + 1
    BY <1>12, <1>17, FS_AddElement
  <2>2. Cardinality(Reported(queue')) = Cardinality(Reported(queue))
    BY <1>1, <1>2, <1>3, <1>17, ReportedTaken
  <2> QED BY <1>1, <1>17, <2>1, <2>2 DEF CountOK
<1>19. LoopOK'
  <2>1. loop'.rt # "node" => listeners' = {}
    BY <1>1, <1>6 DEF LoopOK
  <2>2. refCount' > 0 \/ pending' > 0
    BY <1>1, <1>17
  <2> QED BY <1>1, <1>6, <1>12, <2>1, <2>2 DEF LoopOK
<1>20. RegOK'
  <2>1. loop'.gen = loop.gen \/ listeners = {}
    BY <1>6, <1>7
  <2> QED BY <1>1, <1>2, <2>1 DEF RegOK
<1> QED BY <1>11, <1>13, <1>14, <1>15, <1>16, <1>18, <1>19, <1>20

\* An acquire: refused when the node does not start or the port is taken.
LEMMA HandleAcquireStep ==
  ASSUME VInv, HandleAcquire
  PROVE  VInv'
<1> USE DEF VInv
<1>1. /\ loop.phase = "run" /\ queue # <<>> /\ queue' = Tail(queue) /\ C.op = "acquire"
      /\ timer' = FALSE /\ UNCHANGED <<config, tailnet, fwd, closer, crashed>>
      /\ UNCHANGED <<listeners, refCount, subs, fetched, skipped>>
  BY DEF HandleAcquire, Take, Alive, runtime
<1>2. Serving /\ C.op \in WorkOps /\ C.op \notin Results
  BY <1>1 DEF Serving, WorkOps, Results
<1>3. CASE Entry \notin listeners /\ pending' # pending
  BY <1>3, AcceptStep
<1>4. CASE ~(Entry \notin listeners /\ pending' # pending)
  <2>1. pending # pending + 1 /\ loop \in Loops
    BY DEF Typed
  <2>2. loop.state = "idle" /\ loop.rt = "nil" => Entry \notin listeners
    BY DEF LoopOK
  <2>3. CASE loop.state = "idle" /\ loop.rt = "nil"
    <3>1. Reply(C.by, "error") /\ UNCHANGED <<loop, nodes, pending, job>>
      BY <1>4, <2>1, <2>2, <2>3 DEF HandleAcquire, runtime
    <3> QED BY <1>1, <1>2, <3>1, AnsweredOnly DEF nodes, tailnet
  <2>4. CASE ~(loop.state = "idle" /\ loop.rt = "nil")
    <3>1. /\ Reply(C.by, "error") /\ UNCHANGED <<nodes, pending, job>>
          /\ loop' = [loop EXCEPT !.state = "running"] /\ Entry \in listeners
      BY <1>4, <2>1, <2>4 DEF HandleAcquire
    <3>2. loop.state = "running"
      BY <1>1, <1>2, <3>1 DEF LoopOK
    <3>3. loop' = loop
      BY <2>1, <3>1, <3>2 DEF Loops
    <3> QED BY <1>1, <1>2, <3>1, <3>3, AnsweredOnly DEF nodes, tailnet
  <2> QED BY <2>3, <2>4
<1> QED BY <1>3, <1>4

\* Close stops the node: nothing is registered or open after that, and a job
\* that is still under way finds its context canceled.
LEMMA ClosingStep ==
  ASSUME VInv, Serving, loop.rt # "nil", StopBegins("closing", loop.rt), timer' = FALSE,
         queue' \in Seq(Commands), Len(queue') <= QueueCap,
         UNCHANGED <<config, subs, bridge, job, usr, fwd, closer, crashed>>
  PROVE  VInv'
<1> USE DEF VInv
<1>1. /\ loop' = [loop EXCEPT !.phase = "closing", !.state = "idle"]
      /\ listeners' = {} /\ refCount' = 0 /\ pending' = 0 /\ fetched' = {} /\ skipped' = {}
      /\ open' = {o \in open : o[3] # loop.gen}
      /\ node' = IF loop.rt = "node" THEN [node EXCEPT ![loop.gen] = "stopped"] ELSE node
  BY DEF StopBegins
<1>2. loop \in Loops /\ loop.gen \in Gens /\ node \in [Gens -> {"none", "up", "stopped"}]
  BY DEF Typed, Loops
<1>3. /\ loop' \in Loops /\ loop'.phase = "closing" /\ loop'.state = "idle" /\ loop'.rt = loop.rt
  BY <1>1, <1>2 DEF Loops, Phases
<1>4. open' = {}
  BY <1>1 DEF OpenOK, Owned
<1>5. vip' \in [Users -> SUBSET Ports] /\ node' \in [Gens -> {"none", "up", "stopped"}]
  <2>1. PICK deleted : vip' = [u \in Users |-> IF u \in deleted THEN {} ELSE vip[u]]
    BY DEF StopBegins
  <2> QED BY <1>1, <1>2, <2>1 DEF Typed
<1>6. Typed'
  <2>1. timer' \in BOOLEAN
    OBVIOUS
  <2>2. /\ refCount' \in Int /\ pending' \in Int /\ listeners' \subseteq Users \X Ports
        /\ fetched' \subseteq Users \X Ports /\ skipped' \subseteq Users \X Ports
        /\ open' \subseteq Users \X Ports \X Gens
    BY <1>1, <1>4
  <2> QED BY <1>3, <1>5, <2>1, <2>2 DEF Typed
<1>7. ~Serving' /\ ~Answering' /\ Jobs' = Jobs
  BY <1>3 DEF Serving, Answering, Jobs
<1>8. UserOK' /\ JobsOK' /\ QueueOK' /\ OpenOK' /\ CertsAskedFor' /\ RegOK'
  BY <1>1, <1>3, <1>4, <1>7 DEF UserOK, JobsOK, QueueOK, OpenOK, CertsAskedFor, RegOK
<1>9. OrphansOK'
  <2> SUFFICES ASSUME NEW u \in Jobs
               PROVE  job[u].gen \in Gens /\ (job[u].factory => node'[job[u].gen] = "stopped")
    BY <1>3, <1>7 DEF OrphansOK
  <2>1. job[u].gen = loop.gen /\ (job[u].factory <=> loop.rt = "node")
    BY DEF JobsOK, JobOK
  <2> QED BY <1>1, <1>2, <2>1
<1>10. LoopOK'
  BY <1>1, <1>3, <1>7 DEF LoopOK
<1>11. CountOK'
  BY <1>1, <1>7, FS_EmptySet DEF CountOK
<1> QED BY <1>6, <1>8, <1>9, <1>10, <1>11

\* Close of the server.
LEMMA HandleCloseStep ==
  ASSUME VInv, HandleClose
  PROVE  VInv'
<1> USE DEF VInv
<1>1. /\ loop.phase = "run" /\ queue # <<>> /\ queue' = Tail(queue) /\ C.op = "close"
      /\ timer' = FALSE /\ UNCHANGED <<config, bridge, job, usr, fwd, crashed>>
  BY DEF HandleClose, Take, Alive
<1>2. Serving /\ Answering /\ C.op \notin WorkOps
  BY <1>1 DEF Serving, Answering, WorkOps, Results
<1>3. queue' \in Seq(Commands) /\ Len(queue') <= QueueCap
  BY <1>1, <1>2, HeadFacts
<1>4. loop \in Loops /\ pending \in Int /\ timer' \in BOOLEAN /\ timer = FALSE
  <2>1. timer' \in BOOLEAN
    BY <1>1
  <2>2. timer = FALSE
    BY DEF LoopOK, Typed
  <2> QED BY <2>1, <2>2 DEF Typed
<1>5. CASE loop.rt = "nil"
  <2>1. /\ loop' = [loop EXCEPT !.phase = "exit"] /\ closer' = "returned"
        /\ UNCHANGED <<listeners, refCount, pending, subs, fetched, skipped, node, open, vip>>
    BY <1>5 DEF HandleClose, runtime, tailnet
  <2>2. /\ loop' \in Loops /\ loop'.phase = "exit" /\ loop'.rt = "nil" /\ loop'.state = loop.state
    BY <1>4, <1>5, <2>1 DEF Loops, Phases
  <2>3. listeners = {} /\ open = {} /\ Jobs = {} /\ Jobs' = Jobs /\ loop.state = "idle"
    <3>1. Jobs = {}
      BY <1>2, <1>5 DEF JobsOK, JobOK
    <3>2. open = {}
      BY <1>2, <1>5 DEF OpenOK, Owned
    <3> QED BY <1>1, <1>5, <3>1, <3>2 DEF LoopOK, Jobs
  <2>4. ~Serving' /\ ~Answering'
    BY <2>2 DEF Serving, Answering
  <2>5. Typed'
    BY <1>1, <1>3, <1>4, <2>1, <2>2 DEF Typed
  <2>6. UserOK' /\ JobsOK' /\ QueueOK' /\ OpenOK' /\ OrphansOK' /\ CertsAskedFor' /\ RegOK'
    BY <1>1, <2>1, <2>2, <2>3, <2>4
       DEF UserOK, JobsOK, QueueOK, OpenOK, OrphansOK, CertsAskedFor, RegOK
  <2>7. LoopOK'
    BY <1>1, <2>1, <2>2, <2>3, <2>4 DEF LoopOK
  <2>8. CountOK'
    BY <2>1, <2>3, <2>4 DEF CountOK
  <2> QED BY <2>5, <2>6, <2>7, <2>8
<1>6. CASE loop.rt # "nil" /\ pending > 0
  <2>1. /\ loop' = [loop EXCEPT !.phase = "drain"]
        /\ UNCHANGED <<listeners, refCount, pending, subs, fetched, skipped, node, tailnet, closer>>
    BY <1>6 DEF HandleClose, runtime
  <2>2. /\ loop' \in Loops /\ loop'.phase = "drain" /\ loop'.rt = loop.rt /\ loop'.gen = loop.gen
        /\ loop'.state = loop.state
    BY <1>4, <2>1 DEF Loops, Phases
  <2>3. Typed'
    BY <1>1, <1>3, <1>4, <2>1, <2>2 DEF Typed, tailnet
  <2>4. CertsAskedFor'
    BY <1>1, <1>4, <2>1, <2>2 DEF CertsAskedFor, Loops
  <2> QED BY <1>1, <1>2, <1>4, <1>6, <2>1, <2>2, <2>3, <2>4, PlainTaken
<1>7. CASE loop.rt # "nil" /\ ~(pending > 0)
  <2>1. StopBegins("closing", loop.rt) /\ UNCHANGED <<closer, subs>>
    BY <1>7 DEF HandleClose
  <2> QED BY <1>1, <1>2, <1>3, <1>7, <2>1, ClosingStep
<1> QED BY <1>5, <1>6, <1>7

\* A command that is read while Close waits for the jobs.
LEMMA DrainStep ==
  ASSUME VInv, Drain
  PROVE  VInv'
<1> USE DEF VInv
<1>1. /\ loop.phase = "drain" /\ queue # <<>> /\ queue' = Tail(queue)
      /\ pending' = (IF C.op \in Results THEN pending - 1 ELSE pending)
      /\ open' = (IF C.op = "acquired" THEN open \ {<<C.by, C.port, C.gen>>} ELSE open)
      /\ UNCHANGED <<config, loop, listeners, refCount, subs, fetched, skipped, timer, node, bridge, vip,
                     job, closer, crashed>>
  BY DEF Drain, Alive, Results, nodes
<1>2. Serving /\ (C.op \in WorkOps <=> C.op \in {"acquire", "acquired", "release", "released"})
  BY <1>1 DEF Serving, WorkOps, Results
<1>3. queue' \in Seq(Commands) /\ Len(queue') <= QueueCap /\ CmdOK(C)
  BY <1>1, <1>2, HeadFacts
<1>4. timer' = FALSE /\ timer' \in BOOLEAN
  BY <1>1 DEF LoopOK, Typed
<1>5. CASE C.op \in {"acquire", "acquired"}
  <2>1. Reply(C.by, "error") /\ UNCHANGED fwd
    BY <1>5 DEF Drain
  <2> QED BY <1>1, <1>2, <1>4, <1>5, <2>1, AnsweredOnly
<1>6. CASE C.op \in {"release", "released"}
  <2>1. Reply(C.by, "ok") /\ UNCHANGED fwd
    BY <1>6 DEF Drain
  <2> QED BY <1>1, <1>2, <1>4, <1>6, <2>1, AnsweredOnly
<1>7. CASE C.op \notin WorkOps
  <2>1. pending' = pending /\ open' = open /\ C.op \notin {"acquire", "acquired", "release", "released"}
    BY <1>1, <1>2, <1>7 DEF WorkOps, Results
  <2>2. usr' = usr /\ fwd' \in [Users -> Forwarders]
    <3>1. fwd \in [Users -> Forwarders]
      BY DEF Typed
    <3>2. CASE C.op \in {"subscribe", "unsubscribe"}
      <4>1. C.by \in Users
        BY <1>3, <3>2 DEF CmdOK
      <4>2. /\ [fwd[C.by] EXCEPT !.reply = "ok", !.ch = "open"] \in Forwarders
            /\ [fwd[C.by] EXCEPT !.reply = "ok"] \in Forwarders
        BY <3>1, <4>1 DEF Forwarders
      <4>3. CASE C.op = "subscribe"
        BY <3>1, <4>1, <4>2, <4>3 DEF Drain
      <4>4. CASE C.op = "unsubscribe"
        BY <3>1, <4>1, <4>2, <4>4 DEF Drain
      <4> QED BY <3>2, <4>3, <4>4
    <3>3. CASE C.op \notin {"subscribe", "unsubscribe"}
      BY <2>1, <3>1, <3>3 DEF Drain
    <3> QED BY <3>2, <3>3
  <2>3. Typed'
    BY <1>1, <1>3, <1>4, <2>1, <2>2 DEF Typed
  <2>4. CertsAskedFor'
    BY <1>1 DEF CertsAskedFor
  <2>5. UNCHANGED tailnet
    BY <1>1, <2>1 DEF tailnet
  <2> QED BY <1>1, <1>2, <1>7, <2>1, <2>2, <2>3, <2>4, <2>5, PlainTaken
<1> QED BY <1>2, <1>5, <1>6, <1>7

\* Close has waited long enough.
LEMMA DrainEndsStep ==
  ASSUME VInv, DrainEnds
  PROVE  VInv'
<1>1. /\ loop.phase = "drain" /\ StopBegins("closing", loop.rt)
      /\ UNCHANGED <<config, queue, subs, timer, bridge, job, usr, fwd, closer, crashed>>
  BY DEF DrainEnds, Alive, people
<1>2. Serving /\ loop.rt # "nil"
  BY <1>1 DEF VInv, LoopOK, Serving
<1>3. timer' = FALSE
  BY <1>1 DEF VInv, LoopOK, Typed
<1>4. queue' \in Seq(Commands) /\ Len(queue') <= QueueCap
  BY <1>1 DEF VInv, Typed
<1> QED BY <1>1, <1>2, <1>3, <1>4, ClosingStep

\* The node is gone: an idle server serves on, a closed one exits.
LEMMA StopEndsStep ==
  ASSUME VInv, StopEnds
  PROVE  VInv'
<1> USE DEF VInv
<1>1. /\ loop.phase \in {"idling", "closing"} /\ subs' = {}
      /\ fwd' = [u \in Users |-> IF u \in subs THEN [fwd[u] EXCEPT !.ch = "closed"] ELSE fwd[u]]
      /\ loop' = [loop EXCEPT !.phase = IF loop.phase = "closing" THEN "exit" ELSE "run",
                              !.rt = "nil", !.running = FALSE]
      /\ queue' = IF loop.phase = "closing" THEN <<>> ELSE queue
      /\ closer' = IF loop.phase = "closing" THEN "returned" ELSE closer
      /\ UNCHANGED <<config, listeners, refCount, pending, fetched, skipped, timer, node, bridge, open,
                     vip, job, usr, crashed>>
  BY DEF StopEnds, Alive, nodes, tailnet
<1>2. loop \in Loops /\ ~Serving /\ Jobs' = Jobs
  BY <1>1 DEF Typed, Serving, Jobs
<1>3. /\ loop' \in Loops /\ loop'.rt = "nil" /\ loop'.state = loop.state /\ loop'.running = FALSE
      /\ loop'.phase = IF loop.phase = "closing" THEN "exit" ELSE "run"
  BY <1>1, <1>2 DEF Loops, Phases
<1>4. listeners = {} /\ open = {} /\ loop.state = "idle"
  BY <1>2 DEF LoopOK, OpenOK
<1>5. Typed'
  <2>1. fwd' \in [Users -> Forwarders]
    <3>1. \A v \in Users : fwd[v] \in Forwarders /\ [fwd[v] EXCEPT !.ch = "closed"] \in Forwarders
      BY SMTT(30) DEF Typed, Forwarders
    <3> QED BY <1>1, <3>1
  <2>2. queue' \in Seq(Commands) /\ Len(queue') <= QueueCap
    <3>1. <<>> \in Seq(Commands) /\ Len(<<>>) = 0
      BY EmptySeq
    <3> QED BY <1>1, <3>1, CapType DEF Typed
  <2>3. closer' \in {"idle", "sent", "returned"}
    BY <1>1 DEF Typed
  <2>4. subs' \subseteq Users
    BY <1>1
  <2> QED BY <1>1, <1>3, <2>1, <2>2, <2>3, <2>4 DEF Typed
<1>6. CASE loop.phase = "closing"
  <2>1. loop'.phase = "exit" /\ ~Serving' /\ ~Answering'
    BY <1>3, <1>6 DEF Serving, Answering
  <2>2. UserOK' /\ JobsOK' /\ QueueOK' /\ OpenOK' /\ CertsAskedFor' /\ RegOK'
    BY <1>1, <1>3, <1>4, <2>1 DEF UserOK, JobsOK, QueueOK, OpenOK, CertsAskedFor, RegOK
  <2>3. OrphansOK'
    BY <1>1, <1>2, <2>1 DEF OrphansOK
  <2>4. LoopOK'
    BY <1>1, <1>3, <1>4, <2>1 DEF LoopOK
  <2>5. CountOK'
    BY <1>1, <1>2, <2>1 DEF CountOK
  <2> QED BY <1>5, <2>2, <2>3, <2>4, <2>5
<1>7. CASE loop.phase = "idling"
  <2>1. loop'.phase = "run" /\ Serving' /\ Answering' /\ Answering /\ queue' = queue
    BY <1>1, <1>3, <1>7 DEF Serving, Answering
  <2>2. Jobs = {} /\ \A d \in Commands : CmdOK(d) => d.op \notin Results
    BY <1>2, <1>7 DEF OrphansOK, CmdOK
  <2>3. queue \in Seq(Commands) /\ \A i \in 1 .. Len(queue) : queue[i].op \notin Results
    BY <2>1, <2>2 DEF QueueOK, Typed
  <2>4. Reported(queue) = {}
    BY <2>3 DEF Reported
  <2>5. pending = 0 /\ refCount = 0
    <3>1. IsFiniteSet({}) /\ Cardinality({}) = 0
      BY FS_EmptySet
    <3>2. Cardinality(Jobs) = 0 /\ Cardinality(Reported(queue)) = 0 /\ Cardinality(listeners) = 0
      BY <1>4, <2>2, <2>4, <3>1, Zenon
    <3> QED BY <2>1, <3>2 DEF CountOK
  <2>6. QueueOK'
    <3>1. \A d \in Commands : CmdOK(d) => CmdOK(d)'
      BY <1>1, <2>2 DEF CmdOK, Waits, Results
    <3> QED BY <2>1, <2>3, <3>1, QueueKept
  <2>7. JobsOK' /\ OpenOK' /\ OrphansOK' /\ CertsAskedFor' /\ UserOK'
    BY <1>1, <1>2, <1>3, <1>4, <2>1, <2>2
       DEF JobsOK, OpenOK, OrphansOK, CertsAskedFor, UserOK
  <2>8. LoopOK'
    BY <1>1, <1>3, <1>4, <2>1, <2>5 DEF LoopOK
  <2>9. CountOK'
    BY <1>1, <1>2, <2>1 DEF CountOK
  <2>10. RegOK'
    BY <1>1, <1>4, <2>1 DEF RegOK
  <2> QED BY <1>5, <2>6, <2>7, <2>8, <2>9, <2>10
<1> QED BY <1>1, <1>6, <1>7

-----------------------------------------------------------------------------
(* The invariant, and what follows from it. *)

\* A new server has no runtime, no jobs and no commands.
LEMMA InitVInv == Init => VInv
<1> SUFFICES ASSUME Init PROVE VInv
  OBVIOUS
<1>1. /\ config \in Configs /\ queue = <<>>
      /\ loop = [phase |-> "run", state |-> "idle", rt |-> "nil",
                 running |-> FALSE, gen |-> 0, nextGen |-> 0]
      /\ listeners = {} /\ refCount = 0 /\ pending = 0 /\ subs = {} /\ fetched = {} /\ skipped = {}
      /\ timer = FALSE
      /\ node = [g \in Gens |-> "none"] /\ bridge = [g \in Gens |-> "none"]
      /\ open = {} /\ vip = [u \in Users |-> {}]
      /\ closer = "idle" /\ crashed = FALSE
  BY DEF Init
<1>2. /\ job \in [Users -> Workers] /\ Jobs = {}
  BY DEF Init, NoJob, Workers, Jobs
<1>3. /\ usr \in [Users -> Proxies]
      /\ \A u \in Users : usr[u].pc = "new" /\ usr[u].held = {}
  <2>1. config.wants \in [Users -> SUBSET Ports]
    BY <1>1, ConfigsType
  <2>2. ASSUME NEW u \in Users
        PROVE  [pc |-> "new", todo |-> config.wants[u], cur |-> None, held |-> {},
                reply |-> None, stopCh |-> "nil"] \in Proxies
    BY <2>1 DEF Proxies
  <2> QED BY <2>2 DEF Init
<1>4. fwd \in [Users -> Forwarders]
  BY DEF Init, Forwarders
<1>5. queue \in Seq(Commands) /\ Len(queue) = 0
  BY <1>1, EmptySeq
<1>6. loop \in Loops
  BY <1>1, CapType DEF Loops, Phases, Gens
<1>7. Typed
  <2>1. timer \in BOOLEAN /\ crashed \in BOOLEAN
    BY <1>1
  <2>2. /\ node \in [Gens -> {"none", "up", "stopped"}]
        /\ bridge \in [Gens -> {"none", "waiting", "done"}] /\ vip \in [Users -> SUBSET Ports]
    BY <1>1
  <2>3. /\ refCount \in Int /\ pending \in Int /\ Len(queue) <= QueueCap
    BY <1>1, <1>5, CapType
  <2>4. /\ listeners \subseteq Users \X Ports /\ fetched \subseteq Users \X Ports
        /\ skipped \subseteq Users \X Ports
        /\ subs \subseteq Users /\ open \subseteq Users \X Ports \X Gens
        /\ config \in Configs /\ closer \in {"idle", "sent", "returned"}
    BY <1>1
  <2> QED BY <1>2, <1>3, <1>4, <1>5, <1>6, <2>1, <2>2, <2>3, <2>4 DEF Typed
<1>8. UserOK /\ RegOK
  BY <1>1, <1>3 DEF UserOK, RegOK
<1>9. JobsOK /\ OpenOK /\ OrphansOK /\ CertsAskedFor
  BY <1>1, <1>2 DEF JobsOK, OpenOK, OrphansOK, CertsAskedFor
<1>10. QueueOK
  BY <1>5 DEF QueueOK
<1>11. LoopOK
  BY <1>1 DEF LoopOK
<1>12. CountOK
  <2>1. Reported(queue) = {}
    BY <1>5 DEF Reported
  <2>2. IsFiniteSet({}) /\ Cardinality({}) = 0
    BY FS_EmptySet
  <2>3. Cardinality(Jobs) = 0 /\ Cardinality(Reported(queue)) = 0 /\ Cardinality(listeners) = 0
    BY <1>1, <1>2, <2>1, <2>2, Zenon
  <2>4. IsFiniteSet(Jobs) /\ IsFiniteSet(listeners)
    BY <1>1, <1>2, <2>2
  <2> QED BY <1>1, <2>3, <2>4 DEF CountOK
<1> QED BY <1>7, <1>8, <1>9, <1>10, <1>11, <1>12 DEF VInv

\* Every step of the proxies, the jobs, the bridge, Close and the loop keeps the
\* invariant.
LEMMA NextVInv == VInv /\ [Next]_vars => VInv'
<1> SUFFICES ASSUME VInv, [Next]_vars PROVE VInv'
  OBVIOUS
<1>1. ASSUME NEW u \in Users, UserStep(u) \/ StartFails(u) \/ CloseUser(u) PROVE VInv'
  <2>1. CASE \E q \in Ports : Acquire(u, q) \/ Release(u, q)
    BY <2>1, AcquireStep, ReleaseStep
  <2> QED BY <1>1, <2>1, UserElseStep DEF UserStep
<1>2. ASSUME NEW u \in Users, Forwarder(u) PROVE VInv'
  BY <1>2, ForwarderStep
<1>3. ASSUME NEW u \in Users, Job(u) PROVE VInv'
  BY <1>3, CreateServiceStep, ListenServiceStep, ApprovalStep, RollbackStep,
     ReleaseServiceStep, SendResultStep DEF Job
<1>4. ASSUME CloseServer \/ \E g \in Gens : Producer(g) PROVE VInv'
  BY <1>4, ProducerStep
<1>5. CASE Loop
  BY <1>5, HandleAcquireStep, HandleAcquiredStep, HandleReleaseStep, HandleReleasedStep,
     HandleCloseStep, DrainStep, DrainEndsStep, StopEndsStep, PlainSteps DEF Loop
<1>6. CASE UNCHANGED vars
  <2>1. Typed'
    BY <1>6 DEF vars, runtime, nodes, tailnet, people, VInv, Typed
  <2>2. /\ UNCHANGED <<loop, runtime, timer, node, tailnet, job, usr>> /\ queue' = queue
    BY <1>6 DEF vars, nodes, people
  <2> QED BY <2>1, <2>2, SideStep
<1> QED BY <1>1, <1>2, <1>3, <1>4, <1>5, <1>6 DEF Next

\* The work of every proxy is in one place at any time: a command, a job or a
\* result, and the listeners and counts of the runtime agree with those places.
THEOREM VInvariance == Spec => []VInv
BY InitVInv, NextVInv, PTL DEF Spec

\* What VInv says of the types implies the module's own type invariant.
LEMMA TypedOK == Typed => TypeOK
<1> SUFFICES ASSUME Typed PROVE TypeOK
  OBVIOUS
<1>1. ASSUME NEW u \in Users
      PROVE  /\ job[u].pc \in {"none", "create", "listen", "approve", "wait",
                               "rollback", "api", "send"}
             /\ usr[u].pc \in {"new", "acquire", "acquiring", "up", "release",
                               "releasing", "join", "closed"}
             /\ usr[u].held \subseteq Ports /\ usr[u].todo \subseteq Ports
             /\ usr[u].stopCh \in {"nil", "open", "closed"}
             /\ fwd[u].pc \in {"none", "subscribe", "subscribing", "loop", "select",
                               "deaf", "unsubscribe", "unsubscribing", "done"}
             /\ fwd[u].ch \in {"none", "open", "closed"}
  <2>1. job[u] \in Workers /\ usr[u] \in Proxies /\ fwd[u] \in Forwarders
    BY DEF Typed
  <2> QED BY <2>1 DEF Workers, Proxies, Forwarders
<1> QED BY <1>1 DEF Typed, TypeOK, Loops, Phases

\* As long as the server is not closed, a port that a proxy holds has an open
\* listener on a running node and its VIP service offers it, whatever jobs,
\* rollbacks, releases and restarts of the node are under way
\* (services_server.go, handleAcquireWorkResult and handleReleaseService).
THEOREM HeldOffered == Spec => []HeldIsOffered
<1>1. VInv => HeldIsOffered
  <2> SUFFICES ASSUME VInv, loop.phase \in {"run", "idling"},
                      NEW u \in Users, NEW q \in usr[u].held
               PROVE  /\ loop.rt = "node" /\ node[loop.gen] = "up" /\ loop.state = "running"
                      /\ <<u, q>> \in listeners /\ <<u, q, loop.gen>> \in open
                      /\ q \in vip[u]
    BY DEF HeldIsOffered
  <2>1. <<u, q>> \in listeners
    BY DEF VInv, RegOK, Answering
  <2>2. loop.rt = "node" /\ Serving
    BY <2>1 DEF VInv, LoopOK
  <2>3. loop.phase = "run"
    BY <2>2 DEF Serving
  <2>4. <<u, q, loop.gen>> \in open /\ q \in vip[u]
    BY <2>1, <2>3 DEF VInv, RegOK
  <2> QED BY <2>1, <2>2, <2>3, <2>4 DEF VInv, LoopOK
<1> QED BY <1>1, VInvariance, PTL

\* No listener is open but those of the runtime and of a job or a result on its
\* way to it: what a job has opened is closed by whoever learns that the runtime
\* is gone (stopRuntime, the drain of handleClose, the refused sendProducer).
THEOREM ListenersOwned == Spec => []NoLeakedListener
<1>1. VInv => NoLeakedListener
  <2> SUFFICES ASSUME VInv, NEW o \in open
               PROVE  \/ <<o[1], o[2]>> \in listeners /\ o[3] = loop.gen
                      \/ job[o[1]].port = o[2] /\ job[o[1]].gen = o[3]
                      \/ \E i \in 1 .. Len(queue) : /\ queue[i].op = "acquired"
                                                   /\ queue[i].by = o[1] /\ queue[i].port = o[2]
    BY DEF NoLeakedListener
  <2>1. Serving /\ Owned(o) /\ o[1] \in Users
    BY DEF VInv, OpenOK, Typed
  <2>2. o[1] \in Jobs => job[o[1]].gen = loop.gen
    BY <2>1 DEF VInv, JobsOK, JobOK
  <2> QED BY <2>1, <2>2 DEF Owned, Jobs
<1> QED BY <1>1, VInvariance, PTL

\* pendingCount is the number of jobs whose result has not been read, so neither
\* maybeTransitionToIdle nor handleClose overlooks one; a node that serves nobody
\* has a job whose result will look again, so the idle timer is never started.
THEOREM JobsAreCounted == Spec => []JobsCounted
<1>1. VInv => JobsCounted
  <2> SUFFICES ASSUME VInv PROVE JobsCounted
    OBVIOUS
  <2>1. TypeOK /\ ~timer
    BY TypedOK DEF VInv, LoopOK
  <2>2. loop.phase \in {"run", "drain"} =>
          pending = Cardinality({u \in Users : job[u].pc # "none"})
                    + Cardinality({i \in 1 .. Len(queue) : queue[i].op \in {"acquired", "released"}})
    BY DEF VInv, CountOK, Answering, Jobs, Reported, Results
  <2>3. loop.phase = "run" /\ loop.rt = "node" => refCount > 0 \/ pending > 0
    BY DEF VInv, LoopOK
  <2> QED BY <2>1, <2>2, <2>3 DEF JobsCounted
<1> QED BY <1>1, VInvariance, PTL

\* Once the node is running, a certificate has been asked for every service,
\* whether prefetchCerts or the result of the acquire came first.
THEOREM CertsAsked == Spec => []CertsAskedFor
<1>1. VInv => CertsAskedFor
  BY DEF VInv
<1> QED BY <1>1, VInvariance, PTL
=============================================================================
