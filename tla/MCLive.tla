-------------------------------- MODULE MCLive --------------------------------
(***************************************************************************)
(* What must eventually happen in three parts that share no state: the     *)
(* keyed locks, the shared node with a command channel of one slot, and    *)
(* the dashboard's event streams.  A behaviour is one of one part, chosen  *)
(* in the initial state; the others rest in a state that enables none of   *)
(* the steps their fairness is about.                                      *)
(***************************************************************************)
EXTENDS KeyedLocks, Dashboard, TLC

CONSTANTS Proxies,    \* Users of the shared node
          Domains, Ports, Configs, MaxGen, Starts, QueueCap, None,
          p1, p2, p3, k1, k2, e1, e2, e3, u1, d1, d2, q1, q2, g1, g2

VARIABLES part, config, queue, done, phase, state, rt, gen, nextGen, use, who,
          routeCount, subs, certInFlight, timer, fired, node, bridge, certs,
          userPc, todo, cur, held, reply, stopCh, fw, fwReply, ch, inbox, closer

svars == <<config, queue, done, phase, state, rt, gen, nextGen, use, who, routeCount,
           subs, certInFlight, timer, fired, node, bridge, certs, userPc, todo, cur,
           held, reply, stopCh, fw, fwReply, ch, inbox, closer>>

Shared == INSTANCE SharedServer WITH Users <- Proxies, pc <- userPc

\* One proxy with a router on one port.
OnePort == {[u \in Proxies |-> [domain |-> d1, proto |-> q1 :> "https" @@ q2 :> None]]}
OnePortStarts == [c \in OnePort |-> MaxGen]

\* As many objects as processes are enough: every object in the map has a user
\* and a process points to at most one.
ASSUME EnoughEntries == Cardinality(Entries) >= Cardinality(Procs)

-----------------------------------------------------------------------------
LiveInit ==
  /\ part \in {"locks", "shared", "dashboard"}
  /\ part = "locks" \/ key = [p \in Procs |-> CHOOSE k \in Keys : TRUE]
  /\ Init /\ Shared!Init /\ DInit

LiveNext ==
  /\ \/ part = "locks" /\ Next /\ UNCHANGED <<svars, dvars>>
     \/ part = "shared" /\ Shared!Next /\ UNCHANGED <<vars, dvars>>
     \/ part = "dashboard" /\ DNext /\ UNCHANGED <<vars, svars>>
  /\ UNCHANGED part

LiveSpec ==
  /\ LiveInit /\ [][LiveNext]_<<part, vars, svars, dvars>>
  /\ Fairness /\ Shared!Fairness /\ DFair

\* Every call of the shared server returns (shared_server.go, Acquire, Release,
\* Subscribe, Close), although its loop and the bridge wait for each other.
CallsReturn == Shared!CallsReturn
=============================================================================
