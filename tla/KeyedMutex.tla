------------------------------ MODULE KeyedMutex ------------------------------
(***************************************************************************)
(* What the keyed locks of the proxy manager promise to their callers      *)
(* (internal/proxymanager/locks.go, the comment on keyedLocks): a process  *)
(* that asks for a key waits until nobody holds it, holds it, and gives it *)
(* back.  There are no mutex objects and no reference counts here;         *)
(* KeyedLocks is the implementation with both.                             *)
(***************************************************************************)
CONSTANTS Procs,   \* the goroutines that call Lock
          Keys     \* target IDs (targetLocks) or hostnames (hostLocks)

VARIABLES mode,    \* what each process is doing with the lock
          want     \* the key it asked for last

mvars == <<mode, want>>

MInit ==
  /\ mode = [p \in Procs |-> "idle"]
  /\ want \in [Procs -> Keys]

\* Nobody is between Lock's return and unlock's release of key k.
Free(k) == \A q \in Procs : ~(mode[q] = "holding" /\ want[q] = k)

Request(p, k) ==
  /\ mode[p] = "idle"
  /\ mode' = [mode EXCEPT ![p] = "waiting"]
  /\ want' = [want EXCEPT ![p] = k]

Acquire(p) ==
  /\ mode[p] = "waiting"
  /\ Free(want[p])
  /\ mode' = [mode EXCEPT ![p] = "holding"]
  /\ UNCHANGED want

Release(p) ==
  /\ mode[p] = "holding"
  /\ mode' = [mode EXCEPT ![p] = "idle"]
  /\ UNCHANGED want

MNext ==
  \E p \in Procs :
    \/ \E k \in Keys : Request(p, k)
    \/ Acquire(p)
    \/ Release(p)

MSpec == MInit /\ [][MNext]_mvars
=============================================================================
