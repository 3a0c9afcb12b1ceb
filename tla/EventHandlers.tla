---------------------------- MODULE EventHandlers ----------------------------
(***************************************************************************)
(* How the manager hands the events of one target to its handlers          *)
(* (dispatchProxyEvent and HandleProxyEvent in proxymanager/events.go).    *)
(* Every event gets a goroutine of its own, which waits for the target     *)
(* lock; the lock goes to any of them.  The modules of the target          *)
(* providers keep the events of a target in the order of dispatch, until   *)
(* they are handled; that of the goroutine which holds the lock comes      *)
(* first.                                                                  *)
(***************************************************************************)
EXTENDS Integers, Sequences

\* The goroutine of the i-th event gets the lock.
ToFront(q, i) ==
  [j \in 1 .. Len(q) |-> IF j = 1 THEN q[i] ELSE IF j <= i THEN q[j - 1] ELSE q[j]]
=============================================================================
