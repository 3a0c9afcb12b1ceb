------------------------------ MODULE KeyedLocks ------------------------------
(***************************************************************************)
(* The per-key mutexes with automatic cleanup of the proxy manager         *)
(* (internal/proxymanager/locks.go).  A key's refCountedMutex is made by   *)
(* the first Lock and deleted from the map by the unlock that brings its   *)
(* count to zero, so over time one key is protected by several different   *)
(* mutex objects: what has to hold is that they still serialize the        *)
(* callers of the key.                                                     *)
(*                                                                         *)
(* kl.mu is held for a few statements that do not block, so each of its    *)
(* critical sections is one step; rc.mu.Lock and rc.mu.Unlock, which run   *)
(* outside it, are steps of their own.  The closure Lock returns runs      *)
(* unlock at most once (sync.Once).                                        *)
(***************************************************************************)
EXTENDS Naturals, FiniteSets

CONSTANTS Procs,    \* the goroutines that call Lock
          Keys,     \* target IDs (targetLocks) or hostnames (hostLocks)
          Entries,  \* addresses of refCountedMutex objects
          NoEntry,  \* no map entry, a nil pointer
          NoProc    \* an unlocked mutex

ASSUME ProcsFinite == IsFiniteSet(Procs)
ASSUME NoEntryFresh == NoEntry \notin Entries
ASSUME NoProcFresh == NoProc \notin Procs

VARIABLES locks,   \* keyedLocks.locks
          refs,    \* refCountedMutex.refs of every object
          owner,   \* refCountedMutex.mu of every object: who has locked it
          pc,      \* where each process is in Lock and unlock
          key,     \* the key argument of its last call
          rc       \* the object its call holds a pointer to

vars == <<locks, refs, owner, pc, key, rc>>

PCs == {"idle",       \* outside Lock .. unlock
        "waiting",    \* in Lock, at rc.mu.Lock()
        "holding",    \* Lock has returned, unlock is not called yet
        "releasing"}  \* in unlock, at rc.mu.Unlock()

TypeOK ==
  /\ locks \in [Keys -> Entries \cup {NoEntry}]
  /\ refs \in [Entries -> Nat]
  /\ owner \in [Entries -> Procs \cup {NoProc}]
  /\ pc \in [Procs -> PCs]
  /\ key \in [Procs -> Keys]
  /\ rc \in [Procs -> Entries \cup {NoEntry}]

Init ==
  /\ locks = [k \in Keys |-> NoEntry]
  /\ refs = [e \in Entries |-> 0]
  /\ owner = [e \in Entries |-> NoProc]
  /\ pc = [p \in Procs |-> "idle"]
  /\ key \in [Procs -> Keys]
  /\ rc = [p \in Procs |-> NoEntry]

(***************************************************************************)
(* An address may be given to a new object once nothing points to the old  *)
(* one (garbage collection), so a stale pointer could meet a new object.   *)
(***************************************************************************)
Collected(e) ==
  /\ \A k \in Keys : locks[k] # e
  /\ \A p \in Procs : rc[p] # e

-----------------------------------------------------------------------------
(* Lock, up to kl.mu.Unlock(): find or create the entry and take a reference. *)

LockFresh(p, k) ==
  /\ pc[p] = "idle"
  /\ locks[k] = NoEntry
  /\ \E e \in Entries :
       /\ Collected(e)
       /\ locks' = [locks EXCEPT ![k] = e]
       /\ refs' = [refs EXCEPT ![e] = 1]
       /\ owner' = [owner EXCEPT ![e] = NoProc]
       /\ rc' = [rc EXCEPT ![p] = e]
  /\ key' = [key EXCEPT ![p] = k]
  /\ pc' = [pc EXCEPT ![p] = "waiting"]

\* Mutant of LockShared: only a fresh entry is counted.
LockSharedUncounted(p, k) ==
  /\ pc[p] = "idle"
  /\ locks[k] # NoEntry
  /\ rc' = [rc EXCEPT ![p] = locks[k]]
  /\ key' = [key EXCEPT ![p] = k]
  /\ pc' = [pc EXCEPT ![p] = "waiting"]
  /\ UNCHANGED <<locks, refs, owner>>

LockShared(p, k) ==
  /\ pc[p] = "idle"
  /\ locks[k] # NoEntry
  /\ refs' = [refs EXCEPT ![locks[k]] = @ + 1]
  /\ rc' = [rc EXCEPT ![p] = locks[k]]
  /\ key' = [key EXCEPT ![p] = k]
  /\ pc' = [pc EXCEPT ![p] = "waiting"]
  /\ UNCHANGED <<locks, owner>>

\* Lock, rc.mu.Lock(): wait for the mutex and return the unlock closure.
LockMutex(p) ==
  /\ pc[p] = "waiting"
  /\ owner[rc[p]] = NoProc
  /\ owner' = [owner EXCEPT ![rc[p]] = p]
  /\ pc' = [pc EXCEPT ![p] = "holding"]
  /\ UNCHANGED <<locks, refs, key, rc>>

-----------------------------------------------------------------------------
(* unlock, up to kl.mu.Unlock(): a caller whose object the map no longer has *)
(* returns without unlocking it; otherwise the last reference removes the    *)
(* entry while the mutex is still locked.                                    *)

Stale(p) == locks[key[p]] # rc[p]

\* Mutant of Unlock: the entry is deleted whoever still waits for it.
UnlockDeletes(p) ==
  /\ pc[p] = "holding"
  /\ IF Stale(p)
     THEN /\ pc' = [pc EXCEPT ![p] = "idle"]
          /\ rc' = [rc EXCEPT ![p] = NoEntry]
          /\ UNCHANGED <<locks, refs>>
     ELSE /\ refs' = [refs EXCEPT ![rc[p]] = @ - 1]
          /\ locks' = [locks EXCEPT ![key[p]] = NoEntry]
          /\ pc' = [pc EXCEPT ![p] = "releasing"]
          /\ UNCHANGED rc
  /\ UNCHANGED <<owner, key>>

Unlock(p) ==
  /\ pc[p] = "holding"
  /\ IF Stale(p)
     THEN /\ pc' = [pc EXCEPT ![p] = "idle"]
          /\ rc' = [rc EXCEPT ![p] = NoEntry]
          /\ UNCHANGED <<locks, refs>>
     ELSE /\ refs' = [refs EXCEPT ![rc[p]] = @ - 1]
          /\ locks' = [locks EXCEPT ![key[p]] =
                         IF refs[rc[p]] = 1 THEN NoEntry ELSE @]
          /\ pc' = [pc EXCEPT ![p] = "releasing"]
          /\ UNCHANGED rc
  /\ UNCHANGED <<owner, key>>

\* Mutant of UnlockMutex: unlock returns after the map is updated.
UnlockMutexForgotten(p) ==
  /\ pc[p] = "releasing"
  /\ rc' = [rc EXCEPT ![p] = NoEntry]
  /\ pc' = [pc EXCEPT ![p] = "idle"]
  /\ UNCHANGED <<locks, refs, owner, key>>

\* unlock, rc.mu.Unlock(); the closure and its pointer are dropped.
UnlockMutex(p) ==
  /\ pc[p] = "releasing"
  /\ owner' = [owner EXCEPT ![rc[p]] = NoProc]
  /\ rc' = [rc EXCEPT ![p] = NoEntry]
  /\ pc' = [pc EXCEPT ![p] = "idle"]
  /\ UNCHANGED <<locks, refs, key>>

Next ==
  \E p \in Procs :
    \/ \E k \in Keys : LockFresh(p, k) \/ LockShared(p, k)
    \/ LockMutex(p)
    \/ Unlock(p)
    \/ UnlockMutex(p)

Spec == Init /\ [][Next]_vars

(***************************************************************************)
(* Holders give the lock back (every Lock in the package is followed by a  *)
(* call, mostly deferred, of its closure) and sync.Mutex does not starve a *)
(* waiter (its starvation mode hands the mutex to the oldest one).         *)
(***************************************************************************)
Fairness ==
  \A p \in Procs : /\ WF_vars(Unlock(p))
                   /\ WF_vars(UnlockMutex(p))
                   /\ SF_vars(LockMutex(p))

FairSpec == Spec /\ Fairness

-----------------------------------------------------------------------------
(* Properties. *)

\* Between Lock and its unlock a process is alone on its key, although the
\* mutex object behind the key changes: "It also never breaks serialization
\* ... even during cleanup" (locks.go).
MutualExclusion ==
  \A p, q \in Procs :
    p # q /\ pc[p] = "holding" /\ pc[q] = "holding" => key[p] # key[q]

\* The users of the object a key maps to: they wait for it or hold it.
UsersOf(e) == {p \in Procs : rc[p] = e /\ pc[p] \in {"waiting", "holding"}}

\* The map never has an entry that nobody waits for or holds ("keyedLocks
\* never leaks entries"), and an entry's count is the number of its users, so
\* that the deletion at zero cannot pull it away from one of them.
RefsAreUsers ==
  \A k \in Keys : locks[k] # NoEntry =>
     /\ UsersOf(locks[k]) # {}
     /\ refs[locks[k]] = Cardinality(UsersOf(locks[k]))

\* The pointer check of unlock never finds another object in the map than
\* the one the caller locked, so no mutex is left locked for ever.
NoStaleUnlock ==
  \A p \in Procs : pc[p] \in {"waiting", "holding"} => ~Stale(p)

\* The three together: the map of locks is sound (locks.go, Lock and unlock).
LocksSound == MutualExclusion /\ RefsAreUsers /\ NoStaleUnlock

\* Every Lock returns, although its key's object may be deleted and made anew
\* meanwhile (locks.go, Lock).
LockReturns == \A p \in Procs : pc[p] = "waiting" ~> pc[p] = "holding"

\* The promise of the component: a process that is unlocking the (possibly
\* already replaced) object holds nothing in the eyes of the other callers.
Mutex == INSTANCE KeyedMutex WITH
           mode <- [p \in Procs |-> IF pc[p] = "releasing" THEN "idle" ELSE pc[p]],
           want <- key

\* locks.go implements one plain mutex per key.
ImplementsKeyedMutex == Mutex!MSpec
=============================================================================
