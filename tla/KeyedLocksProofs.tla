--------------------------- MODULE KeyedLocksProofs ---------------------------
(***************************************************************************)
(* The keyed locks serialize the callers of a key, keep exact reference    *)
(* counts and implement KeyedMutex, for any finite set of goroutines, any  *)
(* keys and any addresses.                                                 *)
(*                                                                         *)
(* MutualExclusion is not inductive: it follows from the pointers of all   *)
(* callers of a key being the object in the map (Attached), which an       *)
(* unlock preserves only if the entry it deletes has no other user, that   *)
(* is, if the count is exact (RefsAreUsers); and from the owner of an      *)
(* object being the one process that is between its Lock and its Unlock.   *)
(***************************************************************************)
EXTENDS KeyedLocks, FiniteSetTheorems, TLAPS

\* Callers of a key point to the object in the map; idle ones to nothing.
Attached ==
  \A p \in Procs :
    /\ pc[p] = "idle" => rc[p] = NoEntry
    /\ pc[p] # "idle" => rc[p] \in Entries
    /\ pc[p] \in {"waiting", "holding"} => locks[key[p]] = rc[p]

\* A mutex is locked by the process that is between Lock and Unlock on it.
OwnersHold ==
  \A e \in Entries, p \in Procs :
    owner[e] = p <=> rc[p] = e /\ pc[p] \in {"holding", "releasing"}

\* Two keys never share an object.
Separate ==
  \A k, l \in Keys : locks[k] = locks[l] /\ k # l => locks[k] = NoEntry

IInv == TypeOK /\ Attached /\ OwnersHold /\ Separate /\ RefsAreUsers

-----------------------------------------------------------------------------
\* The users of an object are finitely many.
LEMMA UsersFinite == \A e : IsFiniteSet(UsersOf(e))
BY ProcsFinite, FS_Subset DEF UsersOf

\* The initial states have no locks.
LEMMA InitIInv == Init => IInv
BY NoEntryFresh, NoProcFresh
   DEF Init, IInv, TypeOK, Attached, OwnersHold, Separate, RefsAreUsers, PCs

\* A first caller installs an object that nothing points to.
LEMMA LockFreshStep ==
  ASSUME IInv, NEW p \in Procs, NEW k \in Keys, LockFresh(p, k)
  PROVE  IInv'
<1>1. PICK e \in Entries :
        /\ Collected(e)
        /\ locks' = [locks EXCEPT ![k] = e]
        /\ refs' = [refs EXCEPT ![e] = 1]
        /\ owner' = [owner EXCEPT ![e] = NoProc]
        /\ rc' = [rc EXCEPT ![p] = e]
  BY DEF LockFresh
<1>2. /\ pc[p] = "idle" /\ locks[k] = NoEntry
      /\ key' = [key EXCEPT ![p] = k]
      /\ pc' = [pc EXCEPT ![p] = "waiting"]
  BY DEF LockFresh
<1>3. TypeOK'
  BY <1>1, <1>2 DEF IInv, TypeOK, PCs
<1>4. Attached'
  BY <1>1, <1>2, NoEntryFresh DEF IInv, TypeOK, Attached, Collected
<1>5. OwnersHold'
  BY <1>1, <1>2, NoEntryFresh, NoProcFresh
     DEF IInv, TypeOK, Attached, OwnersHold, Collected
<1>6. Separate'
  BY <1>1, <1>2, NoEntryFresh DEF IInv, TypeOK, Separate, Collected
<1>7. RefsAreUsers'
  <2>1. SUFFICES ASSUME NEW l \in Keys, locks'[l] # NoEntry
                 PROVE  /\ UsersOf(locks[l])' # {}
                        /\ refs'[locks'[l]] = Cardinality(UsersOf(locks[l])')
    BY DEF RefsAreUsers
  <2>2. CASE l = k
    <3>1. UsersOf(locks[l])' = {p}
      BY <1>1, <1>2, <2>2, NoEntryFresh DEF IInv, TypeOK, Collected, UsersOf
    <3>2. refs'[locks'[l]] = 1
      BY <1>1, <2>2 DEF IInv, TypeOK
    <3> QED BY <3>1, <3>2, FS_Singleton
  <2>3. CASE l # k
    <3>1. locks'[l] = locks[l] /\ locks[l] # e /\ locks[l] # NoEntry
      BY <1>1, <2>1, <2>3 DEF IInv, TypeOK, Collected
    <3>2. UsersOf(locks[l])' = UsersOf(locks[l])
      BY <1>1, <1>2, <3>1 DEF IInv, TypeOK, Attached, UsersOf
    <3>3. refs'[locks'[l]] = refs[locks[l]]
      BY <1>1, <3>1 DEF IInv, TypeOK
    <3> QED BY <3>1, <3>2, <3>3 DEF IInv, RefsAreUsers
  <2> QED BY <2>2, <2>3
<1> QED BY <1>3, <1>4, <1>5, <1>6, <1>7 DEF IInv

\* A later caller joins the users of the object in the map.
LEMMA LockSharedStep ==
  ASSUME IInv, NEW p \in Procs, NEW k \in Keys, LockShared(p, k)
  PROVE  IInv'
<1> USE DEF LockShared
<1>1. locks[k] \in Entries /\ locks' = locks /\ owner' = owner
  BY DEF IInv, TypeOK
<1>2. refs[locks[k]] \in Nat
  BY <1>1 DEF IInv, TypeOK
<1>3. TypeOK'
  BY <1>1, <1>2 DEF IInv, TypeOK, PCs
<1>4. Attached'
  BY <1>1 DEF IInv, TypeOK, Attached
<1>5. OwnersHold'
  BY <1>1, NoEntryFresh DEF IInv, TypeOK, Attached, OwnersHold
<1>6. Separate'
  BY <1>1 DEF IInv, Separate
<1>7. RefsAreUsers'
  <2>1. SUFFICES ASSUME NEW l \in Keys, locks[l] # NoEntry
                 PROVE  /\ UsersOf(locks[l])' # {}
                        /\ refs'[locks[l]] = Cardinality(UsersOf(locks[l])')
    BY <1>1 DEF RefsAreUsers
  <2>2. CASE l = k
    <3>1. UsersOf(locks[l])' = UsersOf(locks[l]) \cup {p}
      BY <1>1, <2>2 DEF IInv, TypeOK, Attached, UsersOf
    <3>2. p \notin UsersOf(locks[l])
      BY DEF UsersOf
    <3>3. Cardinality(UsersOf(locks[l])') = Cardinality(UsersOf(locks[l])) + 1
      BY <3>1, <3>2, UsersFinite, FS_AddElement
    <3>4. refs'[locks[l]] = refs[locks[l]] + 1
      BY <1>1, <2>2 DEF IInv, TypeOK
    <3> QED BY <2>1, <3>1, <3>3, <3>4 DEF IInv, RefsAreUsers
  <2>3. CASE l # k
    <3>1. locks[l] # locks[k]
      BY <2>1, <2>3 DEF IInv, Separate
    <3>2. UsersOf(locks[l])' = UsersOf(locks[l])
      BY <1>1, <2>1, <3>1 DEF IInv, TypeOK, Attached, UsersOf
    <3>3. refs'[locks[l]] = refs[locks[l]]
      BY <2>1, <3>1 DEF IInv, TypeOK
    <3> QED BY <2>1, <3>2, <3>3 DEF IInv, RefsAreUsers
  <2> QED BY <2>2, <2>3
<1> QED BY <1>3, <1>4, <1>5, <1>6, <1>7 DEF IInv

\* Taking the mutex moves a user from waiting to holding.
LEMMA LockMutexStep ==
  ASSUME IInv, NEW p \in Procs, LockMutex(p)
  PROVE  IInv'
<1> USE DEF LockMutex
<1>1. rc[p] \in Entries
  BY DEF IInv, Attached
<1>2. TypeOK'
  BY <1>1 DEF IInv, TypeOK, PCs
<1>3. Attached'
  BY <1>1 DEF IInv, TypeOK, Attached
<1>4. OwnersHold'
  BY <1>1, NoProcFresh DEF IInv, TypeOK, OwnersHold
<1>5. Separate'
  BY DEF IInv, Separate
<1>6. \A e : UsersOf(e)' = UsersOf(e)
  BY DEF IInv, TypeOK, UsersOf
<1>7. RefsAreUsers'
  BY <1>6 DEF IInv, RefsAreUsers
<1> QED BY <1>2, <1>3, <1>4, <1>5, <1>7 DEF IInv

\* The first half of unlock: it is not stale, its caller leaves the users, and
\* the entry goes only when nobody else is among them.
LEMMA UnlockStep ==
  ASSUME IInv, NEW p \in Procs, Unlock(p)
  PROVE  IInv'
<1> DEFINE k == key[p]
           e == rc[p]
<1>1. /\ k \in Keys /\ e \in Entries /\ locks[k] = e /\ e # NoEntry
      /\ pc[p] = "holding" /\ ~Stale(p)
  BY NoEntryFresh DEF IInv, TypeOK, Attached, Unlock, Stale
<1>2. /\ refs' = [refs EXCEPT ![e] = @ - 1]
      /\ locks' = [locks EXCEPT ![k] = IF refs[e] = 1 THEN NoEntry ELSE @]
      /\ pc' = [pc EXCEPT ![p] = "releasing"]
      /\ rc' = rc /\ owner' = owner /\ key' = key
  BY <1>1 DEF Unlock
<1> HIDE DEF k, e
<1>3. p \in UsersOf(e)
  BY <1>1 DEF UsersOf, e
<1>4. /\ refs[e] = Cardinality(UsersOf(e)) /\ refs[e] \in Nat
      /\ refs[e] = 1 => UsersOf(e) = {p}
      /\ refs[e] # 0
  <2>1. refs[e] = Cardinality(UsersOf(e)) /\ refs[e] \in Nat
    BY <1>1 DEF IInv, TypeOK, RefsAreUsers
  <2>2. refs[e] = 1 => \E x : UsersOf(e) = {x}
    BY <2>1, UsersFinite, FS_Singleton
  <2>3. refs[e] # 0
    BY <2>1, <1>3, UsersFinite, FS_EmptySet
  <2> QED BY <2>1, <2>2, <2>3, <1>3
<1>5. UsersOf(e)' = UsersOf(e) \ {p}
  BY <1>1, <1>2 DEF IInv, TypeOK, UsersOf, e
<1>6. \A x : x # e => UsersOf(x)' = UsersOf(x)
  BY <1>1, <1>2 DEF IInv, TypeOK, UsersOf, e
<1>7. TypeOK'
  BY <1>1, <1>2, <1>4 DEF IInv, TypeOK, PCs
<1>8. Attached'
  <2>1. SUFFICES ASSUME NEW q \in Procs, pc'[q] \in {"waiting", "holding"}
                 PROVE  locks'[key'[q]] = rc'[q]
    BY <1>1, <1>2 DEF IInv, TypeOK, Attached
  <2>2. q # p /\ locks[key[q]] = rc[q]
    BY <1>2, <2>1 DEF IInv, TypeOK, Attached
  <2>3. CASE key[q] # k
    BY <1>2, <2>2, <2>3 DEF IInv, TypeOK
  <2>4. CASE key[q] = k
    <3>1. q \in UsersOf(e)
      BY <1>1, <1>2, <2>1, <2>2, <2>4 DEF IInv, TypeOK, UsersOf
    <3> QED BY <1>1, <1>2, <1>4, <2>2, <2>4, <3>1 DEF IInv, TypeOK
  <2> QED BY <2>3, <2>4
<1>9. OwnersHold'
  BY <1>1, <1>2 DEF IInv, TypeOK, OwnersHold
<1>10. Separate'
  BY <1>1, <1>2 DEF IInv, TypeOK, Separate
<1>11. RefsAreUsers'
  <2>1. SUFFICES ASSUME NEW l \in Keys, locks'[l] # NoEntry
                 PROVE  /\ UsersOf(locks[l])' # {}
                        /\ refs'[locks'[l]] = Cardinality(UsersOf(locks[l])')
    BY DEF RefsAreUsers
  <2>2. CASE l = k
    <3>1. locks'[l] = e /\ refs[e] # 1
      BY <1>1, <1>2, <2>1, <2>2 DEF IInv, TypeOK
    <3>2. Cardinality(UsersOf(e)') = refs[e] - 1
      BY <1>3, <1>4, <1>5, UsersFinite, FS_RemoveElement
    <3>3. refs'[e] = refs[e] - 1
      BY <1>1, <1>2 DEF IInv, TypeOK
    <3>4. UsersOf(e)' # {}
      <4>1. SUFFICES ASSUME UsersOf(e)' = {} PROVE FALSE
        OBVIOUS
      <4>2. UsersOf(e) = {p}
        BY <1>3, <1>5, <4>1
      <4>3. Cardinality(UsersOf(e)) = 1
        BY <4>2, FS_Singleton
      <4> QED BY <1>4, <3>1, <4>3
    <3>5. UsersOf(locks[l])' = UsersOf(e)'
      BY <1>2, <3>1 DEF UsersOf, e
    <3> QED BY <3>1, <3>2, <3>3, <3>4, <3>5
  <2>3. CASE l # k
    <3>1. locks'[l] = locks[l] /\ locks[l] # e /\ locks[l] # NoEntry
      BY <1>1, <1>2, <2>1, <2>3 DEF IInv, TypeOK, Separate
    <3>2. UsersOf(locks[l])' = UsersOf(locks[l])
      BY <1>2, <3>1 DEF IInv, TypeOK, UsersOf, e
    <3>3. refs'[locks'[l]] = refs[locks[l]]
      BY <1>1, <1>2, <3>1 DEF IInv, TypeOK
    <3> QED BY <3>1, <3>2, <3>3 DEF IInv, RefsAreUsers
  <2> QED BY <2>2, <2>3
<1> QED BY <1>7, <1>8, <1>9, <1>10, <1>11 DEF IInv

\* The second half of unlock gives the mutex back, whether or not the map
\* still has it.
LEMMA UnlockMutexStep ==
  ASSUME IInv, NEW p \in Procs, UnlockMutex(p)
  PROVE  IInv'
<1> USE DEF UnlockMutex
<1>1. rc[p] \in Entries
  BY DEF IInv, Attached
<1>2. TypeOK'
  BY <1>1 DEF IInv, TypeOK, PCs
<1>3. Attached'
  BY <1>1 DEF IInv, TypeOK, Attached
<1>4. OwnersHold'
  BY <1>1, NoProcFresh, NoEntryFresh DEF IInv, TypeOK, Attached, OwnersHold
<1>5. Separate'
  BY DEF IInv, Separate
<1>6. \A l \in Keys : locks[l] # NoEntry => UsersOf(locks[l])' = UsersOf(locks[l])
  BY DEF IInv, TypeOK, UsersOf
<1>7. RefsAreUsers'
  BY <1>6 DEF IInv, RefsAreUsers, UsersOf
<1> QED BY <1>2, <1>3, <1>4, <1>5, <1>7 DEF IInv

-----------------------------------------------------------------------------
\* Every step keeps the inductive invariant.
LEMMA NextIInv == IInv /\ [Next]_vars => IInv'
<1>1. SUFFICES ASSUME IInv, [Next]_vars PROVE IInv'
  OBVIOUS
<1>2. CASE UNCHANGED vars
  <2>1. \A e : UsersOf(e)' = UsersOf(e)
    BY <1>2 DEF vars, UsersOf
  <2>2. RefsAreUsers'
    BY <1>1, <1>2, <2>1 DEF vars, IInv, RefsAreUsers
  <2>3. TypeOK' /\ Attached' /\ OwnersHold' /\ Separate'
    BY <1>1, <1>2 DEF vars, IInv, TypeOK, Attached, OwnersHold, Separate
  <2> QED BY <2>2, <2>3 DEF IInv
<1>3. CASE Next
  BY <1>1, <1>3, LockFreshStep, LockSharedStep, LockMutexStep, UnlockStep,
     UnlockMutexStep DEF Next
<1> QED BY <1>1, <1>2, <1>3

\* The inductive invariant holds in every state of the keyed locks.
LEMMA Invariance == Spec => []IInv
BY InitIInv, NextIInv, PTL DEF Spec

\* What the callers rely on follows from it.
LEMMA IInvImplies == IInv => TypeOK /\ MutualExclusion /\ RefsAreUsers /\ NoStaleUnlock
<1>1. SUFFICES ASSUME IInv PROVE MutualExclusion /\ NoStaleUnlock
  BY DEF IInv
<1>2. NoStaleUnlock
  BY <1>1 DEF IInv, Attached, NoStaleUnlock, Stale
<1>3. MutualExclusion
  BY <1>1 DEF IInv, TypeOK, Attached, OwnersHold, MutualExclusion
<1> QED BY <1>2, <1>3

\* Lock and unlock keep the types of the map, the counts and the pointers; in
\* particular a count never becomes negative.
THEOREM TypeCorrect == Spec => []TypeOK
BY Invariance, IInvImplies, PTL

\* Lock .. unlock sections of one key never overlap, although unlock deletes
\* the entry before it unlocks the mutex and the next Lock makes another one.
THEOREM Exclusive == Spec => []MutualExclusion
BY Invariance, IInvImplies, PTL

\* Entries are never leaked and never deleted under a waiter.
THEOREM CountsExact == Spec => []RefsAreUsers
BY Invariance, IInvImplies, PTL

\* The stale branch of unlock, which would leave a mutex locked for ever, is
\* dead code behind the sync.Once of the closure.
THEOREM NeverStale == Spec => []NoStaleUnlock
BY Invariance, IInvImplies, PTL

\* What the callers of targetLocks and hostLocks rely on.
THEOREM Sound == Spec => []LocksSound
BY Exclusive, CountsExact, NeverStale, PTL DEF LocksSound

-----------------------------------------------------------------------------
\* Every step of the keyed locks is a step of KeyedMutex or leaves it alone.
LEMMA StepRefines == IInv /\ [Next]_vars => [Mutex!MNext]_(Mutex!mvars)
<1> USE DEF Mutex!mvars, Mutex!MNext
<1>1. SUFFICES ASSUME IInv, [Next]_vars PROVE [Mutex!MNext]_(Mutex!mvars)
  OBVIOUS
<1>2. CASE UNCHANGED vars
  BY <1>2 DEF vars
<1>3. ASSUME NEW p \in Procs, NEW k \in Keys, LockFresh(p, k) \/ LockShared(p, k)
      PROVE  Mutex!Request(p, k)
  BY <1>1, <1>3 DEF LockFresh, LockShared, Mutex!Request, IInv, TypeOK
<1>4. ASSUME NEW p \in Procs, LockMutex(p)
      PROVE  Mutex!Acquire(p)
  <2>1. IInv' /\ MutualExclusion'
    BY <1>4, <1>1, LockMutexStep, IInvImplies, PTL
  <2>2. \A q \in Procs : ~(pc[q] = "holding" /\ key[q] = key[p])
    BY <1>1, <1>4, <2>1 DEF IInv, TypeOK, LockMutex, MutualExclusion
  <2> QED BY <1>1, <1>4, <2>2 DEF LockMutex, Mutex!Acquire, Mutex!Free, IInv, TypeOK
<1>5. ASSUME NEW p \in Procs, Unlock(p)
      PROVE  Mutex!Release(p)
  BY <1>1, <1>5 DEF Unlock, Mutex!Release, IInv, TypeOK, PCs
<1>6. ASSUME NEW p \in Procs, UnlockMutex(p)
      PROVE  UNCHANGED Mutex!mvars
  BY <1>1, <1>6 DEF UnlockMutex, IInv, TypeOK, PCs
<1> QED BY <1>1, <1>2, <1>3, <1>4, <1>5, <1>6 DEF Next

\* The reference-counted, self-cleaning locks implement one plain mutex per
\* key: replacing the object behind a key is invisible to the callers.
THEOREM Refinement == Spec => ImplementsKeyedMutex
<1>1. Init => Mutex!MInit
  BY DEF Init, Mutex!MInit
<1> QED
  BY <1>1, Invariance, StepRefines, PTL DEF Spec, ImplementsKeyedMutex, Mutex!MSpec
=============================================================================
