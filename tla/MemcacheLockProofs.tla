------------------------- MODULE MemcacheLockProofs -------------------------
(***************************************************************************)
(* Type correctness of MemcacheLock for every set of threads and keys and  *)
(* every combination of faults, and mutual exclusion for the faults the    *)
(* lock does tolerate.                                                     *)
(***************************************************************************)
EXTENDS MemcacheLock, SequenceTheorems, FiniteSetTheorems, TLAPS

-----------------------------------------------------------------------------
(* Stacks                                                                  *)

(***************************************************************************)
(* Pushing a lock object, which opening a block does, yields a stack whose *)
(* lower part is unchanged.                                                *)
(***************************************************************************)
LEMMA PushStack ==
    ASSUME NEW S, NEW s \in Seq(S), NEW e \in S
    PROVE  /\ Append(s, e) \in Seq(S)
           /\ Len(s) \in Nat
           /\ Len(Append(s, e)) = Len(s) + 1
           /\ \A i \in 1..Len(s) : Append(s, e)[i] = s[i]
           /\ Append(s, e)[Len(s) + 1] = e
  <1>1. Len(s) \in Nat /\ Append(s, e) \in Seq(S)
    BY LenProperties, AppendProperties
  <1>2. Len(Append(s, e)) = Len(s) + 1
    BY AppendProperties
  <1>3. \A i \in 1..Len(s) : Append(s, e)[i] = s[i]
    BY AppendProperties
  <1>4. Append(s, e)[Len(s) + 1] = e
    BY AppendProperties
  <1>5. QED
    BY <1>1, <1>2, <1>3, <1>4

(***************************************************************************)
(* Popping a lock object, which leaving a block does, yields the stack     *)
(* without its top.                                                        *)
(***************************************************************************)
LEMMA PopStack ==
    ASSUME NEW S, NEW s \in Seq(S), s # <<>>
    PROVE  /\ Pop(s) \in Seq(S)
           /\ Len(s) \in Nat \ {0}
           /\ Len(Pop(s)) = Len(s) - 1
           /\ \A i \in 1..(Len(s) - 1) : Pop(s)[i] = s[i]
           /\ Top(s) \in S
           /\ Top(s) = s[Len(s)]
  <1>1. Len(s) \in Nat \ {0}
    BY EmptySeq
  <1>2. \A i \in 1..(Len(s) - 1) : s[i] \in S
    BY <1>1, ElementOfSeq
  <1>3. Top(s) \in S
    BY <1>1, ElementOfSeq DEF Top
  <1>4. /\ Pop(s) \in Seq(S)
        /\ Len(Pop(s)) = Len(s) - 1
        /\ \A i \in 1..(Len(s) - 1) : Pop(s)[i] = s[i]
    <2> DEFINE n == Len(s) - 1
    <2>1. n \in Int /\ 1 \in Int /\ \A i \in 1..n : s[i] \in S
      BY <1>1, <1>2
    <2>2. /\ SubSeq(s, 1, n) \in Seq(S)
          /\ Len(SubSeq(s, 1, n)) = IF 1 <= n THEN n - 1 + 1 ELSE 0
          /\ \A i \in 1..(n - 1 + 1) : SubSeq(s, 1, n)[i] = s[1 + i - 1]
      BY <2>1, SubSeqProperties
    <2>3. Pop(s) = SubSeq(s, 1, n)
      BY DEF Pop
    <2> HIDE DEF n
    <2>4. Len(Pop(s)) = n
      <3>1. n \in Nat
        BY <1>1 DEF n
      <3>2. (IF 1 <= n THEN n - 1 + 1 ELSE 0) = n
        BY <3>1
      <3>3. QED
        BY <2>2, <2>3, <3>2
    <2>5. \A i \in 1..n : Pop(s)[i] = s[i]
      <3> TAKE i \in 1..n
      <3>1. i \in 1..(n - 1 + 1) /\ 1 + i - 1 = i
        BY <2>1
      <3>2. QED
        BY <2>2, <2>3, <3>1
    <2>6. QED
      BY <2>2, <2>3, <2>4, <2>5 DEF n
  <1>5. QED
    BY <1>1, <1>3, <1>4 DEF Top

-----------------------------------------------------------------------------
(* Type correctness                                                        *)

(***************************************************************************)
(* What TypeOK needs to be inductive: a thread inside acquire() has a key  *)
(* it asks for, one inside release() has an owning lock object on top.     *)
(***************************************************************************)
InCall ==
    \A t \in Threads :
        /\ pc[t] \in {"add", "verify", "wait"} => want[t] \in Keys
        /\ pc[t] \in {"relget", "reldel"} =>
              held[t] # <<>> /\ Top(held[t]).owns_lock

TypeInv == TypeOK /\ InCall

(***************************************************************************)
(* Every step of the lock code, its callers and the environment keeps the  *)
(* variables typed and calls well formed.                                  *)
(***************************************************************************)
LEMMA TypeStep == TypeInv /\ [Next]_vars => TypeInv'
  <1> SUFFICES ASSUME TypeInv, [Next]_vars
               PROVE  TypeInv'
    OBVIOUS
  <1> USE LockAssumption DEF TypeInv, TypeOK, InCall, PCs
  <1>1. ASSUME NEW t \in Threads, NEW k \in Keys, Reenter(t, k)
        PROVE  TypeInv'
    <2>1. [key |-> k, owns_lock |-> FALSE] \in LockObject
      BY DEF LockObject
    <2>2. held' \in [Threads -> Seq(LockObject)]
      BY <1>1, <2>1, PushStack DEF Reenter
    <2>3. QED
      BY <1>1, <2>2 DEF Reenter
  <1>2. ASSUME NEW t \in Threads, NEW k \in Keys, Acquire(t, k)
        PROVE  TypeInv'
    BY <1>2 DEF Acquire
  <1>3. ASSUME NEW t \in Threads, want[t] \in Keys, Obtain(t)
        PROVE  /\ held' \in [Threads -> Seq(LockObject)]
               /\ locks' \in [Threads -> SUBSET Keys]
               /\ pc' \in [Threads -> PCs]
               /\ want' \in [Threads -> Keys \cup {None}]
               /\ InCall'
    <2>1. [key |-> want[t], owns_lock |-> TRUE] \in LockObject
      BY <1>3 DEF LockObject
    <2>2. held' \in [Threads -> Seq(LockObject)]
      BY <1>3, <2>1, PushStack DEF Obtain
    <2>3. QED
      BY <1>3, <2>2 DEF Obtain
  <1>4. ASSUME NEW t \in Threads, AddOk(t)
        PROVE  TypeInv'
    <2>1. want[t] \in Keys
      BY <1>4 DEF AddOk
    <2>2. QED
      BY <1>3, <1>4, <2>1 DEF AddOk
  <1>5. ASSUME NEW t \in Threads, AddFail(t)
        PROVE  TypeInv'
    BY <1>5 DEF AddFail
  <1>6. ASSUME NEW t \in Threads, AddError(t)
        PROVE  TypeInv'
    BY <1>6 DEF AddError
  <1>7. ASSUME NEW t \in Threads, VerifyAdded(t)
        PROVE  TypeInv'
    <2>1. want[t] \in Keys
      BY <1>7 DEF VerifyAdded
    <2>2. QED
      BY <1>3, <1>7, <2>1 DEF VerifyAdded
  <1>8. ASSUME NEW t \in Threads, VerifyNotAdded(t)
        PROVE  TypeInv'
    BY <1>8 DEF VerifyNotAdded
  <1>9. ASSUME NEW t \in Threads, VerifyError(t) \/ TimeoutExpired(t)
        PROVE  TypeInv'
    BY <1>9 DEF VerifyError, TimeoutExpired, GiveUp
  <1>10. ASSUME NEW t \in Threads, Retry(t)
         PROVE  TypeInv'
    BY <1>10 DEF Retry
  <1>11. ASSUME NEW t \in Threads, ReleaseNotOwner(t)
         PROVE  TypeInv'
    <2>1. held' \in [Threads -> Seq(LockObject)]
      BY <1>11, PopStack DEF ReleaseNotOwner
    <2>2. QED
      BY <1>11, <2>1 DEF ReleaseNotOwner
  <1>12. ASSUME NEW t \in Threads, Release(t) \/ ReleaseVerified(t)
         PROVE  TypeInv'
    BY <1>12 DEF Release, ReleaseVerified
  <1>13. ASSUME NEW t \in Threads, pc[t] \in {"relget", "reldel"},
                Forget(t) \/ LeaveUnforgotten(t)
         PROVE  /\ held' \in [Threads -> Seq(LockObject)]
                /\ locks' \in [Threads -> SUBSET Keys]
                /\ pc' \in [Threads -> PCs]
                /\ want' \in [Threads -> Keys \cup {None}]
                /\ waited' \in [Threads -> Nat]
                /\ InCall'
                /\ Top(held[t]).key \in Keys
    <2>1. Pop(held[t]) \in Seq(LockObject) /\ Top(held[t]) \in LockObject
      BY <1>13, PopStack
    <2>2. Top(held[t]).key \in Keys
      BY <2>1 DEF LockObject
    <2>3. held' \in [Threads -> Seq(LockObject)]
      BY <1>13, <2>1 DEF Forget, LeaveUnforgotten
    <2>4. CASE Forget(t)
      BY <1>13, <2>2, <2>3, <2>4 DEF Forget
    <2>5. CASE LeaveUnforgotten(t)
      BY <1>13, <2>2, <2>3, <2>5 DEF LeaveUnforgotten
    <2>6. QED
      BY <1>13, <2>4, <2>5
  <1>14. ASSUME NEW t \in Threads, ReleaseExpired(t) \/ ReleaseGetError(t)
         PROVE  TypeInv'
    BY <1>13, <1>14 DEF ReleaseExpired, ReleaseGetError
  <1>15. ASSUME NEW t \in Threads, ReleaseDelete(t) \/ ReleaseDeleteError(t)
         PROVE  TypeInv'
    BY <1>13, <1>15 DEF ReleaseDelete, ReleaseDeleteError
  <1>16. ASSUME NEW k \in Keys, Expire(k)
         PROVE  TypeInv'
    BY <1>16 DEF Expire
  <1>17. ASSUME NEW t \in Threads, Crash(t)
         PROVE  TypeInv'
    <2>1. <<>> \in Seq(LockObject)
      BY EmptySeq
    <2>2. QED
      BY <1>17, <2>1 DEF Crash
  <1>18. CASE UNCHANGED vars
    BY <1>18 DEF vars
  <1>19. QED
    BY <1>1, <1>2, <1>4, <1>5, <1>6, <1>7, <1>8, <1>9, <1>10, <1>11, <1>12,
       <1>14, <1>15, <1>16, <1>17, <1>18
    DEF Next, LockStep, CallerStep

(***************************************************************************)
(* The type invariant of lock.py's state holds under every fault.          *)
(***************************************************************************)
THEOREM TypeCorrect == Spec => []TypeOK
  <1>1. Init => TypeInv
    <2>1. <<>> \in Seq(LockObject)
      BY EmptySeq
    <2>2. QED
      BY <2>1, LockAssumption DEF Init, TypeInv, TypeOK, InCall, PCs
  <1>2. TypeInv => TypeOK
    BY DEF TypeInv
  <1>3. QED
    BY <1>1, <1>2, TypeStep, PTL DEF Spec

-----------------------------------------------------------------------------
(* Mutual exclusion                                                        *)

\* The failures the lock is built for: no entry vanishes under its owner, no
\* delete() raises after it was executed, and nonces tell threads apart.
Tolerated ==
    /\ Faults \subseteq {"add", "verify", "relget", "crash"}
    /\ \A t1, t2 \in Threads : NonceOf[t1] = NonceOf[t2] => t1 = t2

\* The blocks of a thread are on keys of its thread-local set, and of several
\* blocks on one key only the outermost may own it.
KeysKnown(t) == \A i \in 1..Len(held[t]) : held[t][i].key \in locks[t]

OuterOwns(t) ==
    \A i, j \in 1..Len(held[t]) :
        i < j /\ held[t][i].key = held[t][j].key => ~held[t][j].owns_lock

Nested ==
    \A t \in Threads :
        /\ KeysKnown(t)
        /\ OuterOwns(t)
        /\ pc[t] \in {"add", "verify", "wait"} => want[t] \notin locks[t]

\* memcached holds the thread's nonce for each key of its thread-local set.
Stored == \A t \in Threads : \A k \in locks[t] : store[k] = NonceOf[t]

LockInv == TypeInv /\ Nested /\ Stored

(***************************************************************************)
(* Obtaining a key, by add() or by the get() after an error, keeps blocks  *)
(* nested: no block on the key was open, since it was not in `locks`.      *)
(***************************************************************************)
LEMMA ObtainNested ==
    ASSUME TypeInv, Nested, NEW t \in Threads, Obtain(t),
           pc[t] \in {"add", "verify", "wait"}
    PROVE  Nested'
  <1> DEFINE e == [key |-> want[t], owns_lock |-> TRUE]
  <1>1. want[t] \in Keys /\ want[t] \notin locks[t]
    BY DEF TypeInv, InCall, Nested, KeysKnown, OuterOwns
  <1>2. e \in LockObject /\ e.key = want[t]
    BY <1>1 DEF LockObject
  <1>3. held[t] \in Seq(LockObject)
    BY DEF TypeInv, TypeOK
  <1>4. /\ held'[t] = Append(held[t], e)
        /\ locks'[t] = locks[t] \cup {want[t]}
        /\ pc'[t] = "run"
    BY DEF Obtain, TypeInv, TypeOK
  <1>5. \A u \in Threads \ {t} :
          held'[u] = held[u] /\ locks'[u] = locks[u]
             /\ pc'[u] = pc[u] /\ want'[u] = want[u]
    BY DEF Obtain, TypeInv, TypeOK
  <1> HIDE DEF e
  <1>6. /\ Len(held[t]) \in Nat
        /\ Len(held'[t]) = Len(held[t]) + 1
        /\ \A i \in 1..Len(held[t]) : held'[t][i] = held[t][i]
        /\ held'[t][Len(held[t]) + 1] = e
    BY <1>2, <1>3, <1>4, PushStack
  <1>7. \A i \in 1..Len(held'[t]) : held'[t][i].key \in locks'[t]
    BY <1>2, <1>4, <1>6 DEF Nested, KeysKnown, OuterOwns
  <1>8. ASSUME NEW i \in 1..Len(held'[t]), NEW j \in 1..Len(held'[t]),
               i < j, held'[t][i].key = held'[t][j].key
        PROVE  ~held'[t][j].owns_lock
    <2>1. i \in 1..Len(held[t]) /\ held'[t][i] = held[t][i]
      BY <1>6, <1>8
    <2>2. held[t][i].key # want[t]
      BY <1>1, <2>1 DEF Nested, KeysKnown, OuterOwns
    <2>3. j \in 1..Len(held[t])
      BY <1>2, <1>6, <1>8, <2>1, <2>2
    <2>4. QED
      BY <1>6, <1>8, <2>1, <2>3 DEF Nested, KeysKnown, OuterOwns
  <1>9. KeysKnown(t)' /\ OuterOwns(t)'
    BY <1>7, <1>8 DEF KeysKnown, OuterOwns
  <1>10. \A u \in Threads \ {t} : KeysKnown(u)' /\ OuterOwns(u)'
    BY <1>5 DEF Nested, KeysKnown, OuterOwns
  <1>11. \A u \in Threads : KeysKnown(u)' /\ OuterOwns(u)'
    BY <1>9, <1>10, Zenon
  <1>12. \A u \in Threads :
           pc'[u] \in {"add", "verify", "wait"} => want'[u] \notin locks'[u]
    BY <1>4, <1>5 DEF Nested
  <1>13. QED
    BY <1>11, <1>12 DEF Nested, KeysKnown, OuterOwns

(***************************************************************************)
(* Leaving the innermost block keeps blocks nested, whether it owned its   *)
(* key and forgets it, or not: an owner has no outer block on its key.     *)
(***************************************************************************)
LEMMA LeaveNested ==
    ASSUME TypeInv, Nested, NEW t \in Threads, held[t] # <<>>,
           held' = [held EXCEPT ![t] = Pop(@)],
           \/ locks' = locks
           \/ /\ Top(held[t]).owns_lock
              /\ locks' = [locks EXCEPT ![t] = @ \ {Top(held[t]).key}],
           pc' = [pc EXCEPT ![t] = "run"],
           want' = want
    PROVE  Nested'
  <1>1. held[t] \in Seq(LockObject)
    BY DEF TypeInv, TypeOK
  <1>2. /\ Len(held[t]) \in Nat \ {0}
        /\ Len(Pop(held[t])) = Len(held[t]) - 1
        /\ \A i \in 1..(Len(held[t]) - 1) : Pop(held[t])[i] = held[t][i]
        /\ Top(held[t]) = held[t][Len(held[t])]
    BY <1>1, PopStack
  <1>3. held'[t] = Pop(held[t]) /\ pc'[t] = "run"
    BY DEF TypeInv, TypeOK
  <1>4. \A u \in Threads \ {t} :
          held'[u] = held[u] /\ locks'[u] = locks[u]
             /\ pc'[u] = pc[u] /\ want'[u] = want[u]
    BY DEF TypeInv, TypeOK
  <1>5. ASSUME NEW i \in 1..Len(held'[t])
        PROVE  held'[t][i].key \in locks'[t]
    <2>1. i \in 1..Len(held[t]) /\ i < Len(held[t]) /\ held'[t][i] = held[t][i]
      BY <1>2, <1>3
    <2>2. held[t][i].key \in locks[t]
      BY <2>1 DEF Nested, KeysKnown, OuterOwns
    <2>3. Top(held[t]).owns_lock => held[t][i].key # Top(held[t]).key
      BY <1>2, <2>1 DEF Nested, KeysKnown, OuterOwns
    <2>4. QED
      BY <2>1, <2>2, <2>3 DEF TypeInv, TypeOK
  <1>6. \A i, j \in 1..Len(held'[t]) :
           i < j /\ held'[t][i].key = held'[t][j].key => ~held'[t][j].owns_lock
    BY <1>2, <1>3 DEF Nested, KeysKnown, OuterOwns
  <1>7. KeysKnown(t)' /\ OuterOwns(t)'
    BY <1>5, <1>6 DEF KeysKnown, OuterOwns
  <1>8. \A u \in Threads \ {t} : KeysKnown(u)' /\ OuterOwns(u)'
    BY <1>4 DEF Nested, KeysKnown, OuterOwns
  <1>9. QED
    BY <1>3, <1>4, <1>7, <1>8 DEF Nested, KeysKnown, OuterOwns

(***************************************************************************)
(* Under the tolerated failures every step keeps blocks nested and each    *)
(* locked key's entry in memcached.                                        *)
(***************************************************************************)
LEMMA LockInvStep ==
    ASSUME Tolerated PROVE LockInv /\ [Next]_vars => LockInv'
  <1> SUFFICES ASSUME LockInv, [Next]_vars
               PROVE  Nested' /\ Stored'
    BY TypeStep DEF LockInv
  <1>0. TypeInv /\ Nested /\ Stored
    BY DEF LockInv
  <1> USE LockAssumption
  <1>1. ASSUME NEW t \in Threads, NEW k \in Keys, Reenter(t, k)
        PROVE  Nested' /\ Stored'
    <2> DEFINE e == [key |-> k, owns_lock |-> FALSE]
    <2>1. e \in LockObject /\ e.key = k /\ ~e.owns_lock
      BY DEF LockObject
    <2>2. held[t] \in Seq(LockObject)
      BY <1>0 DEF TypeInv, TypeOK
    <2>3. held'[t] = Append(held[t], e) /\ \A u \in Threads \ {t} : held'[u] = held[u]
      BY <1>0, <1>1 DEF Reenter, TypeInv, TypeOK
    <2> HIDE DEF e
    <2>4. /\ Len(held[t]) \in Nat
          /\ Len(held'[t]) = Len(held[t]) + 1
          /\ \A i \in 1..Len(held[t]) : held'[t][i] = held[t][i]
          /\ held'[t][Len(held[t]) + 1] = e
      BY <2>1, <2>2, <2>3, PushStack
    <2>5. locks' = locks /\ pc' = pc /\ want' = want /\ store' = store /\ k \in locks[t]
      BY <1>1 DEF Reenter
    <2>6. \A i \in 1..Len(held'[t]) : held'[t][i].key \in locks'[t]
      BY <1>0, <2>1, <2>4, <2>5 DEF Nested, KeysKnown, OuterOwns
    <2>7. ASSUME NEW i \in 1..Len(held'[t]), NEW j \in 1..Len(held'[t]),
                 i < j, held'[t][i].key = held'[t][j].key
          PROVE  ~held'[t][j].owns_lock
      <3>1. i \in 1..Len(held[t]) /\ held'[t][i] = held[t][i]
        BY <2>4, <2>7
      <3>2. CASE j = Len(held[t]) + 1
        BY <2>1, <2>4, <3>2
      <3>3. CASE j \in 1..Len(held[t])
        <4>1. held'[t][j] = held[t][j]
          BY <2>4, <3>3
        <4>2. QED
          BY <1>0, <2>7, <3>1, <3>3, <4>1 DEF Nested, OuterOwns
      <3>4. QED
        BY <2>4, <2>7, <3>2, <3>3
    <2>8. KeysKnown(t)' /\ OuterOwns(t)'
      BY <2>6, <2>7 DEF KeysKnown, OuterOwns
    <2>9. \A u \in Threads \ {t} : KeysKnown(u)' /\ OuterOwns(u)'
      BY <1>0, <2>3, <2>5 DEF Nested, KeysKnown, OuterOwns
    <2>10. Nested'
      BY <1>0, <2>5, <2>8, <2>9 DEF Nested, KeysKnown, OuterOwns
    <2>11. Stored'
      BY <1>0, <2>5 DEF Stored
    <2>12. QED
      BY <2>10, <2>11
  <1>2. ASSUME NEW t \in Threads, NEW k \in Keys, Acquire(t, k)
        PROVE  Nested' /\ Stored'
    BY <1>0, <1>2 DEF Acquire, TypeInv, TypeOK, Nested, KeysKnown, OuterOwns, Stored
  <1>3. ASSUME NEW t \in Threads, AddOk(t)
        PROVE  Nested' /\ Stored'
    <2>1. pc[t] = "add" /\ Obtain(t) /\ want[t] \in Keys /\ store[want[t]] = None
      BY <1>0, <1>3 DEF AddOk, TypeInv, InCall
    <2>2. Nested'
      BY <1>0, <2>1, ObtainNested
    <2>3. \A u \in Threads : want[t] \notin locks[u]
      BY <1>0, <2>1 DEF Stored, TypeInv, TypeOK
    <2>4. Stored'
      BY <1>0, <1>3, <2>1, <2>3 DEF AddOk, Obtain, TypeInv, TypeOK, Stored
    <2>5. QED
      BY <2>2, <2>4
  <1>4. ASSUME NEW t \in Threads, AddFail(t) \/ VerifyNotAdded(t)
        PROVE  Nested' /\ Stored'
    BY <1>0, <1>4 DEF AddFail, VerifyNotAdded, TypeInv, TypeOK, Nested, KeysKnown, OuterOwns, Stored
  <1>5. ASSUME NEW t \in Threads, AddError(t)
        PROVE  Nested' /\ Stored'
    <2>1. want[t] \in Keys
      BY <1>0, <1>5 DEF AddError, TypeInv, InCall
    <2>2. Nested'
      <3>1. held' = held /\ locks' = locks /\ want' = want
        BY <1>5 DEF AddError
      <3>2. \A u \in Threads : pc'[u] \in {"add", "verify", "wait"}
                                 => pc[u] \in {"add", "verify", "wait"}
        BY <1>0, <1>5 DEF AddError, TypeInv, TypeOK
      <3>3. QED
        BY <1>0, <3>1, <3>2 DEF Nested, KeysKnown, OuterOwns
    <2>3. \A k \in Keys : store'[k] = store[k] \/ store[k] = None
      BY <1>0, <1>5, <2>1 DEF AddError, TypeInv, TypeOK
    <2>4. \A u \in Threads : \A k \in locks[u] : store[k] # None
      BY <1>0 DEF TypeInv, TypeOK, Stored
    <2>5. Stored'
      BY <1>0, <1>5, <2>3, <2>4 DEF AddError, Stored, TypeInv, TypeOK
    <2>6. QED
      BY <2>2, <2>5
  <1>6. ASSUME NEW t \in Threads, VerifyAdded(t)
        PROVE  Nested' /\ Stored'
    <2>1. pc[t] = "verify" /\ Obtain(t) /\ want[t] \in Keys
      BY <1>0, <1>6 DEF VerifyAdded, TypeInv, InCall
    <2>2. Nested'
      BY <1>0, <2>1, ObtainNested
    <2>3. Stored'
      BY <1>0, <1>6, <2>1 DEF VerifyAdded, Obtain, TypeInv, TypeOK, Stored
    <2>4. QED
      BY <2>2, <2>3
  <1>7. ASSUME NEW t \in Threads, VerifyError(t) \/ TimeoutExpired(t)
        PROVE  Nested' /\ Stored'
    <2>1. GiveUp(t)
      BY <1>7 DEF VerifyError, TimeoutExpired
    <2>2. \A u \in Threads : pc'[u] = "run" \/ (pc'[u] = pc[u] /\ want'[u] = want[u])
      BY <1>0, <2>1 DEF GiveUp, TypeInv, TypeOK
    <2>3. Nested'
      BY <1>0, <2>1, <2>2 DEF GiveUp, Nested, KeysKnown, OuterOwns
    <2>4. Stored'
      BY <1>0, <2>1 DEF GiveUp, Stored
    <2>5. QED
      BY <2>3, <2>4
  <1>8. ASSUME NEW t \in Threads, Retry(t)
        PROVE  Nested' /\ Stored'
    BY <1>0, <1>8 DEF Retry, TypeInv, TypeOK, Nested, KeysKnown, OuterOwns, Stored
  <1>9. ASSUME NEW t \in Threads, ReleaseNotOwner(t)
        PROVE  Nested' /\ Stored'
    <2>1. Nested'
      BY <1>0, <1>9, LeaveNested DEF ReleaseNotOwner, TypeInv, TypeOK
    <2>2. Stored'
      BY <1>0, <1>9 DEF ReleaseNotOwner, Stored
    <2>3. QED
      BY <2>1, <2>2
  <1>10. ASSUME NEW t \in Threads, Release(t) \/ ReleaseVerified(t)
         PROVE  Nested' /\ Stored'
    BY <1>0, <1>10
    DEF Release, ReleaseVerified, TypeInv, TypeOK, Nested, KeysKnown, OuterOwns, Stored
  <1>11. ASSUME NEW t \in Threads, ReleaseExpired(t) \/ ReleaseGetError(t)
         PROVE  Nested' /\ Stored'
    <2>1. held[t] # <<>> /\ Top(held[t]).owns_lock
      BY <1>0, <1>11 DEF ReleaseExpired, ReleaseGetError, TypeInv, InCall
    <2>2. Nested'
      BY <1>0, <1>11, <2>1, LeaveNested
      DEF ReleaseExpired, ReleaseGetError, Forget, LeaveUnforgotten
    <2>3. store' = store /\ \A u \in Threads : locks'[u] \subseteq locks[u]
      BY <1>0, <1>11
      DEF ReleaseExpired, ReleaseGetError, Forget, LeaveUnforgotten, TypeInv, TypeOK
    <2>4. Stored'
      BY <1>0, <2>3 DEF Stored
    <2>5. QED
      BY <2>2, <2>4
  <1>12. ASSUME NEW t \in Threads, ReleaseDelete(t)
         PROVE  Nested' /\ Stored'
    <2>1. held[t] # <<>> /\ Top(held[t]).owns_lock
      BY <1>0, <1>12 DEF ReleaseDelete, TypeInv, InCall
    <2>2. Nested'
      BY <1>0, <1>12, <2>1, LeaveNested DEF ReleaseDelete, Forget
    <2> DEFINE k == Top(held[t]).key
    <2>3. k \in locks[t] /\ k \in Keys
      <3>1. held[t] \in Seq(LockObject)
        BY <1>0 DEF TypeInv, TypeOK
      <3>2. Len(held[t]) \in 1..Len(held[t]) /\ Top(held[t]) = held[t][Len(held[t])]
        <4>1. Len(held[t]) \in Nat \ {0}
          BY <2>1, <3>1, PopStack
        <4>2. QED
          BY <4>1 DEF Top
      <3>3. QED
        BY <1>0, <3>2 DEF Nested, KeysKnown, OuterOwns, TypeInv, TypeOK
    <2>4. \A u \in Threads \ {t} : k \notin locks[u]
      BY <1>0, <2>3 DEF Stored, Tolerated
    <2>5. Stored'
      BY <1>0, <1>12, <2>3, <2>4 DEF ReleaseDelete, Forget, TypeInv, TypeOK, Stored
    <2>6. QED
      BY <2>2, <2>5
  <1>13. ASSUME NEW t \in Threads, ReleaseDeleteError(t)
         PROVE  FALSE
    BY <1>13 DEF ReleaseDeleteError, Tolerated
  <1>14. ASSUME NEW k \in Keys, Expire(k)
         PROVE  FALSE
    BY <1>14 DEF Expire, Tolerated
  <1>15. ASSUME NEW t \in Threads, Crash(t)
         PROVE  Nested' /\ Stored'
    <2>1. held'[t] = <<>> /\ Len(<<>>) = 0
      BY <1>0, <1>15, EmptySeq DEF Crash, TypeInv, TypeOK
    <2>2. QED
      BY <1>0, <1>15, <2>1 DEF Crash, TypeInv, TypeOK, Nested, KeysKnown, OuterOwns, Stored
  <1>16. CASE UNCHANGED vars
    BY <1>0, <1>16 DEF vars, Nested, KeysKnown, OuterOwns, Stored
  <1>17. QED
    BY <1>1, <1>2, <1>3, <1>4, <1>5, <1>6, <1>7, <1>8, <1>9, <1>10, <1>11,
       <1>12, <1>13, <1>14, <1>15, <1>16
    DEF Next, LockStep, CallerStep

(***************************************************************************)
(* The invariant and what it says: one thread has a key, and it is stored. *)
(***************************************************************************)
LEMMA LockInvariant == ASSUME Tolerated PROVE Spec => []LockInv
  <1>1. Init => LockInv
    <2>1. <<>> \in Seq(LockObject) /\ Len(<<>>) = 0
      BY EmptySeq
    <2>2. QED
      BY <2>1, LockAssumption
      DEF Init, LockInv, TypeInv, TypeOK, InCall, PCs, Nested, KeysKnown, OuterOwns, Stored
  <1>2. LockInv /\ [Next]_vars => LockInv'
    BY LockInvStep
  <1>3. QED
    BY <1>1, <1>2, PTL DEF Spec

(***************************************************************************)
(* Blocks are on keys of the thread-local set, and those are stored.       *)
(***************************************************************************)
LEMMA LockInvExcludes == ASSUME Tolerated PROVE LockInv => MutualExclusion /\ HeldIsStored
  <1>1. LockInv => \A t \in Threads, k \in Keys : Has(t, k) => k \in locks[t]
    BY DEF LockInv, Nested, KeysKnown, OuterOwns, Has
  <1>2. QED
    BY <1>1 DEF LockInv, Stored, MutualExclusion, HeldIsStored, Tolerated

(***************************************************************************)
(* lock.py gives mutual exclusion, for any threads, keys and nesting, when *)
(* crashes, errors of add() and errors of get() are all that goes wrong.   *)
(***************************************************************************)
THEOREM LockIsExclusive == ASSUME Tolerated PROVE Spec => []MutualExclusion
  BY LockInvariant, LockInvExcludes, PTL

(***************************************************************************)
(* Under the same failures no inner block frees an outer one's key: the    *)
(* entry in memcached stays while any block on the key is open.            *)
(***************************************************************************)
THEOREM HeldStaysStored == ASSUME Tolerated PROVE Spec => []HeldIsStored
  BY LockInvariant, LockInvExcludes, PTL

-----------------------------------------------------------------------------
(* Refinement of ReentrantLock                                             *)

\* No thread nests deeper than the bound, and one thread at a time has a key.
Shallow ==
    \A t \in Threads :
        /\ Len(held[t]) <= MaxDepth
        /\ pc[t] \in {"add", "verify", "wait"} => Len(held[t]) < MaxDepth

AloneInBlocks == TypeInv /\ Shallow /\ MutualExclusion

\* LockOwner and LockDepth without CHOOSE and with finite sets.
OwnerExact ==
    \A k \in Keys :
        /\ \A t \in Threads : Has(t, k) => LockOwner[k] = t
        /\ (\A t \in Threads : ~Has(t, k)) => LockOwner[k] = None

BlocksExact ==
    \A k \in Keys :
        /\ IsFiniteSet(Blocks(k))
        /\ (Blocks(k) = {}) <=> (\A t \in Threads : ~Has(t, k))

(***************************************************************************)
(* With one thread at a time in the blocks on a key, LockOwner is that     *)
(* thread and the blocks it has open are finitely many.                    *)
(***************************************************************************)
LEMMA OwnerAndBlocks == AloneInBlocks => OwnerExact /\ BlocksExact
  <1> SUFFICES ASSUME AloneInBlocks, NEW k \in Keys
               PROVE  /\ \A t \in Threads : Has(t, k) => LockOwner[k] = t
                      /\ (\A t \in Threads : ~Has(t, k)) => LockOwner[k] = None
                      /\ IsFiniteSet(Blocks(k))
                      /\ (Blocks(k) = {}) <=> (\A t \in Threads : ~Has(t, k))
    BY DEF OwnerExact, BlocksExact
  <1>1. ASSUME NEW t \in Threads, Has(t, k)
        PROVE  LockOwner[k] = t
    <2> DEFINE u == CHOOSE u \in Threads : Has(u, k)
    <2>1. u \in Threads /\ Has(u, k)
      BY <1>1, Zenon
    <2>2. u = t
      BY <1>1, <2>1 DEF AloneInBlocks, MutualExclusion
    <2>3. QED
      BY <1>1, <2>2, Zenon DEF LockOwner
  <1>2. ASSUME \A t \in Threads : ~Has(t, k)
        PROVE  LockOwner[k] = None
    BY <1>2, Zenon DEF LockOwner
  <1>3. \A b \in Blocks(k) : b[1] \in Threads /\ b[2] \in 1..MaxDepth
                                /\ b = <<b[1], b[2]>> /\ Has(b[1], k)
    <2> SUFFICES ASSUME NEW b \in Blocks(k)
                 PROVE  b[1] \in Threads /\ b[2] \in 1..MaxDepth
                          /\ b = <<b[1], b[2]>> /\ Has(b[1], k)
      OBVIOUS
    <2>1. b \in Threads \X (1..MaxDepth) /\ b[2] <= Len(held[b[1]])
            /\ held[b[1]][b[2]].key = k
      BY DEF Blocks
    <2>2. b[1] \in Threads /\ b[2] \in 1..MaxDepth /\ b = <<b[1], b[2]>>
      BY <2>1
    <2>3. held[b[1]] \in Seq(LockObject)
      BY <2>2 DEF AloneInBlocks, TypeInv, TypeOK
    <2>4. b[2] \in 1..Len(held[b[1]])
      BY <2>1, <2>2, <2>3, LenProperties, LockAssumption
    <2>5. QED
      BY <2>1, <2>2, <2>4 DEF Has
  <1>4. ASSUME NEW t \in Threads, Has(t, k)
        PROVE  IsFiniteSet(Blocks(k)) /\ Blocks(k) # {}
    <2>1. Blocks(k) \subseteq {t} \X (1..MaxDepth)
      BY <1>3, <1>4 DEF AloneInBlocks, MutualExclusion
    <2>2. IsFiniteSet({t} \X (1..MaxDepth))
      <3>1. IsFiniteSet(1..MaxDepth)
        BY FS_Interval, LockAssumption
      <3>2. IsFiniteSet({t})
        BY FS_Singleton
      <3>3. QED
        BY <3>1, <3>2, FS_Product
    <2>3. PICK i \in 1..Len(held[t]) : held[t][i].key = k
      BY <1>4 DEF Has
    <2>4. Len(held[t]) \in Nat /\ Len(held[t]) <= MaxDepth
      BY LenProperties DEF AloneInBlocks, Shallow, TypeInv, TypeOK
    <2>5. <<t, i>> \in Blocks(k)
      BY <2>3, <2>4, LockAssumption DEF Blocks
    <2>6. QED
      BY <2>1, <2>2, <2>5, FS_Subset
  <1>5. ASSUME \A t \in Threads : ~Has(t, k)
        PROVE  IsFiniteSet(Blocks(k)) /\ Blocks(k) = {}
    <2>1. Blocks(k) = {}
      BY <1>3, <1>5
    <2>2. QED
      BY <2>1, FS_EmptySet
  <1>6. QED
    BY <1>1, <1>2, <1>4, <1>5

(***************************************************************************)
(* No step nests blocks deeper than MaxDepth: acquire() is only entered    *)
(* below it, and release() and crashes leave blocks.                       *)
(***************************************************************************)
LEMMA ShallowStep == TypeInv /\ Shallow /\ [Next]_vars => Shallow'
  <1> SUFFICES ASSUME TypeInv, Shallow, [Next]_vars
               PROVE  Shallow'
    OBVIOUS
  <1> USE LockAssumption
  <1>0. \A t \in Threads : held[t] \in Seq(LockObject) /\ Len(held[t]) \in Nat
    BY LenProperties DEF TypeInv, TypeOK
  <1>1. ASSUME NEW t \in Threads, NEW e \in LockObject, Len(held[t]) < MaxDepth,
               held' = [held EXCEPT ![t] = Append(@, e)],
               pc' = [pc EXCEPT ![t] = "run"]
        PROVE  Shallow'
    <2>1. Len(held'[t]) = Len(held[t]) + 1
      BY <1>0, <1>1, PushStack DEF TypeInv, TypeOK
    <2>2. QED
      BY <1>0, <1>1, <2>1 DEF Shallow, TypeInv, TypeOK
  <1>2. ASSUME NEW t \in Threads, held[t] # <<>>,
               held' = [held EXCEPT ![t] = Pop(@)],
               pc' = [pc EXCEPT ![t] = "run"]
        PROVE  Shallow'
    <2>1. Len(held'[t]) = Len(held[t]) - 1
      BY <1>0, <1>2, PopStack DEF TypeInv, TypeOK
    <2>2. QED
      BY <1>0, <1>2, <2>1 DEF Shallow, TypeInv, TypeOK
  <1>3. ASSUME NEW t \in Threads, NEW k \in Keys, Reenter(t, k)
        PROVE  Shallow'
    <2>1. [key |-> k, owns_lock |-> FALSE] \in LockObject
      BY DEF LockObject
    <2>2. pc' = [pc EXCEPT ![t] = "run"]
      BY <1>3 DEF Reenter, TypeInv, TypeOK
    <2>3. QED
      BY <1>1, <1>3, <2>1, <2>2 DEF Reenter
  <1>4. ASSUME NEW t \in Threads, NEW k \in Keys, Acquire(t, k)
        PROVE  Shallow'
    BY <1>0, <1>4 DEF Acquire, Shallow, TypeInv, TypeOK
  <1>5. ASSUME NEW t \in Threads, AddOk(t) \/ VerifyAdded(t)
        PROVE  Shallow'
    <2>1. Obtain(t) /\ pc[t] \in {"add", "verify"}
      BY <1>5 DEF AddOk, VerifyAdded
    <2>2. [key |-> want[t], owns_lock |-> TRUE] \in LockObject
      BY <2>1 DEF TypeInv, InCall, LockObject
    <2>3. QED
      BY <1>1, <2>1, <2>2 DEF Obtain, Shallow
  <1>6. ASSUME NEW t \in Threads,
               AddFail(t) \/ AddError(t) \/ VerifyNotAdded(t) \/ Retry(t)
        PROVE  Shallow'
    BY <1>0, <1>6 DEF AddFail, AddError, VerifyNotAdded, Retry, Shallow, TypeInv, TypeOK
  <1>7. ASSUME NEW t \in Threads,
               VerifyError(t) \/ TimeoutExpired(t) \/ Release(t) \/ ReleaseVerified(t)
        PROVE  Shallow'
    BY <1>0, <1>7
    DEF VerifyError, TimeoutExpired, GiveUp, Release, ReleaseVerified, Shallow, TypeInv, TypeOK
  <1>8. ASSUME NEW t \in Threads, ReleaseNotOwner(t)
        PROVE  Shallow'
    <2>1. pc' = [pc EXCEPT ![t] = "run"]
      BY <1>8 DEF ReleaseNotOwner, TypeInv, TypeOK
    <2>2. QED
      BY <1>2, <1>8, <2>1 DEF ReleaseNotOwner
  <1>9. ASSUME NEW t \in Threads,
               \/ ReleaseExpired(t) \/ ReleaseGetError(t)
               \/ ReleaseDelete(t) \/ ReleaseDeleteError(t)
        PROVE  Shallow'
    <2>1. pc[t] \in {"relget", "reldel"} /\ (Forget(t) \/ LeaveUnforgotten(t))
      BY <1>9 DEF ReleaseExpired, ReleaseGetError, ReleaseDelete, ReleaseDeleteError
    <2>2. held[t] # <<>>
      BY <2>1 DEF TypeInv, InCall
    <2>3. QED
      BY <1>2, <2>1, <2>2 DEF Forget, LeaveUnforgotten
  <1>10. ASSUME NEW t \in Threads, Crash(t)
         PROVE  Shallow'
    <2>1. Len(<<>>) = 0
      BY EmptySeq
    <2>2. QED
      BY <1>0, <1>10, <2>1 DEF Crash, Shallow, TypeInv, TypeOK
  <1>11. CASE (\E k \in Keys : Expire(k)) \/ UNCHANGED vars
    BY <1>11 DEF Expire, vars, Shallow
  <1>12. QED
    BY <1>3, <1>4, <1>5, <1>6, <1>7, <1>8, <1>9, <1>10, <1>11
    DEF Next, LockStep, CallerStep

(***************************************************************************)
(* Opening a block on a key nobody else has is ReentrantLock's Enter: the  *)
(* block joins the key's, and those of the other keys stay as they are.    *)
(***************************************************************************)
LEMMA PushEnters ==
    ASSUME AloneInBlocks, AloneInBlocks', NEW t \in Threads, NEW e \in LockObject,
           held' = [held EXCEPT ![t] = Append(@, e)],
           \A u \in Threads : Has(u, e.key) => u = t
    PROVE  Abstract!Enter(t, e.key)
  <1> DEFINE k == e.key
             n == Len(held[t]) + 1
  <1>0. /\ OwnerExact /\ BlocksExact
        /\ (OwnerExact /\ BlocksExact)'
    BY OwnerAndBlocks, PTL
  <1>1. k \in Keys
    BY DEF LockObject
  <1>2. /\ held[t] \in Seq(LockObject) /\ Len(held[t]) \in Nat
        /\ Len(held'[t]) = n
        /\ \A i \in 1..Len(held[t]) : held'[t][i] = held[t][i]
        /\ held'[t][n] = e
    BY PushStack DEF AloneInBlocks, TypeInv, TypeOK
  <1>3. \A u \in Threads \ {t} : held'[u] = held[u]
    BY DEF AloneInBlocks, TypeInv, TypeOK
  <1>4. n \in 1..MaxDepth
    BY <1>2, LockAssumption DEF AloneInBlocks, Shallow
  <1>5. Has(t, k)'
    BY <1>2 DEF Has
  <1> HIDE DEF k, n
  <1>6. ASSUME NEW u \in Threads, NEW j \in Keys, j # k
        PROVE  Has(u, j)' <=> Has(u, j)
    BY <1>2, <1>3, <1>6 DEF Has, k, n
  <1>7. ASSUME NEW j \in Keys, j # k
        PROVE  LockOwner'[j] = LockOwner[j] /\ Blocks(j)' = Blocks(j)
    <2>1. LockOwner'[j] = LockOwner[j]
      <3>1. CASE \E u \in Threads : Has(u, j)
        BY <1>0, <1>6, <1>7, <3>1, Zenon DEF OwnerExact
      <3>2. CASE \A u \in Threads : ~Has(u, j)
        BY <1>0, <1>6, <1>7, <3>2, Zenon DEF OwnerExact
      <3>3. QED
        BY <3>1, <3>2
    <2>2. ASSUME NEW b \in Threads \X (1..MaxDepth)
          PROVE  (b \in Blocks(j)') <=> (b \in Blocks(j))
      <3>1. b[1] \in Threads /\ b[2] \in 1..MaxDepth
        OBVIOUS
      <3>2. CASE b[1] # t
        BY <1>3, <3>1, <3>2 DEF Blocks
      <3>3. CASE b[1] = t
        BY <1>2, <1>7, <3>1, <3>3, LockAssumption DEF Blocks, k, n
      <3>4. QED
        BY <3>2, <3>3
    <2>3. QED
      BY <2>1, <2>2 DEF Blocks
  <1>8. Blocks(k)' = Blocks(k) \cup {<<t, n>>} /\ <<t, n>> \notin Blocks(k)
    <2>1. <<t, n>> \notin Blocks(k)
      BY <1>2 DEF Blocks, n
    <2>2. <<t, n>> \in Blocks(k)'
      BY <1>2, <1>4 DEF Blocks, k, n
    <2>3. ASSUME NEW b \in Threads \X (1..MaxDepth), b # <<t, n>>
          PROVE  (b \in Blocks(k)') <=> (b \in Blocks(k))
      <3>1. b[1] \in Threads /\ b[2] \in 1..MaxDepth /\ b = <<b[1], b[2]>>
        OBVIOUS
      <3>2. CASE b[1] # t
        BY <1>3, <3>1, <3>2 DEF Blocks
      <3>3. CASE b[1] = t
        BY <1>2, <2>3, <3>1, <3>3, LockAssumption DEF Blocks, n
      <3>4. QED
        BY <3>2, <3>3
    <2>4. QED
      BY <2>1, <2>2, <2>3 DEF Blocks
  <1>9. LockOwner[k] \in {None, t} /\ LockOwner'[k] = t
    <2>1. LockOwner[k] \in {None, t}
      BY <1>0, <1>1, Zenon DEF OwnerExact, k
    <2>2. LockOwner'[k] = t
      BY <1>0, <1>1, <1>5, Zenon DEF OwnerExact
    <2>3. QED
      BY <2>1, <2>2
  <1>10. Cardinality(Blocks(k)') = Cardinality(Blocks(k)) + 1
    <2>1. IsFiniteSet(Blocks(k))
      BY <1>0, <1>1 DEF BlocksExact
    <2>2. QED
      BY <1>8, <2>1, FS_AddElement
  <1>11. LockOwner' = [LockOwner EXCEPT ![k] = t]
    BY <1>1, <1>7, <1>9 DEF LockOwner
  <1>12. LockDepth' = [LockDepth EXCEPT ![k] = @ + 1]
    BY <1>1, <1>7, <1>10 DEF LockDepth
  <1>13. QED
    BY <1>9, <1>11, <1>12 DEF Abstract!Enter, k

(***************************************************************************)
(* Leaving the innermost block, owner of its key or not, is ReentrantLock's*)
(* Leave: the key becomes free exactly when this was its only block.       *)
(***************************************************************************)
LEMMA PopLeaves ==
    ASSUME AloneInBlocks, AloneInBlocks', NEW t \in Threads, held[t] # <<>>,
           held' = [held EXCEPT ![t] = Pop(@)],
           NEW k, k = Top(held[t]).key
    PROVE  k \in Keys /\ Abstract!Leave(t, k)
  <1> DEFINE n == Len(held[t])
  <1>0. /\ OwnerExact /\ BlocksExact
        /\ (OwnerExact /\ BlocksExact)'
    BY OwnerAndBlocks, PTL
  <1>1. /\ held[t] \in Seq(LockObject)
        /\ n \in Nat \ {0}
        /\ Len(held'[t]) = n - 1
        /\ \A i \in 1..(n - 1) : held'[t][i] = held[t][i]
        /\ Top(held[t]) = held[t][n]
        /\ Top(held[t]) \in LockObject
    <2>1. held[t] \in Seq(LockObject) /\ held'[t] = Pop(held[t])
      BY DEF AloneInBlocks, TypeInv, TypeOK
    <2>2. QED
      BY <2>1, PopStack
  <1>2. k \in Keys
    BY <1>1 DEF LockObject
  <1>3. \A u \in Threads \ {t} : held'[u] = held[u]
    BY DEF AloneInBlocks, TypeInv, TypeOK
  <1>4. n \in 1..MaxDepth
    BY <1>1, LockAssumption DEF AloneInBlocks, Shallow
  <1>5. Has(t, k)
    BY <1>1 DEF Has
  <1> HIDE DEF n
  <1>6. ASSUME NEW u \in Threads, NEW j \in Keys, j # k
        PROVE  Has(u, j)' <=> Has(u, j)
    BY <1>1, <1>3, <1>6 DEF Has, n
  <1>7. ASSUME NEW j \in Keys, j # k
        PROVE  LockOwner'[j] = LockOwner[j] /\ Blocks(j)' = Blocks(j)
    <2>1. LockOwner'[j] = LockOwner[j]
      <3>1. CASE \E u \in Threads : Has(u, j)
        BY <1>0, <1>6, <1>7, <3>1, Zenon DEF OwnerExact
      <3>2. CASE \A u \in Threads : ~Has(u, j)
        BY <1>0, <1>6, <1>7, <3>2, Zenon DEF OwnerExact
      <3>3. QED
        BY <3>1, <3>2
    <2>2. ASSUME NEW b \in Threads \X (1..MaxDepth)
          PROVE  (b \in Blocks(j)') <=> (b \in Blocks(j))
      <3>1. b[1] \in Threads /\ b[2] \in 1..MaxDepth
        OBVIOUS
      <3>2. CASE b[1] # t
        BY <1>3, <3>1, <3>2 DEF Blocks
      <3>3. CASE b[1] = t
        BY <1>1, <1>7, <3>1, <3>3, LockAssumption DEF Blocks, n
      <3>4. QED
        BY <3>2, <3>3
    <2>3. QED
      BY <2>1, <2>2 DEF Blocks
  <1>8. Blocks(k)' = Blocks(k) \ {<<t, n>>} /\ <<t, n>> \in Blocks(k)
    <2>1. <<t, n>> \in Blocks(k)
      BY <1>1, <1>4 DEF Blocks, n
    <2>2. <<t, n>> \notin Blocks(k)'
      BY <1>1 DEF Blocks
    <2>3. ASSUME NEW b \in Threads \X (1..MaxDepth), b # <<t, n>>
          PROVE  (b \in Blocks(k)') <=> (b \in Blocks(k))
      <3>1. b[1] \in Threads /\ b[2] \in 1..MaxDepth /\ b = <<b[1], b[2]>>
        OBVIOUS
      <3>2. CASE b[1] # t
        BY <1>3, <3>1, <3>2 DEF Blocks
      <3>3. CASE b[1] = t
        BY <1>1, <2>3, <3>1, <3>3, LockAssumption DEF Blocks, n
      <3>4. QED
        BY <3>2, <3>3
    <2>4. QED
      BY <2>1, <2>2, <2>3 DEF Blocks
  <1>9. /\ IsFiniteSet(Blocks(k)) /\ Cardinality(Blocks(k)) \in Nat
        /\ IsFiniteSet(Blocks(k)') /\ Cardinality(Blocks(k)') = Cardinality(Blocks(k)) - 1
    <2>1. IsFiniteSet(Blocks(k)) /\ IsFiniteSet(Blocks(k)')
      BY <1>0, <1>2 DEF BlocksExact
    <2>2. Cardinality(Blocks(k)') = Cardinality(Blocks(k)) - 1
      BY <1>8, <2>1, FS_RemoveElement
    <2>3. QED
      BY <2>1, <2>2, FS_CardinalityType
  <1>10. LockOwner[k] = t
    BY <1>0, <1>2, <1>5, Zenon DEF OwnerExact
  <1>11. LockOwner'[k] = IF LockDepth[k] = 1 THEN None ELSE t
    <2>1. LockDepth[k] = Cardinality(Blocks(k))
      BY <1>2 DEF LockDepth
    <2>2. LockDepth[k] = 1 <=> Blocks(k)' = {}
      BY <1>9, <2>1, FS_EmptySet
    <2>3. ASSUME Blocks(k)' = {}
          PROVE  LockOwner'[k] = None
      BY <1>0, <1>2, <2>3 DEF OwnerExact, BlocksExact
    <2>4. ASSUME Blocks(k)' # {}
          PROVE  LockOwner'[k] = t
      <3>1. PICK u \in Threads : Has(u, k)'
        BY <1>0, <1>2, <2>4 DEF BlocksExact
      <3>2. u = t
        <4>1. CASE u # t
          <5>1. Has(u, k)
            BY <1>3, <3>1, <4>1 DEF Has
          <5>2. QED
            BY <1>2, <1>5, <5>1 DEF AloneInBlocks, MutualExclusion
        <4>2. QED
          BY <4>1
      <3>3. QED
        BY <1>0, <1>2, <3>1, <3>2 DEF OwnerExact
    <2>5. QED
      BY <2>2, <2>3, <2>4
  <1>12. LockOwner' = [LockOwner EXCEPT ![k] = IF LockDepth[k] = 1 THEN None ELSE t]
    BY <1>2, <1>7, <1>11 DEF LockOwner
  <1>13. LockDepth' = [LockDepth EXCEPT ![k] = @ - 1]
    BY <1>2, <1>7, <1>9 DEF LockDepth
  <1>14. QED
    BY <1>2, <1>10, <1>12, <1>13 DEF Abstract!Leave

(***************************************************************************)
(* A process that dies is ReentrantLock's Die: what it had becomes free,   *)
(* and nothing else changes hands.                                         *)
(***************************************************************************)
LEMMA CrashDies ==
    ASSUME AloneInBlocks, AloneInBlocks', NEW t \in Threads, Crash(t)
    PROVE  Abstract!Die(t)
  <1>0. /\ OwnerExact /\ BlocksExact
        /\ (OwnerExact /\ BlocksExact)'
    BY OwnerAndBlocks, PTL
  <1>1. held'[t] = <<>> /\ Len(held'[t]) = 0
    BY EmptySeq DEF Crash, AloneInBlocks, TypeInv, TypeOK
  <1>2. \A u \in Threads \ {t} : held'[u] = held[u]
    BY DEF Crash, AloneInBlocks, TypeInv, TypeOK
  <1>3. \A k \in Keys : ~Has(t, k)' /\ \A u \in Threads \ {t} : Has(u, k)' <=> Has(u, k)
    BY <1>1, <1>2 DEF Has
  <1>4. ASSUME NEW k \in Keys, Has(t, k)
        PROVE  /\ LockOwner[k] = t /\ LockOwner'[k] = None
               /\ Cardinality(Blocks(k)') = 0
    <2>1. \A u \in Threads : ~Has(u, k)'
      BY <1>3, <1>4 DEF AloneInBlocks, MutualExclusion
    <2>2. LockOwner[k] = t /\ LockOwner'[k] = None
      BY <1>0, <1>4, <2>1 DEF OwnerExact
    <2>3. Blocks(k)' = {}
      BY <1>0, <2>1 DEF BlocksExact
    <2>4. QED
      BY <2>2, <2>3, FS_EmptySet
  <1>5. ASSUME NEW k \in Keys, ~Has(t, k)
        PROVE  /\ LockOwner[k] # t /\ LockOwner'[k] = LockOwner[k]
               /\ Blocks(k)' = Blocks(k)
    <2>1. \A u \in Threads : Has(u, k)' <=> Has(u, k)
      BY <1>3, <1>5
    <2>2. LockOwner[k] # t /\ LockOwner'[k] = LockOwner[k]
      <3>1. CASE \E u \in Threads : Has(u, k)
        <4>1. PICK u \in Threads : Has(u, k)
          BY <3>1
        <4>2. QED
          BY <1>0, <1>5, <2>1, <4>1 DEF OwnerExact
      <3>2. CASE \A u \in Threads : ~Has(u, k)
        BY <1>0, <2>1, <3>2, LockAssumption DEF OwnerExact
      <3>3. QED
        BY <3>1, <3>2
    <2>3. ASSUME NEW b \in Threads \X (1..MaxDepth)
          PROVE  (b \in Blocks(k)') <=> (b \in Blocks(k))
      <3>1. b[1] \in Threads /\ b[2] \in 1..MaxDepth
        OBVIOUS
      <3>2. CASE b[1] # t
        BY <1>2, <3>1, <3>2 DEF Blocks
      <3>3. CASE b[1] = t
        <4>1. b \notin Blocks(k)'
          BY <1>1, <3>1, <3>3, LockAssumption DEF Blocks
        <4>2. Len(held[t]) \in Nat
          BY LenProperties DEF AloneInBlocks, TypeInv, TypeOK
        <4>3. b \notin Blocks(k)
          BY <1>5, <3>1, <3>3, <4>2, LockAssumption DEF Blocks, Has
        <4>4. QED
          BY <4>1, <4>3
      <3>4. QED
        BY <3>2, <3>3
    <2>4. QED
      BY <2>2, <2>3 DEF Blocks
  <1>6. LockOwner' = [k \in Keys |-> IF LockOwner[k] = t THEN None ELSE LockOwner[k]]
    <2>1. \A k \in Keys : LockOwner'[k] = IF LockOwner[k] = t THEN None ELSE LockOwner[k]
      BY <1>4, <1>5
    <2>2. QED
      BY <2>1 DEF LockOwner
  <1>7. LockDepth' = [k \in Keys |-> IF LockOwner[k] = t THEN 0 ELSE LockDepth[k]]
    <2>1. \A k \in Keys : LockDepth'[k] = IF LockOwner[k] = t THEN 0 ELSE LockDepth[k]
      BY <1>4, <1>5 DEF LockDepth
    <2>2. QED
      BY <2>1 DEF LockDepth
  <1>8. QED
    BY <1>6, <1>7 DEF Abstract!Die


(***************************************************************************)
(* Every step of lock.py, its callers and crashes is a step of             *)
(* ReentrantLock or changes nothing it knows of.  Entering needs that a    *)
(* thread may come back to a key its thread-local set has kept after an    *)
(* error of release(): nobody else can have it, since it is still stored.  *)
(***************************************************************************)
LEMMA LockRefines ==
    ASSUME Tolerated, LockInv, LockInv', Shallow, Shallow', [Next]_vars
    PROVE  [Abstract!Next]_(Abstract!lockVars)
  <1> USE LockAssumption
  <1>0. AloneInBlocks /\ AloneInBlocks'
    <2>1. (LockInv => MutualExclusion)'
      BY LockInvExcludes, PTL
    <2>2. QED
      BY <2>1, LockInvExcludes DEF AloneInBlocks, LockInv
  <1>1. TypeInv /\ Nested /\ Stored
    BY DEF LockInv
  <1>2. \A t \in Threads, k \in Keys : Has(t, k) => k \in locks[t]
    BY <1>1 DEF Nested, KeysKnown, Has
  <1>3. ASSUME held' = held
        PROVE  Abstract!lockVars' = Abstract!lockVars
    <2>1. \A t \in Threads, k \in Keys : Has(t, k)' <=> Has(t, k)
      BY <1>3 DEF Has
    <2>2. LockDepth' = LockDepth
      BY <1>3 DEF LockDepth, Blocks
    <2>3. LockOwner' = LockOwner
      BY <1>3 DEF LockOwner, Has
    <2>4. QED
      BY <2>2, <2>3 DEF Abstract!lockVars
  <1>4. ASSUME NEW t \in Threads, NEW k \in Keys, Reenter(t, k)
        PROVE  Abstract!Next
    <2> DEFINE e == [key |-> k, owns_lock |-> FALSE]
    <2>1. e \in LockObject /\ e.key = k
      BY DEF LockObject
    <2>2. held' = [held EXCEPT ![t] = Append(@, e)] /\ k \in locks[t]
      BY <1>4 DEF Reenter
    <2>3. \A u \in Threads : Has(u, k) => u = t
      BY <1>1, <1>2, <2>2 DEF Stored, Tolerated
    <2> HIDE DEF e
    <2>4. Abstract!Enter(t, k)
      BY <1>0, <2>1, <2>2, <2>3, PushEnters
    <2>5. QED
      BY <2>4 DEF Abstract!Next
  <1>5. ASSUME NEW t \in Threads, AddOk(t) \/ VerifyAdded(t)
        PROVE  Abstract!Next
    <2>1. PICK k \in Keys : k = want[t]
      BY <1>1, <1>5 DEF AddOk, VerifyAdded, TypeInv, InCall
    <2> DEFINE e == [key |-> k, owns_lock |-> TRUE]
    <2>2. e \in LockObject /\ e.key = k
      BY DEF LockObject
    <2>3. held' = [held EXCEPT ![t] = Append(@, e)]
      BY <1>5, <2>1 DEF AddOk, VerifyAdded, Obtain
    <2>4. \A u \in Threads : Has(u, k) => u = t
      <3>1. store[k] \in {None, NonceOf[t]}
        BY <1>5, <2>1 DEF AddOk, VerifyAdded
      <3>2. QED
        BY <1>1, <1>2, <3>1 DEF Stored, Tolerated
    <2> HIDE DEF e
    <2>5. Abstract!Enter(t, k)
      BY <1>0, <2>2, <2>3, <2>4, PushEnters
    <2>6. QED
      BY <2>5 DEF Abstract!Next
  <1>6. ASSUME NEW t \in Threads,
               \/ ReleaseNotOwner(t) \/ ReleaseExpired(t) \/ ReleaseGetError(t)
               \/ ReleaseDelete(t) \/ ReleaseDeleteError(t)
        PROVE  Abstract!Next
    <2>1. held[t] # <<>>
      BY <1>1, <1>6
      DEF ReleaseNotOwner, ReleaseExpired, ReleaseGetError, ReleaseDelete,
          ReleaseDeleteError, TypeInv, InCall
    <2>2. held' = [held EXCEPT ![t] = Pop(@)]
      BY <1>6
      DEF ReleaseNotOwner, ReleaseExpired, ReleaseGetError, ReleaseDelete,
          ReleaseDeleteError, Forget, LeaveUnforgotten
    <2>3. PICK k : k = Top(held[t]).key
      OBVIOUS
    <2>4. k \in Keys /\ Abstract!Leave(t, k)
      BY <1>0, <2>1, <2>2, <2>3, PopLeaves
    <2>5. QED
      BY <2>4 DEF Abstract!Next
  <1>7. ASSUME NEW t \in Threads, Crash(t)
        PROVE  Abstract!Next
    <2>1. Abstract!Die(t)
      BY <1>0, <1>7, CrashDies
    <2>2. QED
      BY <2>1 DEF Abstract!Next
  <1>8. ASSUME NEW t \in Threads,
               \/ AddFail(t) \/ AddError(t) \/ VerifyNotAdded(t) \/ VerifyError(t)
               \/ Retry(t) \/ TimeoutExpired(t) \/ Release(t) \/ ReleaseVerified(t)
               \/ \E k \in Keys : Acquire(t, k)
        PROVE  Abstract!lockVars' = Abstract!lockVars
    <2>1. held' = held
      BY <1>8
      DEF AddFail, AddError, VerifyNotAdded, VerifyError, GiveUp, Retry, TimeoutExpired,
          Release, ReleaseVerified, Acquire
    <2>2. QED
      BY <1>3, <2>1
  <1>9. CASE (\E k \in Keys : Expire(k)) \/ UNCHANGED vars
    BY <1>3, <1>9 DEF Expire, vars
  <1>10. QED
    BY <1>4, <1>5, <1>6, <1>7, <1>8, <1>9 DEF Next, LockStep, CallerStep

(***************************************************************************)
(* Under the tolerated failures lock.py implements ReentrantLock: its      *)
(* callers may rely on the abstract lock, as CommentTree and ThingCommit   *)
(* do here.                                                                *)
(***************************************************************************)
THEOREM LockIsReentrant == ASSUME Tolerated PROVE Spec => ImplementsReentrantLock
  <1>1. Init => Shallow
    <2>1. Len(<<>>) = 0
      BY EmptySeq
    <2>2. QED
      BY <2>1, LockAssumption DEF Init, Shallow
  <1>2. LockInv /\ Shallow /\ [Next]_vars => Shallow'
    BY ShallowStep DEF LockInv
  <1>3. Init => Abstract!Init
    <2> SUFFICES ASSUME Init
                 PROVE  Abstract!Init
      OBVIOUS
    <2>1. \A t \in Threads, k \in Keys : ~Has(t, k)
      <3>1. Len(<<>>) = 0
        BY EmptySeq
      <3>2. QED
        BY <3>1 DEF Init, Has
    <2>2. LockOwner = [k \in Keys |-> None]
      BY <2>1 DEF LockOwner
    <2>3. \A k \in Keys : Blocks(k) = {}
      <3>1. Len(<<>>) = 0
        BY EmptySeq
      <3>2. QED
        BY <3>1, LockAssumption DEF Init, Blocks
    <2>4. LockDepth = [k \in Keys |-> 0]
      BY <2>3, FS_EmptySet DEF LockDepth
    <2>5. QED
      BY <2>2, <2>4 DEF Abstract!Init
  <1>4. LockInv /\ LockInv' /\ Shallow /\ Shallow' /\ [Next]_vars
           => [Abstract!Next]_(Abstract!lockVars)
    BY LockRefines
  <1>5. QED
    BY <1>1, <1>2, <1>3, <1>4, LockInvariant, PTL
    DEF Spec, ImplementsReentrantLock, Abstract!Spec

=============================================================================
