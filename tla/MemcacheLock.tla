---------------------------- MODULE MemcacheLock ----------------------------
(***************************************************************************)
(* r2/lib/lock.py: a global lock made of one memcached entry per key.      *)
(*                                                                         *)
(* A thread takes the lock by add()ing its nonce under the key and frees   *)
(* it by delete()ing the entry, after a get() that checks the entry still  *)
(* holds its nonce.  The thread-local set `locks` remembers which keys the *)
(* thread owns, so that a nested block on the same key neither waits nor,  *)
(* when it is left, frees the key.  The entry has a time to live, every    *)
(* memcached call may raise MemcachedError, and a process may die.         *)
(*                                                                         *)
(* The nonce is (host, pid, traceback): two threads of one process at the  *)
(* same call site have the same one, so NonceOf need not be injective.     *)
(***************************************************************************)
EXTENDS Integers, Sequences, FiniteSets

CONSTANTS
    Threads,    \* threads of all the app servers and queue consumers
    Keys,       \* lock names
    Nonces,
    NonceOf,    \* NonceOf[t]: the nonce of t's lock objects
    None,       \* "no entry" in memcached, "no key" in want
    Timeout,    \* ticks an acquirer waits before TimeoutExpired
    MaxDepth,   \* bound: nested lock blocks of a thread
    Faults      \* which of the failures below may happen

AllFaults == {"add", "verify", "relget", "reldel", "expire", "crash"}

ASSUME LockAssumption ==
    /\ NonceOf \in [Threads -> Nonces]
    /\ None \notin Nonces
    /\ None \notin Keys
    /\ None \notin Threads
    /\ Timeout \in Nat
    /\ MaxDepth \in Nat
    /\ Faults \subseteq AllFaults

VARIABLES
    store,   \* store[k]: the nonce memcached has under k, or None
    locks,   \* locks[t]: the thread-local set of keys
    held,    \* held[t]: the lock objects whose block t is in, innermost last
    pc,      \* pc[t]: where t is in acquire() or release(); "run" outside
    want,    \* want[t]: the key t is in acquire() for
    waited   \* waited[t]: ticks since t entered acquire()

vars == <<store, locks, held, pc, want, waited>>

LockObject == [key : Keys, owns_lock : BOOLEAN]
PCs == {"run", "add", "verify", "wait", "relget", "reldel"}

TypeOK ==
    /\ store \in [Keys -> Nonces \cup {None}]
    /\ locks \in [Threads -> SUBSET Keys]
    /\ held \in [Threads -> Seq(LockObject)]
    /\ pc \in [Threads -> PCs]
    /\ want \in [Threads -> Keys \cup {None}]
    /\ waited \in [Threads -> Nat]

Top(s) == s[Len(s)]
Pop(s) == SubSeq(s, 1, Len(s) - 1)

Init ==
    /\ store = [k \in Keys |-> None]
    /\ locks = [t \in Threads |-> {}]
    /\ held = [t \in Threads |-> <<>>]
    /\ pc = [t \in Threads |-> "run"]
    /\ want = [t \in Threads |-> None]
    /\ waited = [t \in Threads |-> 0]

-----------------------------------------------------------------------------
(* acquire()                                                               *)

\* A thread that already has the key gets a lock object that does not own it.
Reenter(t, k) ==
    /\ pc[t] = "run"
    /\ Len(held[t]) < MaxDepth
    /\ k \in locks[t]
    /\ held' = [held EXCEPT ![t] = Append(@, [key |-> k, owns_lock |-> FALSE])]
    /\ UNCHANGED <<store, locks, pc, want, waited>>

Acquire(t, k) ==
    /\ pc[t] = "run"
    /\ Len(held[t]) < MaxDepth
    /\ k \notin locks[t]
    /\ pc' = [pc EXCEPT ![t] = "add"]
    /\ want' = [want EXCEPT ![t] = k]
    /\ waited' = [waited EXCEPT ![t] = 0]
    /\ UNCHANGED <<store, locks, held>>

\* owns_lock = have_lock = True and the key joins the thread-local set.
Obtain(t) ==
    /\ held' = [held EXCEPT ![t] = Append(@, [key |-> want[t], owns_lock |-> TRUE])]
    /\ locks' = [locks EXCEPT ![t] = @ \cup {want[t]}]
    /\ pc' = [pc EXCEPT ![t] = "run"]
    /\ want' = [want EXCEPT ![t] = None]

\* Mutant of AddOk: memcached's set in place of add.
AddOkUnconditional(t) ==
    /\ pc[t] = "add"
    /\ store' = [store EXCEPT ![want[t]] = NonceOf[t]]
    /\ Obtain(t)
    /\ UNCHANGED waited

AddOk(t) ==
    /\ pc[t] = "add"
    /\ store[want[t]] = None
    /\ store' = [store EXCEPT ![want[t]] = NonceOf[t]]
    /\ Obtain(t)
    /\ UNCHANGED waited

AddFail(t) ==
    /\ pc[t] = "add"
    /\ store[want[t]] # None
    /\ pc' = [pc EXCEPT ![t] = "wait"]
    /\ UNCHANGED <<store, locks, held, want, waited>>

\* add() raises MemcachedError, whether or not memcached executed it.
AddError(t) ==
    /\ "add" \in Faults
    /\ pc[t] = "add"
    /\ \/ UNCHANGED store
       \/ /\ store[want[t]] = None
          /\ store' = [store EXCEPT ![want[t]] = NonceOf[t]]
    /\ pc' = [pc EXCEPT ![t] = "verify"]
    /\ UNCHANGED <<locks, held, want, waited>>

\* The get() after an error: did the add succeed after all?
VerifyAdded(t) ==
    /\ pc[t] = "verify"
    /\ store[want[t]] = NonceOf[t]
    /\ Obtain(t)
    /\ UNCHANGED <<store, waited>>

VerifyNotAdded(t) ==
    /\ pc[t] = "verify"
    /\ store[want[t]] # NonceOf[t]
    /\ pc' = [pc EXCEPT ![t] = "wait"]
    /\ UNCHANGED <<store, locks, held, want, waited>>

\* An exception leaves acquire(): no lock object joins the block structure.
GiveUp(t) ==
    /\ pc' = [pc EXCEPT ![t] = "run"]
    /\ want' = [want EXCEPT ![t] = None]
    /\ UNCHANGED <<store, locks, held, waited>>

VerifyError(t) ==
    /\ "verify" \in Faults
    /\ pc[t] = "verify"
    /\ GiveUp(t)

\* Mutants of Retry: the clock restarts at every attempt, or runs down.
RetryNoClock(t) ==
    /\ pc[t] = "wait"
    /\ waited[t] <= Timeout
    /\ pc' = [pc EXCEPT ![t] = "add"]
    /\ UNCHANGED <<store, locks, held, want, waited>>

RetryCountdown(t) ==
    /\ pc[t] = "wait"
    /\ waited[t] <= Timeout
    /\ waited' = [waited EXCEPT ![t] = @ - 1]
    /\ pc' = [pc EXCEPT ![t] = "add"]
    /\ UNCHANGED <<store, locks, held, want>>

\* sleep(random.uniform(0.1, 1)), then add() again.
Retry(t) ==
    /\ pc[t] = "wait"
    /\ waited[t] <= Timeout
    /\ waited' = [waited EXCEPT ![t] = @ + 1]
    /\ pc' = [pc EXCEPT ![t] = "add"]
    /\ UNCHANGED <<store, locks, held, want>>

TimeoutExpired(t) ==
    /\ pc[t] = "wait"
    /\ waited[t] > Timeout
    /\ GiveUp(t)

-----------------------------------------------------------------------------
(* release(), called by __exit__ on the innermost lock object              *)

\* Releasing a lock object that is not the owner does nothing.
ReleaseNotOwner(t) ==
    /\ pc[t] = "run"
    /\ held[t] # <<>>
    /\ ~Top(held[t]).owns_lock
    /\ held' = [held EXCEPT ![t] = Pop(@)]
    /\ UNCHANGED <<store, locks, pc, want, waited>>

\* Mutant of Release: any lock object releases the key.
ReleaseAlways(t) ==
    /\ pc[t] = "run"
    /\ held[t] # <<>>
    /\ pc' = [pc EXCEPT ![t] = "relget"]
    /\ UNCHANGED <<store, locks, held, want, waited>>

Release(t) ==
    /\ pc[t] = "run"
    /\ held[t] # <<>>
    /\ Top(held[t]).owns_lock
    /\ pc' = [pc EXCEPT ![t] = "relget"]
    /\ UNCHANGED <<store, locks, held, want, waited>>

\* locks.remove(key), and the block is left.
Forget(t) ==
    /\ locks' = [locks EXCEPT ![t] = @ \ {Top(held[t]).key}]
    /\ held' = [held EXCEPT ![t] = Pop(@)]
    /\ pc' = [pc EXCEPT ![t] = "run"]
    /\ UNCHANGED <<want, waited>>

\* An exception leaves release(): the block is left but locks keeps the key.
LeaveUnforgotten(t) ==
    /\ held' = [held EXCEPT ![t] = Pop(@)]
    /\ pc' = [pc EXCEPT ![t] = "run"]
    /\ UNCHANGED <<locks, want, waited>>

ReleaseVerified(t) ==
    /\ pc[t] = "relget"
    /\ store[Top(held[t]).key] = NonceOf[t]
    /\ pc' = [pc EXCEPT ![t] = "reldel"]
    /\ UNCHANGED <<store, locks, held, want, waited>>

\* "Lock expired before completion" is only logged.
ReleaseExpired(t) ==
    /\ pc[t] = "relget"
    /\ store[Top(held[t]).key] # NonceOf[t]
    /\ Forget(t)
    /\ UNCHANGED store

ReleaseGetError(t) ==
    /\ "relget" \in Faults
    /\ pc[t] = "relget"
    /\ LeaveUnforgotten(t)
    /\ UNCHANGED store

ReleaseDelete(t) ==
    /\ pc[t] = "reldel"
    /\ store' = [store EXCEPT ![Top(held[t]).key] = None]
    /\ Forget(t)

ReleaseDeleteError(t) ==
    /\ "reldel" \in Faults
    /\ pc[t] = "reldel"
    /\ \/ UNCHANGED store
       \/ store' = [store EXCEPT ![Top(held[t]).key] = None]
    /\ LeaveUnforgotten(t)

-----------------------------------------------------------------------------
(* The environment                                                         *)

\* memcached drops the entry: its time to live has passed, or it was evicted.
Expire(k) ==
    /\ "expire" \in Faults
    /\ store[k] # None
    /\ store' = [store EXCEPT ![k] = None]
    /\ UNCHANGED <<locks, held, pc, want, waited>>

\* The process dies and is restarted; only memcached remembers.
Crash(t) ==
    /\ "crash" \in Faults
    /\ locks' = [locks EXCEPT ![t] = {}]
    /\ held' = [held EXCEPT ![t] = <<>>]
    /\ pc' = [pc EXCEPT ![t] = "run"]
    /\ want' = [want EXCEPT ![t] = None]
    /\ UNCHANGED <<store, waited>>

\* The steps of a thread that is inside acquire() or release().
LockStep(t) ==
    \/ AddOk(t)
    \/ AddFail(t)
    \/ AddError(t)
    \/ VerifyAdded(t)
    \/ VerifyNotAdded(t)
    \/ VerifyError(t)
    \/ Retry(t)
    \/ TimeoutExpired(t)
    \/ ReleaseVerified(t)
    \/ ReleaseExpired(t)
    \/ ReleaseGetError(t)
    \/ ReleaseDelete(t)
    \/ ReleaseDeleteError(t)

\* What the code that uses locks does: open a block, or leave the innermost.
CallerStep(t) ==
    \/ \E k \in Keys : Reenter(t, k) \/ Acquire(t, k)
    \/ ReleaseNotOwner(t)
    \/ Release(t)

Next ==
    \/ \E t \in Threads : LockStep(t) \/ CallerStep(t) \/ Crash(t)
    \/ \E k \in Keys : Expire(k)

Spec == Init /\ [][Next]_vars

\* A thread inside acquire() or release() is scheduled again and again; no
\* caller is obliged to open or to leave a block.
FairSpec == Spec /\ \A t \in Threads : WF_vars(LockStep(t))

-----------------------------------------------------------------------------
(* Properties                                                              *)

Has(t, k) == \E i \in 1..Len(held[t]) : held[t][i].key = k

(***************************************************************************)
(* No two threads are inside blocks on the same key.  Holds when entries   *)
(* outlive the blocks, nonces differ and delete() never raises after doing *)
(* its work; crashes and the errors of add() and get() are harmless.       *)
(***************************************************************************)
MutualExclusion ==
    \A t1, t2 \in Threads, k \in Keys : Has(t1, k) /\ Has(t2, k) => t1 = t2

(***************************************************************************)
(* While a thread is inside any block on a key, nested or not, memcached   *)
(* still holds the thread's nonce: leaving an inner block frees nothing.   *)
(***************************************************************************)
HeldIsStored ==
    \A t \in Threads, k \in Keys : Has(t, k) => store[k] = NonceOf[t]

(***************************************************************************)
(* A call of acquire() or release() returns or raises, whoever hogs the    *)
(* lock, in whatever order threads nest their blocks.                      *)
(***************************************************************************)
CallsReturn == \A t \in Threads : pc[t] # "run" ~> pc[t] = "run"

\* Whose blocks a key has, and how many of them are open.
Blocks(k) ==
    {b \in Threads \X (1..MaxDepth) : b[2] <= Len(held[b[1]]) /\ held[b[1]][b[2]].key = k}

LockOwner ==
    [k \in Keys |-> IF \E t \in Threads : Has(t, k) THEN CHOOSE t \in Threads : Has(t, k)
                    ELSE None]

LockDepth == [k \in Keys |-> Cardinality(Blocks(k))]

(***************************************************************************)
(* The lock object keeps the promise of ReentrantLock.                     *)
(***************************************************************************)
Abstract == INSTANCE ReentrantLock WITH owner <- LockOwner, depth <- LockDepth

ImplementsReentrantLock == Abstract!Spec

=============================================================================
