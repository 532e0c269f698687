------------------------------- MODULE Memoize -------------------------------
(***************************************************************************)
(* r2/lib/memoize.py over the StaleCacheChain of r2/lib/cache.py: one      *)
(* memoized function of data that changes.  Whoever changes the data calls *)
(* the function with _update=True afterwards; others call it, some with    *)
(* stale=True, during requests that each have their own local cache.       *)
(*                                                                         *)
(* A result is the version of the data it was computed from.               *)
(***************************************************************************)
EXTENDS Integers

CONSTANTS
    Callers,     \* processes, each working on one request at a time
    NoResult,    \* nothing in a cache
    MaxVersion,  \* bound: changes of the data
    MaxBegins,   \* bound: requests
    MaxMemoFaults  \* bound: evictions, crashes, lock timeouts and expiries

ASSUME MemoizeAssumption ==
    /\ NoResult \notin Nat \cup Callers
    /\ MaxVersion \in Nat /\ MaxBegins \in Nat /\ MaxMemoFaults \in Nat

VARIABLES
    version,    \* version of what the function reads
    memo,       \* memcached: a result or NoResult
    staleMemo,  \* the stale cache, whose entries last 30 seconds
    localMemo,  \* localMemo[p]: the local cache of p's request
    memoLock,   \* holder of "memoize_lock(<key>)"
    memoAt,     \* memoAt[p]: where p is in the function
    how,        \* how[p]: "plain", "stale" or "update"
    res,        \* res[p]: what p is about to store, or has returned
    floor,      \* the newest version an _update call has stored
    since,      \* since[p]: floor when p's request began
    expired,    \* a lock has expired while its holder was computing
    begins, memoFaults  \* against the bounds

memoCaches == <<memo, staleMemo, localMemo>>
memoBounds == <<begins, memoFaults>>
memoVars == <<version, memoCaches, memoLock, memoAt, how, res, floor, since, expired,
              memoBounds>>

Results == 0..MaxVersion \cup {NoResult}

MemoizeTypeOK ==
    /\ version \in 0..MaxVersion
    /\ memo \in Results /\ staleMemo \in Results
    /\ localMemo \in [Callers -> Results]
    /\ memoLock \in Callers \cup {NoResult}
    /\ memoAt \in [Callers -> {"none", "request", "get", "lock", "again", "compute", "set",
                               "returned"}]
    /\ how \in [Callers -> {"plain", "stale", "update"}]
    /\ res \in [Callers -> Results]
    /\ floor \in 0..MaxVersion /\ since \in [Callers -> 0..MaxVersion]
    /\ expired \in BOOLEAN
    /\ begins \in 0..MaxBegins /\ memoFaults \in 0..MaxMemoFaults

MemoizeInit ==
    /\ version = 0
    /\ memo = NoResult /\ staleMemo = NoResult
    /\ localMemo = [p \in Callers |-> NoResult]
    /\ memoLock = NoResult
    /\ memoAt = [p \in Callers |-> "none"]
    /\ how = [p \in Callers |-> "plain"]
    /\ res = [p \in Callers |-> NoResult]
    /\ floor = 0 /\ since = [p \in Callers |-> 0]
    /\ expired = FALSE
    /\ begins = 0 /\ memoFaults = 0

MemoGoto(p, place) == memoAt' = [memoAt EXCEPT ![p] = place]

Returned(p, r) ==
    /\ res' = [res EXCEPT ![p] = r]
    /\ MemoGoto(p, "returned")

-----------------------------------------------------------------------------
(* Requests                                                                *)

\* StaleCacheChain.reset gives the request a new local cache.
Begin(p) ==
    /\ memoAt[p] \in {"none", "request", "returned"}
    /\ begins < MaxBegins
    /\ begins' = begins + 1
    /\ localMemo' = [localMemo EXCEPT ![p] = NoResult]
    /\ since' = [since EXCEPT ![p] = floor]
    /\ res' = [res EXCEPT ![p] = NoResult]
    /\ MemoGoto(p, "request")
    /\ UNCHANGED <<version, memo, staleMemo, memoLock, how, floor, expired, memoFaults>>

CallMemo(p, h) ==
    /\ memoAt[p] \in {"request", "returned"}
    /\ how' = [how EXCEPT ![p] = h]
    /\ MemoGoto(p, IF h = "update" THEN "lock" ELSE "get")
    /\ IF h = "update" THEN version < MaxVersion /\ version' = version + 1
       ELSE UNCHANGED version
    /\ UNCHANGED <<memoCaches, memoLock, res, floor, since, expired, memoBounds>>

\* Mutant of ChainGet: stale results get into the local cache.
ChainGetStale(p) ==
    /\ memoAt[p] = "get"
    /\ LET mine == localMemo[p]
           got == IF mine # NoResult THEN mine
                  ELSE IF how[p] = "stale" /\ staleMemo # NoResult THEN staleMemo ELSE memo
       IN  IF got = NoResult
           THEN MemoGoto(p, "lock") /\ UNCHANGED <<staleMemo, localMemo, res>>
           ELSE /\ Returned(p, got)
                /\ localMemo' = [localMemo EXCEPT ![p] = got]
                /\ staleMemo' = IF how[p] = "stale" THEN got ELSE staleMemo
    /\ UNCHANGED <<version, memo, memoLock, how, floor, since, expired, memoBounds>>

\* StaleCacheChain.get: local, then stale if allowed, then memcached.
ChainGet(p) ==
    /\ memoAt[p] = "get"
    /\ LET mine == localMemo[p]
       IN  \/ /\ mine # NoResult
              /\ Returned(p, mine)
              /\ UNCHANGED <<staleMemo, localMemo>>
           \/ /\ mine = NoResult /\ how[p] = "stale" /\ staleMemo # NoResult
              /\ Returned(p, staleMemo)
              /\ UNCHANGED <<staleMemo, localMemo>>
           \/ /\ mine = NoResult /\ ~(how[p] = "stale" /\ staleMemo # NoResult)
              /\ memo # NoResult
              /\ Returned(p, memo)
              /\ localMemo' = [localMemo EXCEPT ![p] = memo]
              /\ staleMemo' = IF how[p] = "stale" THEN memo ELSE staleMemo
           \/ /\ mine = NoResult /\ ~(how[p] = "stale" /\ staleMemo # NoResult)
              /\ memo = NoResult
              /\ MemoGoto(p, "lock")
              /\ UNCHANGED <<staleMemo, localMemo, res>>
    /\ UNCHANGED <<version, memo, memoLock, how, floor, since, expired, memoBounds>>

TakeMemoLock(p) ==
    /\ memoAt[p] = "lock"
    /\ memoLock = NoResult
    /\ memoLock' = p
    /\ MemoGoto(p, IF how[p] = "update" THEN "compute" ELSE "again")
    /\ UNCHANGED <<version, memoCaches, how, res, floor, since, expired, memoBounds>>

ReleaseMemoLock(p) == memoLock' = IF memoLock = p THEN NoResult ELSE memoLock

\* "see if it was completed while we were waiting for the lock"
GetAgain(p) ==
    /\ memoAt[p] = "again"
    /\ \/ /\ memo # NoResult
          /\ Returned(p, memo)
          /\ localMemo' = [localMemo EXCEPT ![p] = memo]
          /\ ReleaseMemoLock(p)
       \/ /\ memo = NoResult
          /\ MemoGoto(p, "compute")
          /\ UNCHANGED <<localMemo, res, memoLock>>
    /\ UNCHANGED <<version, memo, staleMemo, how, floor, since, expired, memoBounds>>

\* The function reads its data, and takes its time.
Compute(p) ==
    /\ memoAt[p] = "compute"
    /\ res' = [res EXCEPT ![p] = version]
    /\ MemoGoto(p, "set")
    /\ UNCHANGED <<version, memoCaches, memoLock, how, floor, since, expired, memoBounds>>

SetMemo(p) ==
    /\ memoAt[p] = "set"
    /\ memo' = res[p]
    /\ localMemo' = [localMemo EXCEPT ![p] = res[p]]
    /\ floor' = IF how[p] = "update" /\ res[p] > floor THEN res[p] ELSE floor
    /\ ReleaseMemoLock(p)
    /\ MemoGoto(p, "returned")
    /\ UNCHANGED <<version, staleMemo, how, res, since, expired, memoBounds>>

-----------------------------------------------------------------------------
(* The environment                                                         *)

MemoFault == memoFaults < MaxMemoFaults /\ memoFaults' = memoFaults + 1

\* An exception: the lock is not to be had, the function raises, or the
\* process dies and its lock expires.
MemoFails(p) ==
    /\ memoAt[p] \in {"lock", "again", "compute", "set"}
    /\ MemoFault
    /\ ReleaseMemoLock(p)
    /\ res' = [res EXCEPT ![p] = NoResult]
    /\ MemoGoto(p, "none")
    /\ UNCHANGED <<version, memoCaches, how, floor, since, expired, begins>>

\* time=30: the lock of a slow computation expires.
MemoLockExpires ==
    /\ memoLock # NoResult
    /\ MemoFault
    /\ memoLock' = NoResult
    /\ expired' = TRUE
    /\ UNCHANGED <<version, memoCaches, memoAt, how, res, floor, since, begins>>

EvictMemo ==
    /\ memo # NoResult
    /\ MemoFault
    /\ memo' = NoResult
    /\ UNCHANGED <<version, staleMemo, localMemo, memoLock, memoAt, how, res, floor, since,
                   expired, begins>>

\* 30 seconds after it was set.
StaleExpires ==
    /\ staleMemo # NoResult
    /\ staleMemo' = NoResult
    /\ UNCHANGED <<version, memo, localMemo, memoLock, memoAt, how, res, floor, since, expired,
                   memoBounds>>

MemoStep(p) ==
    ChainGet(p) \/ TakeMemoLock(p) \/ GetAgain(p) \/ Compute(p) \/ SetMemo(p)

MemoizeNext ==
    \/ \E p \in Callers :
        \/ Begin(p) \/ (\E h \in {"plain", "stale", "update"} : CallMemo(p, h))
        \/ MemoStep(p) \/ MemoFails(p)
    \/ MemoLockExpires \/ EvictMemo \/ StaleExpires

MemoizeSpec == MemoizeInit /\ [][MemoizeNext]_memoVars

-----------------------------------------------------------------------------
(* Properties                                                              *)

(***************************************************************************)
(* A request that begins after an _update call has stored its result never *)
(* gets an older one, unless it says stale=True: neither a slow caller     *)
(* that computed before the update, nor the local cache it shares with its *)
(* own stale calls ("never return stale data into the LocalCache",         *)
(* cache.py:801) gives one.  A computation that outlives its lock may.     *)
(***************************************************************************)
NotOlderThanUpdate ==
    ~expired => \A p \in Callers :
        (memoAt[p] = "returned" /\ how[p] # "stale") => res[p] >= since[p]

=============================================================================
