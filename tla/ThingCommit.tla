----------------------------- MODULE ThingCommit -----------------------------
(***************************************************************************)
(* r2/lib/db/thing.py: one Thing, the row(s) of it in postgres, the whole  *)
(* object in memcached, and the processes that load, change, commit and    *)
(* increment their own in-memory copies of it.                             *)
(*                                                                         *)
(* The lock taken by _commit and _incr is MemcacheLock, here at the level  *)
(* of ReentrantLock: one holder, plus the expiry of its entry.  Values are *)
(* integers; base properties live in the thing row, data properties each   *)
(* in a row of the data table that exists once the property was written.   *)
(***************************************************************************)
EXTENDS Integers, FiniteSets

CONSTANTS
    Procs,      \* app server and consumer processes
    BaseProps,  \* _base_props: columns of the thing table (_ups, _spam, ...)
    DataProps,  \* the rest, keys of the data table
    IncrProps,  \* _int_props and _data_int_props: changed by _incr only
    Default,    \* the values the thing is created with / the class defaults
    Values,     \* values callers assign to the other properties
    Amounts,    \* amounts callers increment by
    Unset,      \* no row in the data table
    None,       \* no thing, no cached copy, no lock holder
    MaxCalls,   \* bound: calls each process makes
    MaxHarm,    \* bound: failures of the kinds in Harmful
    Faults      \* what may go wrong

Props == BaseProps \cup DataProps

\* Failures the code is written to survive with a coherent cache ...
Tolerable == {"rollback", "timeout", "crash", "orphan", "quiet"}
\* ... and those it is not.
Harmful == {"evict", "expire", "addfail", "cachefail", "incrcommit",
            "windowcrash", "create"}

ASSUME ThingAssumption ==
    /\ BaseProps \cap DataProps = {}
    /\ IncrProps \subseteq Props
    /\ Default \in [Props -> Int]
    /\ Values \subseteq Int
    /\ Amounts \subseteq Int
    /\ Unset \notin Int
    /\ None \notin Procs
    /\ None \notin [Props -> Int]
    /\ None \notin [Props -> Int \cup {Unset}]
    /\ MaxCalls \in Nat
    /\ MaxHarm \in Nat
    /\ Faults \subseteq Tolerable \cup Harmful

VARIABLES
    db,         \* db[q]: the committed value of q, Unset without a row
    cache,      \* the copy in memcached, or None
    lock,       \* holder of the lock "commit_<fullname>", or None
    pc,         \* pc[p]: where p is
    self,       \* self[p]: p's copy of the thing
    dirties,    \* dirties[p]: properties p assigned and did not commit
    op,         \* op[p]: the _commit or _incr p is in
    tx,         \* tx[p]: what p's open transaction wrote
    committed,  \* committed[q]: sum of the increments of q committed so far
    calls,      \* calls[p]: calls p made, against MaxCalls
    harm,       \* failures of the kinds in Harmful so far, against MaxHarm
    tainted     \* something harmful has happened since the thing was last loaded afresh

vars == <<db, cache, lock, pc, self, dirties, op, tx, committed, calls, harm, tainted>>

Copy == [Props -> Int]
Row == [Props -> Int \cup {Unset}]
PCs == {"idle", "readdata", "fill", "have", "wait", "sync", "write",
        "dbcommit", "setcache", "release", "created"}

CommitOp == [name |-> "commit"]
IncrOp(q, a) == [name |-> "incr", prop |-> q, amt |-> a]
Ops == {CommitOp} \cup {IncrOp(q, a) : q \in IncrProps, a \in Amounts}

NoTx == [props |-> {}, how |-> "none"]
Txs == [props : SUBSET Props, how : {"none", "set", "add"}]

TypeOK ==
    /\ db \in Row \cup {None}
    /\ cache \in Copy \cup {None}
    /\ lock \in Procs \cup {None}
    /\ pc \in [Procs -> PCs]
    /\ self \in [Procs -> Copy]
    /\ dirties \in [Procs -> SUBSET Props]
    /\ op \in [Procs -> Ops]
    /\ tx \in [Procs -> Txs]
    /\ committed \in [IncrProps -> Int]
    /\ calls \in [Procs -> Nat]
    /\ harm \in Nat
    /\ tainted \in BOOLEAN

\* Mutant of Resolve: a missing property stays missing.
ResolveRaw(row) == [q \in Props |-> row[q]]

\* __getattr__: a property without a value in _t has the class default.
Resolve(row) == [q \in Props |-> IF row[q] = Unset THEN Default[q] ELSE row[q]]

\* What a new thing is inserted with: its base properties and the attributes
\* it was constructed with; a data counter is written when it first changes.
NewRow == [q \in Props |-> IF q \in DataProps \cap IncrProps THEN Unset ELSE Default[q]]

Init ==
    /\ db = IF "create" \in Faults THEN None ELSE NewRow
    /\ cache = None
    /\ lock = None
    /\ pc = [p \in Procs |-> "idle"]
    /\ self = [p \in Procs |-> Default]
    /\ dirties = [p \in Procs |-> {}]
    /\ op = [p \in Procs |-> CommitOp]
    /\ tx = [p \in Procs |-> NoTx]
    /\ committed = [q \in IncrProps |-> 0]
    /\ calls = [p \in Procs |-> 0]
    /\ harm = 0
    /\ tainted = FALSE

Goto(p, label) == pc' = [pc EXCEPT ![p] = label]

Call(p) ==
    /\ calls[p] < MaxCalls
    /\ calls' = [calls EXCEPT ![p] = @ + 1]

Harm(kind) ==
    /\ kind \in Faults
    /\ harm < MaxHarm
    /\ harm' = harm + 1

-----------------------------------------------------------------------------
(* _byID                                                                   *)

FetchHit(p) ==
    /\ pc[p] = "idle"
    /\ cache # None
    /\ Call(p)
    /\ self' = [self EXCEPT ![p] = cache]
    /\ Goto(p, "have")
    /\ UNCHANGED <<db, cache, lock, dirties, op, tx, committed, harm>>

\* A miss: get_thing reads the thing row; without one, NotFound is raised.
FetchMiss(p) ==
    /\ pc[p] = "idle"
    /\ cache = None
    /\ db # None
    /\ Call(p)
    /\ self' = [self EXCEPT ![p] =
                  [q \in Props |-> IF q \in BaseProps THEN db[q] ELSE Default[q]]]
    /\ Goto(p, "readdata")
    /\ UNCHANGED <<db, cache, lock, dirties, op, tx, committed, harm>>

\* get_thing_data is a query of its own.
ReadData(p) ==
    /\ pc[p] = "readdata"
    /\ self' = [self EXCEPT ![p] =
                  [q \in Props |-> IF q \in DataProps THEN Resolve(db)[q] ELSE @[q]]]
    /\ Goto(p, "fill")
    /\ UNCHANGED <<db, cache, lock, dirties, op, tx, committed, calls, harm>>

\* Mutant of Fill: set_multi in place of add_multi.
FillSet(p) ==
    /\ pc[p] = "fill"
    /\ cache' = self[p]
    /\ Goto(p, "have")
    /\ UNCHANGED <<db, lock, self, dirties, op, tx, committed, calls, harm>>

\* write_things_to_cache adds the copy unless one is there already.
Fill(p) ==
    /\ pc[p] = "fill"
    /\ cache' = IF cache = None THEN self[p] ELSE cache
    /\ Goto(p, "have")
    /\ UNCHANGED <<db, lock, self, dirties, op, tx, committed, calls, harm>>

\* add_multi raises MemcachedError; only a warning is logged.
FillError(p) ==
    /\ pc[p] = "fill"
    /\ Harm("addfail")
    /\ Goto(p, "have")
    /\ UNCHANGED <<db, cache, lock, self, dirties, op, tx, committed, calls>>

-----------------------------------------------------------------------------
(* What the caller does with its copy                                      *)

SetAttr(p, q, v) ==
    /\ pc[p] = "have"
    /\ self[p][q] # v
    /\ Call(p)
    /\ self' = [self EXCEPT ![p][q] = v]
    /\ dirties' = [dirties EXCEPT ![p] = @ \cup {q}]
    /\ UNCHANGED <<db, cache, lock, pc, op, tx, committed, harm>>

StartCommit(p) ==
    /\ pc[p] = "have"
    /\ Call(p)
    /\ op' = [op EXCEPT ![p] = CommitOp]
    /\ Goto(p, "wait")
    /\ UNCHANGED <<db, cache, lock, self, dirties, tx, committed, harm>>

StartIncr(p, q, a) ==
    /\ pc[p] = "have"
    /\ dirties[p] = {}
    /\ Call(p)
    /\ op' = [op EXCEPT ![p] = IncrOp(q, a)]
    /\ Goto(p, "wait")
    /\ UNCHANGED <<db, cache, lock, self, dirties, tx, committed, harm>>

\* The copy dies with the request, uncommitted changes included.
Forget(p) ==
    /\ self' = [self EXCEPT ![p] = Default]
    /\ dirties' = [dirties EXCEPT ![p] = {}]
    /\ op' = [op EXCEPT ![p] = CommitOp]
    /\ Goto(p, "idle")

EndRequest(p) ==
    /\ pc[p] = "have"
    /\ Forget(p)
    /\ UNCHANGED <<db, cache, lock, tx, committed, calls, harm>>

-----------------------------------------------------------------------------
(* The read-modify-write of _commit and _incr                              *)

Acquire(p) ==
    /\ pc[p] = "wait"
    /\ lock = None
    /\ lock' = p
    /\ Goto(p, "sync")
    /\ UNCHANGED <<db, cache, self, dirties, op, tx, committed, calls, harm>>

TimeoutExpired(p) ==
    /\ "timeout" \in Faults
    /\ pc[p] = "wait"
    /\ lock # None
    /\ Goto(p, "have")
    /\ UNCHANGED <<db, cache, lock, self, dirties, op, tx, committed, calls, harm>>

\* _commit goes on if something is dirty, _incr adds the amount in memory.
AfterSync(p, copy, dirty) ==
    /\ dirties' = [dirties EXCEPT ![p] = dirty]
    /\ IF op[p].name = "commit"
       THEN /\ self' = [self EXCEPT ![p] = copy]
            /\ Goto(p, IF dirty = {} THEN "release" ELSE "write")
       ELSE /\ self' = [self EXCEPT ![p] =
                          [copy EXCEPT ![op[p].prop] = @ + op[p].amt]]
            /\ Goto(p, "write")
    /\ UNCHANGED <<db, cache, lock, op, tx, committed, calls, harm>>

\* Mutant of SyncHit: go on with the copy loaded before the lock was taken.
SyncHitStale(p) ==
    /\ pc[p] = "sync"
    /\ cache # None
    /\ AfterSync(p, self[p], dirties[p])

\* update_from_cache finds a copy: take it over and apply own changes again.
SyncHit(p) ==
    /\ pc[p] = "sync"
    /\ cache # None
    /\ AfterSync(p,
           [q \in Props |-> IF q \in dirties[p] THEN self[p][q] ELSE cache[q]],
           {q \in dirties[p] : self[p][q] # cache[q]})

\* update_from_cache finds no copy and returns: own copy stays as it was read.
SyncMiss(p) ==
    /\ pc[p] = "sync"
    /\ cache = None
    /\ AfterSync(p, self[p], dirties[p])

\* Rows an update locks until its transaction ends.
RowsOf(props) == {IF q \in BaseProps THEN "thing" ELSE q : q \in props}

Write(p, props, how) ==
    /\ \A o \in Procs \ {p} : RowsOf(tx[o].props) \cap RowsOf(props) = {}
    /\ tx' = [tx EXCEPT ![p] = [props |-> props, how |-> how]]

\* write_changes_to_db and _dirties.clear() inside the transaction.
WriteChanges(p) ==
    /\ pc[p] = "write"
    /\ op[p].name = "commit"
    /\ Write(p, dirties[p], "set")
    /\ dirties' = [dirties EXCEPT ![p] = {}]
    /\ Goto(p, "dbcommit")
    /\ UNCHANGED <<db, cache, lock, self, op, committed, calls, harm>>

\* Mutants of IncrHow: postgres never, or always, increments.
IncrHowSet(q, old) == "set"
IncrHowAdd(q, old) == "add"

\* Base properties are incremented by postgres; so are data properties, except
\* that one whose old value was the default is written as a new value.
IncrHow(q, old) == IF q \in DataProps /\ old = Default[q] THEN "set" ELSE "add"

WriteIncr(p) ==
    /\ pc[p] = "write"
    /\ op[p].name = "incr"
    /\ Write(p, {op[p].prop}, IncrHow(op[p].prop, self[p][op[p].prop] - op[p].amt))
    /\ Goto(p, "setcache")
    /\ UNCHANGED <<db, cache, lock, self, dirties, op, committed, calls, harm>>

\* The transaction's effect on the rows; updating a missing row does nothing.
Applied(row, props, how, copy, amt) ==
    [q \in Props |->
        CASE q \notin props -> row[q]
          [] q \in props /\ how = "set" -> copy[q]
          [] OTHER -> IF row[q] = Unset THEN Unset ELSE row[q] + amt]

Amt(o) == IF o.name = "incr" THEN o.amt ELSE 0

\* engine.commit() at the end of the transaction context.
DbCommit(p) ==
    /\ pc[p] = "dbcommit"
    /\ db' = Applied(db, tx[p].props, tx[p].how, self[p], Amt(op[p]))
    /\ tx' = [tx EXCEPT ![p] = NoTx]
    /\ committed' = IF op[p].name = "incr"
                    THEN [committed EXCEPT ![op[p].prop] = @ + op[p].amt]
                    ELSE committed
    /\ Goto(p, IF op[p].name = "commit" THEN "setcache" ELSE "release")
    /\ UNCHANGED <<cache, lock, self, dirties, op, calls, harm>>

\* write_thing_to_cache: after the transaction in _commit, inside it in _incr.
SetCache(p) ==
    /\ pc[p] = "setcache"
    /\ cache' = self[p]
    /\ Goto(p, IF op[p].name = "commit" THEN "release" ELSE "dbcommit")
    /\ UNCHANGED <<db, lock, self, dirties, op, tx, committed, calls, harm>>

Release(p) ==
    /\ pc[p] = "release"
    /\ lock' = IF lock = p THEN None ELSE lock
    /\ Goto(p, "have")
    /\ UNCHANGED <<db, cache, self, dirties, op, tx, committed, calls, harm>>

-----------------------------------------------------------------------------
(* Failures of those steps: an exception rolls back and leaves the block   *)

Raise(p) ==
    /\ tx' = [tx EXCEPT ![p] = NoTx]
    /\ Goto(p, "release")
    /\ UNCHANGED <<db, lock, self, dirties, op, committed, calls>>

WriteError(p) ==
    /\ "rollback" \in Faults
    /\ pc[p] = "write"
    /\ Raise(p)
    /\ UNCHANGED <<cache, harm>>

\* In _commit the changes are no longer dirty then, but not in postgres.
DbCommitError(p) ==
    /\ pc[p] = "dbcommit"
    /\ \/ op[p].name = "commit" /\ "rollback" \in Faults /\ UNCHANGED harm
       \/ op[p].name = "incr" /\ Harm("incrcommit")
    /\ Raise(p)
    /\ UNCHANGED cache

\* set() raises, whether or not memcached executed it.
SetCacheError(p) ==
    /\ pc[p] = "setcache"
    /\ Harm("cachefail")
    /\ cache' \in {cache, self[p]}
    /\ Raise(p)

-----------------------------------------------------------------------------
(* _commit of a new thing: no lock                                         *)

Create(p) ==
    /\ pc[p] = "idle"
    /\ db = None
    /\ db' = NewRow
    /\ self' = [self EXCEPT ![p] = Resolve(NewRow)]
    /\ Goto(p, "created")
    /\ UNCHANGED <<cache, lock, dirties, op, tx, committed, calls, harm>>

CreateSetCache(p) ==
    /\ pc[p] = "created"
    /\ cache' = self[p]
    /\ Goto(p, "have")
    /\ UNCHANGED <<db, lock, self, dirties, op, tx, committed, calls, harm>>

-----------------------------------------------------------------------------
(* The environment                                                         *)

\* p is between the two writes, to postgres and to memcached.
InWindow(p) ==
    \/ pc[p] = "setcache" /\ op[p].name = "commit"
    \/ pc[p] = "dbcommit" /\ op[p].name = "incr"
    \/ pc[p] = "created"

InLock(p) == pc[p] \in {"sync", "write", "dbcommit", "setcache", "release"}

\* The process dies; postgres rolls back, memcached keeps the lock's entry.
Crash(p) ==
    /\ pc[p] # "idle"
    /\ \/ ~InWindow(p) /\ "crash" \in Faults /\ UNCHANGED harm
       \/ InWindow(p) /\ Harm("windowcrash")
    /\ Forget(p)
    /\ tx' = [tx EXCEPT ![p] = NoTx]
    /\ UNCHANGED <<db, cache, lock, committed, calls>>

\* The lock's entry expires: under a dead holder, or under one still at work.
LockExpires ==
    /\ lock # None
    /\ \/ ~InLock(lock) /\ "orphan" \in Faults /\ UNCHANGED harm
       \/ InLock(lock) /\ Harm("expire")
    /\ lock' = None
    /\ UNCHANGED <<db, cache, pc, self, dirties, op, tx, committed, calls>>

\* The cached copy reaches its TTL or is evicted: at any time, or only while no
\* process has a copy of the thing.
Evict ==
    /\ cache # None
    /\ \/ "evict" \in Faults
       \/ "quiet" \in Faults /\ \A p \in Procs : pc[p] = "idle"
    /\ cache' = None
    /\ UNCHANGED <<db, lock, pc, self, dirties, op, tx, committed, calls, harm>>

\* The steps p takes once it has asked for something.
Proceed(p) ==
    \/ ReadData(p) \/ Fill(p) \/ FillError(p)
    \/ Acquire(p) \/ TimeoutExpired(p)
    \/ SyncHit(p) \/ SyncMiss(p)
    \/ WriteChanges(p) \/ WriteIncr(p) \/ WriteError(p)
    \/ DbCommit(p) \/ DbCommitError(p)
    \/ SetCache(p) \/ SetCacheError(p)
    \/ Release(p)
    \/ CreateSetCache(p)
    \/ EndRequest(p)

Step ==
    \/ \E p \in Procs :
         \/ FetchHit(p) \/ FetchMiss(p)
         \/ \E q \in Props \ IncrProps, v \in Values : SetAttr(p, q, v)
         \/ StartCommit(p)
         \/ \E q \in IncrProps, a \in Amounts : StartIncr(p, q, a)
         \/ Create(p)
         \/ Proceed(p)
         \/ Crash(p)
    \/ LockExpires
    \/ Evict

\* Nobody has a copy of the thing and none is cached: it will be read afresh.
Afresh == cache = None /\ \A p \in Procs : pc[p] = "idle"

\* A failure of one of the kinds in Harmful, the copy evicted under a process
\* that works on the thing, the unlocked write of a new thing.
Harmed ==
    \/ harm' # harm
    \/ cache # None /\ cache' = None /\ \E p \in Procs : pc[p] # "idle"
    \/ db = None /\ db' # None

Next ==
    /\ Step
    /\ tainted' = (Harmed \/ (tainted /\ ~Afresh))

Spec == Init /\ [][Next]_vars

-----------------------------------------------------------------------------
(* Properties                                                              *)

Coherent == cache # None => db # None /\ cache = Resolve(db)

(***************************************************************************)
(* thing.py:283 "we want to keep a perfectly consistent copy of the thing  *)
(* in cache": outside the window between a process's two writes, what is   *)
(* cached is what postgres holds.                                          *)
(***************************************************************************)
CacheCoherent == (\A p \in Procs : ~InWindow(p)) => Coherent

(***************************************************************************)
(* No increment is lost or applied twice, whichever of the three ways _incr *)
(* chose to write it: postgres holds the sum of the committed amounts.     *)
(***************************************************************************)
CountersExact ==
    \A q \in IncrProps : Resolve(db)[q] = Default[q] + committed[q]

(***************************************************************************)
(* Base properties are incremented by postgres itself, so their counts are *)
(* exact whatever fails around them.                                       *)
(***************************************************************************)
BaseCountersExact ==
    db # None =>
      \A q \in IncrProps \cap BaseProps : db[q] = Default[q] + committed[q]

(***************************************************************************)
(* thing.py:295 "Write to cache fails ... To ensure we recover quickly     *)
(* TTLs should be set as low as possible": the recovery that comment       *)
(* counts on.  Whatever went wrong before, once the copy has left memcached *)
(* while no process had one of its own, what is cached is what postgres    *)
(* holds again, for all that _byID, _commit and _incr of several processes *)
(* then do, until the next harmful failure.                                *)
(***************************************************************************)
CoherentAfresh == ~tainted => CacheCoherent

=============================================================================
