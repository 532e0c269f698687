-------------------------- MODULE ThingCommitProofs --------------------------
(***************************************************************************)
(* For any processes, properties and calls: the types of ThingCommit under *)
(* every failure, the coherence of cache and postgres and the exactness of *)
(* the counters under the failures the code tolerates, and the coherence   *)
(* that returns after any other.                                           *)
(***************************************************************************)
EXTENDS ThingCommit, TLAPS

-----------------------------------------------------------------------------
(* Operations and copies                                                   *)

(***************************************************************************)
(* An operation that is not _commit is an _incr of a counter.              *)
(***************************************************************************)
LEMMA OpType ==
    ASSUME NEW o \in Ops
    PROVE  /\ o.name \in {"commit", "incr"}
           /\ o.name = "incr" => o.prop \in IncrProps /\ o.amt \in Int
           /\ Amt(o) \in Int
  <1>1. CASE o = CommitOp
    BY <1>1 DEF CommitOp, Amt
  <1>2. ASSUME NEW q \in IncrProps, NEW a \in Amounts, o = IncrOp(q, a)
        PROVE  o.name = "incr" /\ o.prop \in IncrProps /\ o.amt \in Int /\ Amt(o) \in Int
    BY <1>2, ThingAssumption DEF IncrOp, Amt
  <1>3. o = CommitOp \/ \E q \in IncrProps, a \in Amounts : o = IncrOp(q, a)
    BY DEF Ops
  <1>4. QED
    BY <1>1, <1>2, <1>3

(***************************************************************************)
(* The copy made of a row has a value for every property.                  *)
(***************************************************************************)
LEMMA ResolveType ==
    ASSUME NEW row \in Row PROVE Resolve(row) \in Copy
  BY ThingAssumption DEF Row, Copy, Resolve

(***************************************************************************)
(* A committed transaction leaves rows, and the base properties set.       *)
(***************************************************************************)
LEMMA AppliedType ==
    ASSUME NEW row \in Row, NEW props \in SUBSET Props, NEW how,
           NEW copy \in Copy, NEW amt \in Int
    PROVE  /\ Applied(row, props, how, copy, amt) \in Row
           /\ \A q \in Props : row[q] # Unset =>
                Applied(row, props, how, copy, amt)[q] # Unset
  BY ThingAssumption DEF Row, Copy, Applied

-----------------------------------------------------------------------------
(* Type correctness                                                        *)

\* No process and no cached copy precedes the row; base properties have values.
RowFirst ==
    /\ db = None => cache = None /\ \A p \in Procs : pc[p] = "idle"
    /\ db # None => \A q \in BaseProps : db[q] # Unset

TypeInv == TypeOK /\ RowFirst

(***************************************************************************)
(* Every step keeps the variables typed, whatever fails.                   *)
(***************************************************************************)
LEMMA TypeStep == TypeInv /\ [Next]_vars => TypeInv'
  <1> SUFFICES ASSUME TypeInv, [Next]_vars
               PROVE  TypeInv'
    OBVIOUS
  <1>0. tainted' \in BOOLEAN
    <2>1. tainted' = (Harmed \/ (tainted /\ ~Afresh)) \/ tainted' = tainted
      BY DEF Next, vars
    <2>2. QED
      BY <2>1, Zenon DEF TypeInv, TypeOK
  <1> USE ThingAssumption, <1>0 DEF TypeInv, TypeOK, RowFirst, PCs, Goto
  <1>1. ASSUME NEW p \in Procs, FetchHit(p)
        PROVE  TypeInv'
    BY <1>1 DEF FetchHit, Call
  <1>2. ASSUME NEW p \in Procs, FetchMiss(p)
        PROVE  TypeInv'
    <2>1. [q \in Props |-> IF q \in BaseProps THEN db[q] ELSE Default[q]] \in Copy
      BY <1>2 DEF FetchMiss, Copy, Row, Props
    <2>2. QED
      BY <1>2, <2>1 DEF FetchMiss, Call
  <1>3. ASSUME NEW p \in Procs, ReadData(p)
        PROVE  TypeInv'
    <2>1. db \in Row
      BY <1>3 DEF ReadData
    <2>2. [q \in Props |-> IF q \in DataProps THEN Resolve(db)[q] ELSE self[p][q]] \in Copy
      BY <2>1, ResolveType DEF Copy
    <2>3. QED
      BY <1>3, <2>2 DEF ReadData
  <1>4. ASSUME NEW p \in Procs, Fill(p) \/ FillError(p)
        PROVE  TypeInv'
    BY <1>4 DEF Fill, FillError, Harm
  <1>5. ASSUME NEW p \in Procs, NEW q \in Props \ IncrProps, NEW v \in Values,
               SetAttr(p, q, v)
        PROVE  TypeInv'
    <2>1. [self[p] EXCEPT ![q] = v] \in Copy
      BY <1>5 DEF Copy
    <2>2. self' = [self EXCEPT ![p] = [self[p] EXCEPT ![q] = v]]
      BY <1>5 DEF SetAttr
    <2>3. QED
      BY <1>5, <2>1, <2>2 DEF SetAttr, Call
  <1>6. ASSUME NEW p \in Procs, StartCommit(p)
        PROVE  TypeInv'
    BY <1>6 DEF StartCommit, Call, Ops
  <1>7. ASSUME NEW p \in Procs, NEW q \in IncrProps, NEW a \in Amounts,
               StartIncr(p, q, a)
        PROVE  TypeInv'
    BY <1>7 DEF StartIncr, Call, Ops
  <1>8. ASSUME NEW p \in Procs, Forget(p)
        PROVE  /\ self' \in [Procs -> Copy]
               /\ dirties' \in [Procs -> SUBSET Props]
               /\ op' \in [Procs -> Ops]
               /\ pc' = [pc EXCEPT ![p] = "idle"]
    BY <1>8 DEF Forget, Copy, Ops
  <1>9. ASSUME NEW p \in Procs, EndRequest(p)
        PROVE  TypeInv'
    BY <1>8, <1>9 DEF EndRequest
  <1>10. ASSUME NEW p \in Procs, Acquire(p) \/ TimeoutExpired(p) \/ Release(p)
         PROVE  TypeInv'
    BY <1>10 DEF Acquire, TimeoutExpired, Release
  <1>11. ASSUME NEW p \in Procs, NEW copy \in Copy, NEW dirty \in SUBSET Props,
                pc[p] = "sync", AfterSync(p, copy, dirty)
         PROVE  TypeInv'
    <2>1. op[p].name = "commit" \/ (op[p].prop \in IncrProps /\ op[p].amt \in Int)
      BY OpType
    <2>2. \E new \in Copy : self' = [self EXCEPT ![p] = new]
      <3>1. CASE op[p].name = "commit"
        BY <1>11, <3>1 DEF AfterSync
      <3>2. CASE op[p].name # "commit"
        <4>1. [copy EXCEPT ![op[p].prop] = @ + op[p].amt] \in Copy
          BY <1>11, <2>1, <3>2 DEF Copy
        <4>2. QED
          BY <1>11, <3>2, <4>1 DEF AfterSync
      <3>3. QED
        BY <3>1, <3>2
    <2>3. QED
      BY <1>11, <2>2 DEF AfterSync
  <1>12. ASSUME NEW p \in Procs, SyncHit(p) \/ SyncMiss(p)
         PROVE  TypeInv'
    <2>1. CASE SyncHit(p)
      <3>1. cache \in Copy
        BY <2>1 DEF SyncHit
      <3>2. [q \in Props |-> IF q \in dirties[p] THEN self[p][q] ELSE cache[q]] \in Copy
        BY <3>1 DEF Copy
      <3>3. {q \in dirties[p] : self[p][q] # cache[q]} \in SUBSET Props
        OBVIOUS
      <3>4. QED
        BY <1>11, <2>1, <3>2, <3>3 DEF SyncHit
    <2>2. CASE SyncMiss(p)
      BY <1>11, <2>2 DEF SyncMiss
    <2>3. QED
      BY <1>12, <2>1, <2>2
  <1>13. ASSUME NEW p \in Procs, WriteChanges(p) \/ WriteIncr(p)
         PROVE  TypeInv'
    <2>1. CASE WriteChanges(p)
      BY <2>1 DEF WriteChanges, Write, Txs
    <2>2. CASE WriteIncr(p)
      <3>1. op[p].prop \in Props
        BY <2>2, OpType DEF WriteIncr
      <3>2. tx' \in [Procs -> Txs]
        BY <2>2, <3>1 DEF WriteIncr, Write, IncrHow, Txs
      <3>3. QED
        BY <2>2, <3>2 DEF WriteIncr
    <2>3. QED
      BY <1>13, <2>1, <2>2
  <1>14. ASSUME NEW p \in Procs, DbCommit(p)
         PROVE  TypeInv'
    <2>1. db \in Row /\ tx[p].props \in SUBSET Props /\ Amt(op[p]) \in Int
      BY <1>14, OpType DEF DbCommit, Txs
    <2>2. db' \in Row /\ \A q \in BaseProps : db'[q] # Unset
      BY <1>14, <2>1, AppliedType DEF DbCommit, Props
    <2>3. tx' \in [Procs -> Txs]
      BY <1>14 DEF DbCommit, NoTx, Txs
    <2>4. committed' \in [IncrProps -> Int]
      BY <1>14, OpType DEF DbCommit
    <2>5. QED
      BY <1>14, <2>2, <2>3, <2>4 DEF DbCommit, Row
  <1>15. ASSUME NEW p \in Procs, SetCache(p)
         PROVE  TypeInv'
    BY <1>15 DEF SetCache
  <1>16. ASSUME NEW p \in Procs,
                WriteError(p) \/ DbCommitError(p) \/ SetCacheError(p)
         PROVE  TypeInv'
    <2>1. Raise(p) /\ harm' \in Nat /\ cache' \in Copy \cup {None}
          /\ pc[p] \in {"write", "dbcommit", "setcache"}
      BY <1>16 DEF WriteError, DbCommitError, SetCacheError, Harm
    <2>2. tx' \in [Procs -> Txs]
      BY <2>1 DEF Raise, NoTx, Txs
    <2>3. QED
      BY <2>1, <2>2 DEF Raise
  <1>17. ASSUME NEW p \in Procs, Create(p)
         PROVE  TypeInv'
    <2>1. NewRow \in Row /\ \A q \in BaseProps : NewRow[q] # Unset
      BY DEF NewRow, Row, Props
    <2>2. Resolve(NewRow) \in Copy
      BY <2>1, ResolveType
    <2>3. QED
      BY <1>17, <2>1, <2>2 DEF Create, Row
  <1>18. ASSUME NEW p \in Procs, CreateSetCache(p)
         PROVE  TypeInv'
    BY <1>18 DEF CreateSetCache
  <1>19. ASSUME NEW p \in Procs, Crash(p)
         PROVE  TypeInv'
    <2>1. tx' \in [Procs -> Txs] /\ harm' \in Nat
      BY <1>19 DEF Crash, Harm, NoTx, Txs
    <2>2. QED
      BY <1>8, <1>19, <2>1 DEF Crash
  <1>20. CASE LockExpires \/ Evict
    BY <1>20 DEF LockExpires, Evict, Harm
  <1>21. CASE UNCHANGED vars
    BY <1>21 DEF vars
  <1>22. Step \/ UNCHANGED vars
    BY DEF Next
  <1>23. QED
    BY <1>22, <1>1, <1>2, <1>3, <1>4, <1>5, <1>6, <1>7, <1>9, <1>10, <1>12, <1>13,
       <1>14, <1>15, <1>16, <1>17, <1>18, <1>19, <1>20, <1>21
    DEF Step, Proceed

(***************************************************************************)
(* The type invariant of the thing layer holds under every failure.        *)
(***************************************************************************)
THEOREM TypeCorrect == Spec => []TypeOK
  <1>1. Init => TypeInv
    <2>1. NewRow \in Row /\ \A q \in BaseProps : NewRow[q] # Unset
      BY ThingAssumption DEF NewRow, Row, Props
    <2>2. Init => tainted \in BOOLEAN
      BY Zenon DEF Init
    <2>3. QED
      BY <2>1, <2>2, ThingAssumption
      DEF Init, TypeInv, TypeOK, RowFirst, PCs, Ops, Txs, NoTx, Copy, Row
  <1>2. TypeInv => TypeOK
    BY DEF TypeInv
  <1>3. QED
    BY <1>1, <1>2, TypeStep, PTL DEF Spec

-----------------------------------------------------------------------------
(* Coherence of cache and postgres, exactness of the counters              *)

\* Only failures the code is written to survive.
Clean == Faults \subseteq Tolerable

\* Whoever is inside the read-modify-write block holds the lock.
LockHeld == \A p \in Procs : InLock(p) => lock = p

\* While nothing is cached nobody has a copy, and what has been read so far is
\* what postgres holds: nothing can be committed from an older copy.
MissIsFresh ==
    cache = None =>
      \A p \in Procs :
        /\ pc[p] \in {"idle", "readdata", "fill"}
        /\ pc[p] = "readdata" => \A q \in BaseProps : self[p][q] = db[q]
        /\ pc[p] = "fill" => self[p] = Resolve(db)

\* The copy of a process in _incr: what postgres holds, and the amount.
Plus(copy, c, amt) == [copy EXCEPT ![c] = @ + amt]
Bumped(p) == Plus(Resolve(db), op[p].prop, op[p].amt)

\* What a process inside the block knows, step by step.
CommitPhase(p) ==
    op[p].name = "commit" =>
      /\ pc[p] = "write" =>
            \A q \in Props \ dirties[p] : self[p][q] = Resolve(db)[q]
      /\ pc[p] = "dbcommit" =>
            /\ tx[p].how = "set"
            /\ tx[p].props \cap IncrProps = {}
            /\ \A q \in Props \ tx[p].props : self[p][q] = Resolve(db)[q]
      /\ pc[p] = "setcache" => self[p] = Resolve(db)

IncrPhase(p) ==
    op[p].name = "incr" =>
      /\ pc[p] \in {"wait", "sync"} => dirties[p] = {}
      /\ pc[p] \in {"write", "setcache", "dbcommit"} => self[p] = Bumped(p)
      /\ pc[p] \in {"setcache", "dbcommit"} =>
            /\ tx[p].props = {op[p].prop}
            /\ tx[p].how \in {"set", "add"}
            /\ tx[p].how = "add" => db[op[p].prop] # Unset
      /\ pc[p] = "dbcommit" => cache = self[p]

Phases ==
    \A p \in Procs :
        /\ pc[p] # "created"
        /\ dirties[p] \cap IncrProps = {}
        /\ CommitPhase(p)
        /\ IncrPhase(p)

ThingInv ==
    /\ TypeInv
    /\ db # None
    /\ LockHeld
    /\ MissIsFresh
    /\ CacheCoherent
    /\ Phases

\* A step leaves the counters exact if they are.
CountersKept == CountersExact => CountersExact'

\* A step of another process leaves o's own state alone.
Same(o) ==
    /\ pc'[o] = pc[o]
    /\ self'[o] = self[o]
    /\ dirties'[o] = dirties[o]
    /\ op'[o] = op[o]
    /\ tx'[o] = tx[o]

PhaseOf(p) ==
    /\ pc[p] # "created"
    /\ dirties[p] \cap IncrProps = {}
    /\ CommitPhase(p)
    /\ IncrPhase(p)

(***************************************************************************)
(* What a process knows survives the steps of others that write neither to *)
(* postgres nor to memcached, and every step while it is outside the block.*)
(***************************************************************************)
LEMMA OthersKeep ==
    ASSUME NEW o \in Procs, PhaseOf(o), Same(o),
           (db' = db /\ cache' = cache) \/ ~InLock(o)
    PROVE  PhaseOf(o)' /\ (InWindow(o)' <=> InWindow(o)) /\ (InLock(o)' <=> InLock(o))
  <1>1. InWindow(o)' <=> InWindow(o)
    BY DEF Same, InWindow
  <1>2. InLock(o)' <=> InLock(o)
    BY DEF Same, InLock
  <1>3. CASE db' = db /\ cache' = cache
    <2>1. CommitPhase(o)'
      BY <1>3 DEF Same, PhaseOf, CommitPhase, Resolve
    <2>2. IncrPhase(o)'
      BY <1>3 DEF Same, PhaseOf, IncrPhase, Bumped, Resolve
    <2>3. QED
      BY <1>1, <1>2, <2>1, <2>2 DEF Same, PhaseOf
  <1>4. CASE ~InLock(o)
    <2>1. pc[o] \notin {"sync", "write", "setcache", "dbcommit"}
      BY <1>4 DEF InLock
    <2>2. CommitPhase(o)' /\ IncrPhase(o)'
      BY <2>1 DEF Same, PhaseOf, CommitPhase, IncrPhase
    <2>3. QED
      BY <1>1, <1>2, <2>2 DEF Same, PhaseOf
  <1>5. QED
    BY <1>3, <1>4

(***************************************************************************)
(* The holder of the lock is alone in the block and finds in memcached     *)
(* what postgres holds, unless it is between its own two writes.           *)
(***************************************************************************)
LEMMA HolderSees ==
    ASSUME ThingInv, NEW p \in Procs, InLock(p)
    PROVE  /\ cache # None
           /\ \A o \in Procs \ {p} : ~InLock(o) /\ ~InWindow(o)
           /\ ~InWindow(p) => cache = Resolve(db)
  <1>1. cache # None
    BY DEF ThingInv, MissIsFresh, InLock
  <1>2. \A o \in Procs \ {p} : ~InLock(o)
    BY DEF ThingInv, LockHeld
  <1>3. \A o \in Procs \ {p} : ~InWindow(o)
    BY <1>2 DEF ThingInv, Phases, InLock, InWindow
  <1>4. QED
    BY <1>1, <1>2, <1>3 DEF ThingInv, CacheCoherent, Coherent

Outside == {"idle", "readdata", "fill", "have", "wait"}

(***************************************************************************)
(* Steps outside the block that change neither store: loading, assigning,  *)
(* asking for the lock, giving up, ending the request.                     *)
(***************************************************************************)
LEMMA LocalStep ==
    ASSUME ThingInv, NEW p \in Procs,
           \A o \in Procs \ {p} : Same(o),
           UNCHANGED <<db, cache, lock, committed>>,
           ~InLock(p), pc'[p] \in Outside,
           dirties'[p] \cap IncrProps = {},
           pc'[p] = "wait" /\ op'[p].name = "incr" => dirties'[p] = {},
           cache = None =>
             /\ pc'[p] \in {"idle", "readdata", "fill"}
             /\ pc'[p] = "readdata" => \A q \in BaseProps : self'[p][q] = db[q]
             /\ pc'[p] = "fill" => self'[p] = Resolve(db)
    PROVE  LockHeld' /\ MissIsFresh' /\ CacheCoherent' /\ Phases' /\ CountersKept
  <1>1. \A o \in Procs : PhaseOf(o)
    BY DEF ThingInv, Phases, PhaseOf
  <1>2. \A o \in Procs \ {p} :
          PhaseOf(o)' /\ (InWindow(o)' <=> InWindow(o)) /\ (InLock(o)' <=> InLock(o))
    BY <1>1, OthersKeep
  <1>3. PhaseOf(p)' /\ ~InWindow(p)' /\ ~InLock(p)'
    BY DEF Outside, PhaseOf, CommitPhase, IncrPhase, InWindow, InLock
  <1>4. ~InWindow(p)
    BY <1>1 DEF PhaseOf, InWindow, InLock
  <1>5. Phases'
    BY <1>2, <1>3 DEF Phases, PhaseOf
  <1>6. LockHeld'
    BY <1>2, <1>3 DEF ThingInv, LockHeld
  <1>7. CacheCoherent'
    BY <1>2, <1>3, <1>4 DEF ThingInv, CacheCoherent, Coherent, Resolve
  <1>8. CountersKept
    BY DEF CountersKept, CountersExact, Resolve
  <1>9. MissIsFresh'
    BY DEF ThingInv, MissIsFresh, Same, Resolve
  <1>10. QED
    BY <1>5, <1>6, <1>7, <1>8, <1>9

(***************************************************************************)
(* Steps inside the block that change neither store: what has to be shown  *)
(* is what the process itself knows after them.                            *)
(***************************************************************************)
LEMMA BlockStep ==
    ASSUME ThingInv, NEW p \in Procs,
           \A o \in Procs \ {p} : Same(o),
           UNCHANGED <<db, cache, lock, committed>>,
           InLock(p), ~InWindow(p), InLock(p)', ~InWindow(p)', PhaseOf(p)'
    PROVE  LockHeld' /\ MissIsFresh' /\ CacheCoherent' /\ Phases' /\ CountersKept
  <1>1. cache # None /\ cache = Resolve(db)
    BY HolderSees
  <1>2. \A o \in Procs : PhaseOf(o)
    BY DEF ThingInv, Phases, PhaseOf
  <1>3. \A o \in Procs \ {p} :
          PhaseOf(o)' /\ (InWindow(o)' <=> InWindow(o)) /\ (InLock(o)' <=> InLock(o))
    BY <1>2, OthersKeep
  <1>4. Phases'
    BY <1>3 DEF Phases, PhaseOf
  <1>5. LockHeld'
    BY <1>3 DEF ThingInv, LockHeld
  <1>6. CacheCoherent' /\ MissIsFresh'
    BY <1>1 DEF ThingInv, CacheCoherent, Coherent, MissIsFresh, Resolve
  <1>7. CountersKept
    BY DEF CountersKept, CountersExact, Resolve
  <1>8. QED
    BY <1>4, <1>5, <1>6, <1>7

(***************************************************************************)
(* After a commit of assigned properties postgres holds the process's copy.*)
(***************************************************************************)
LEMMA CommitApplies ==
    ASSUME NEW row \in Row, NEW copy \in Copy, NEW props \in SUBSET Props,
           \A q \in Props \ props : copy[q] = Resolve(row)[q]
    PROVE  Resolve(Applied(row, props, "set", copy, 0)) = copy
  <1> DEFINE new == Applied(row, props, "set", copy, 0)
  <1>1. \A q \in Props : Resolve(new)[q] = copy[q]
    BY ThingAssumption DEF Applied, Resolve, Row, Copy
  <1>2. QED
    BY <1>1 DEF Resolve, Copy

(***************************************************************************)
(* So it does after an increment, provided a property that postgres itself *)
(* increments has a row.                                                   *)
(***************************************************************************)
LEMMA IncrApplies ==
    ASSUME NEW row \in Row, NEW copy \in Copy, NEW c \in Props, NEW amt \in Int,
           NEW how \in {"set", "add"}, how = "add" => row[c] # Unset,
           copy = Plus(Resolve(row), c, amt)
    PROVE  Resolve(Applied(row, {c}, how, copy, amt)) = copy
  <1> DEFINE new == Applied(row, {c}, how, copy, amt)
  <1>1. \A q \in Props \ {c} : Resolve(new)[q] = copy[q]
    BY ThingAssumption DEF Plus, Applied, Resolve, Row, Copy
  <1>2. copy[c] = Resolve(row)[c] + amt /\ copy[c] \in Int
    BY ThingAssumption DEF Plus, Resolve, Row, Copy
  <1>3. new[c] = IF how = "set" THEN copy[c] ELSE row[c] + amt
    BY ThingAssumption DEF Applied
  <1>4. Resolve(new)[c] = copy[c]
    BY <1>2, <1>3, ThingAssumption DEF Resolve, Row
  <1>5. QED
    BY <1>1, <1>4 DEF Resolve, Copy

(***************************************************************************)
(* Every step but a harmful failure preserves the invariant, and the       *)
(* counters.                                                               *)
(***************************************************************************)
LEMMA ThingStep ==
    ThingInv /\ [Next]_vars /\ ~Harmed => ThingInv' /\ CountersKept
  <1> SUFFICES ASSUME ThingInv, [Next]_vars, ~Harmed
               PROVE  ThingInv' /\ CountersKept
    OBVIOUS
  <1> DEFINE Goal == LockHeld' /\ MissIsFresh' /\ CacheCoherent' /\ Phases' /\ CountersKept
  <1>0. TypeInv /\ TypeInv' /\ TypeOK
    BY TypeStep DEF ThingInv, TypeInv
  <1>a. db \in Row
    BY <1>0 DEF ThingInv, TypeOK
  <1>c. ASSUME NEW kind, Harm(kind)
        PROVE  FALSE
    BY <1>0, <1>c DEF Harm, Harmed, TypeOK
  <1>b. \A p \in Procs : PhaseOf(p)
    BY DEF ThingInv, Phases, PhaseOf
  <1>1. ASSUME NEW p \in Procs, FetchHit(p)
        PROVE  Goal
    BY <1>0, <1>1, <1>b, LocalStep
    DEF FetchHit, Goto, Same, TypeOK, InLock, Outside, PhaseOf
  <1>2. ASSUME NEW p \in Procs, FetchMiss(p)
        PROVE  Goal
    <2>1. \A q \in BaseProps : self'[p][q] = db[q]
      BY <1>0, <1>2 DEF FetchMiss, TypeOK, Props
    <2>2. QED
      BY <1>0, <1>2, <1>b, <2>1, LocalStep
      DEF FetchMiss, Goto, Same, TypeOK, InLock, Outside, PhaseOf
  <1>3. ASSUME NEW p \in Procs, ReadData(p)
        PROVE  Goal
    <2>1. cache = None => \A q \in BaseProps : self[p][q] = db[q]
      BY <1>3 DEF ReadData, ThingInv, MissIsFresh
    <2>2. \A q \in BaseProps : db[q] = Resolve(db)[q]
      BY <1>0 DEF TypeInv, RowFirst, ThingInv, Resolve, Props
    <2>3. self'[p] = [q \in Props |-> IF q \in DataProps THEN Resolve(db)[q] ELSE self[p][q]]
      BY <1>0, <1>3 DEF ReadData, TypeOK
    <2>4. cache = None => \A q \in Props : self'[p][q] = Resolve(db)[q]
      BY <2>1, <2>2, <2>3 DEF Props
    <2>5. cache = None => self'[p] = Resolve(db)
      BY <2>3, <2>4 DEF Resolve
    <2>6. QED
      BY <1>0, <1>3, <1>b, <2>5, LocalStep
      DEF ReadData, Goto, Same, TypeOK, InLock, Outside, PhaseOf
  <1>4. ASSUME NEW p \in Procs, Fill(p)
        PROVE  Goal
    <2>1. pc[p] = "fill" /\ pc'[p] = "have" /\ \A o \in Procs \ {p} : Same(o)
      BY <1>0, <1>4 DEF Fill, Goto, Same, TypeOK
    <2>2. CASE cache # None
      BY <1>0, <1>4, <1>b, <2>1, <2>2, LocalStep
      DEF Fill, TypeOK, InLock, Outside, PhaseOf
    <2>3. CASE cache = None
      <3>1. cache' = Resolve(db) /\ cache' # None
        BY <1>0, <1>4, <1>a, <2>1, <2>3, ResolveType, ThingAssumption
        DEF Fill, ThingInv, MissIsFresh, Copy
      <3>2. \A o \in Procs : ~InLock(o)
        BY <2>3 DEF ThingInv, MissIsFresh, InLock
      <3>3. \A o \in Procs \ {p} : PhaseOf(o)' /\ (InLock(o)' <=> InLock(o))
        BY <1>b, <2>1, <3>2, OthersKeep
      <3>4. PhaseOf(p)' /\ ~InLock(p)'
        BY <1>4, <1>b, <2>1
        DEF Fill, PhaseOf, CommitPhase, IncrPhase, InLock
      <3>5. Phases' /\ LockHeld' /\ MissIsFresh'
        BY <3>1, <3>2, <3>3, <3>4 DEF Phases, PhaseOf, LockHeld, MissIsFresh
      <3>6. db' = db /\ committed' = committed
        BY <1>4 DEF Fill
      <3>7. CacheCoherent' /\ CountersKept
        BY <3>1, <3>6 DEF ThingInv, CacheCoherent, Coherent, CountersKept, CountersExact,
          Resolve
      <3>8. QED
        BY <3>5, <3>7
    <2>4. QED
      BY <2>2, <2>3
  <1>5. ASSUME NEW p \in Procs, FillError(p)
        PROVE  FALSE
    BY <1>c, <1>5 DEF FillError
  <1>6. ASSUME NEW p \in Procs, pc[p] \in {"have", "wait"}
        PROVE  cache # None
    BY <1>6 DEF ThingInv, MissIsFresh
  <1>7. ASSUME NEW p \in Procs, NEW q \in Props \ IncrProps, NEW v \in Values,
               SetAttr(p, q, v)
        PROVE  Goal
    <2>1. pc[p] = "have" /\ pc'[p] = "have" /\ \A o \in Procs \ {p} : Same(o)
      BY <1>0, <1>7 DEF SetAttr, Same, TypeOK
    <2>2. dirties'[p] \cap IncrProps = {}
      BY <1>0, <1>7, <1>b DEF SetAttr, PhaseOf, TypeOK
    <2>3. QED
      BY <1>6, <1>7, <2>1, <2>2, LocalStep DEF SetAttr, InLock, Outside
  <1>8. ASSUME NEW p \in Procs, StartCommit(p) \/ TimeoutExpired(p)
        PROVE  Goal
    BY <1>0, <1>6, <1>8, <1>b, LocalStep
    DEF StartCommit, TimeoutExpired, CommitOp, Goto, Same, TypeOK, InLock, Outside, PhaseOf
  <1>9. ASSUME NEW p \in Procs, NEW q \in IncrProps, NEW a \in Amounts,
               StartIncr(p, q, a)
        PROVE  Goal
    BY <1>0, <1>6, <1>9, <1>b, LocalStep
    DEF StartIncr, Goto, Same, TypeOK, InLock, Outside, PhaseOf
  <1>10. ASSUME NEW p \in Procs, EndRequest(p)
         PROVE  Goal
    BY <1>0, <1>6, <1>10, LocalStep
    DEF EndRequest, Forget, Goto, Same, TypeOK, InLock, Outside
  <1>11. ASSUME NEW p \in Procs, Acquire(p)
         PROVE  Goal
    <2>1. pc[p] = "wait" /\ pc'[p] = "sync" /\ \A o \in Procs \ {p} : Same(o)
      BY <1>0, <1>11 DEF Acquire, Goto, Same, TypeOK
    <2>2. cache # None /\ cache' = cache /\ db' = db /\ committed' = committed /\ lock' = p
      BY <1>6, <1>11, <2>1 DEF Acquire
    <2>3. \A o \in Procs : ~InLock(o) /\ ~InWindow(o)
      BY <1>11, <1>b, ThingAssumption
      DEF Acquire, ThingInv, LockHeld, InLock, InWindow, PhaseOf
    <2>4. \A o \in Procs \ {p} : PhaseOf(o)' /\ ~InLock(o)'
      BY <1>b, <2>1, <2>2, <2>3, OthersKeep
    <2>5. PhaseOf(p)'
      BY <1>11, <1>b, <2>1 DEF Acquire, PhaseOf, CommitPhase, IncrPhase
    <2>6. Phases' /\ LockHeld' /\ MissIsFresh'
      BY <2>2, <2>4, <2>5 DEF Phases, PhaseOf, LockHeld, MissIsFresh
    <2>7. CacheCoherent' /\ CountersKept
      BY <2>2, <2>3 DEF ThingInv, CacheCoherent, Coherent, CountersKept, CountersExact,
          Resolve
    <2>8. QED
      BY <2>6, <2>7
  <1>12. ASSUME NEW p \in Procs, SyncMiss(p)
         PROVE  FALSE
    BY <1>12, HolderSees DEF SyncMiss, InLock
  <1>13. ASSUME NEW p \in Procs, SyncHit(p)
         PROVE  Goal
    <2> DEFINE copy == [q \in Props |-> IF q \in dirties[p] THEN self[p][q] ELSE cache[q]]
               dirty == {q \in dirties[p] : self[p][q] # cache[q]}
    <2>1. InLock(p) /\ ~InWindow(p) /\ AfterSync(p, copy, dirty) /\ pc[p] = "sync"
      BY <1>13 DEF SyncHit, InLock, InWindow
    <2>2. cache = Resolve(db)
      BY <2>1, HolderSees
    <2>3. copy \in Copy /\ dirty \subseteq Props /\ dirty \cap IncrProps = {}
      BY <1>0, <1>a, <1>b, <2>2, ResolveType DEF TypeOK, Copy, PhaseOf
    <2>4. \A q \in Props \ dirty : copy[q] = Resolve(db)[q]
      BY <2>2
    <2> HIDE DEF copy, dirty
    <2>5. /\ UNCHANGED <<db, cache, lock, committed>>
          /\ op' = op /\ tx' = tx /\ dirties'[p] = dirty
          /\ \A o \in Procs \ {p} : Same(o)
      BY <1>0, <2>1 DEF AfterSync, Goto, Same, TypeOK
    <2>6. CASE op[p].name = "commit"
      <3>1. self'[p] = copy /\ pc'[p] = IF dirty = {} THEN "release" ELSE "write"
        BY <1>0, <2>1, <2>6 DEF AfterSync, Goto, TypeOK
      <3>2. PhaseOf(p)' /\ InLock(p)' /\ ~InWindow(p)'
        BY <2>3, <2>4, <2>5, <2>6, <3>1
        DEF PhaseOf, CommitPhase, IncrPhase, InLock, InWindow, Resolve
      <3>3. QED
        BY <2>1, <2>5, <3>2, BlockStep
    <2>7. CASE op[p].name = "incr"
      <3>1. dirties[p] = {}
        BY <1>b, <2>1, <2>7 DEF PhaseOf, IncrPhase
      <3>2. copy = Resolve(db)
        BY <2>2, <3>1 DEF copy, Resolve
      <3>3. self'[p] = [copy EXCEPT ![op[p].prop] = @ + op[p].amt] /\ pc'[p] = "write"
        BY <1>0, <2>1, <2>7 DEF AfterSync, Goto, TypeOK
      <3>4. self'[p] = Bumped(p)'
        BY <2>5, <3>2, <3>3 DEF Bumped, Plus
      <3>5. PhaseOf(p)' /\ InLock(p)' /\ ~InWindow(p)'
        BY <2>3, <2>5, <2>7, <3>3, <3>4
        DEF PhaseOf, CommitPhase, IncrPhase, InLock, InWindow
      <3>6. QED
        BY <2>1, <2>5, <3>5, BlockStep
    <2>8. QED
      BY <1>0, <2>6, <2>7, OpType DEF TypeOK
  <1>14. ASSUME NEW p \in Procs, WriteChanges(p)
         PROVE  Goal
    <2>1. /\ pc[p] = "write" /\ op[p].name = "commit" /\ pc'[p] = "dbcommit"
          /\ op' = op /\ self' = self /\ dirties'[p] = {}
          /\ tx'[p] = [props |-> dirties[p], how |-> "set"]
          /\ UNCHANGED <<db, cache, lock, committed>>
          /\ \A o \in Procs \ {p} : Same(o)
      BY <1>0, <1>14 DEF WriteChanges, Write, Goto, Same, TypeOK
    <2>2. InLock(p) /\ ~InWindow(p) /\ InLock(p)' /\ ~InWindow(p)'
      BY <2>1 DEF InLock, InWindow
    <2>3. /\ dirties[p] \cap IncrProps = {}
          /\ \A q \in Props \ dirties[p] : self[p][q] = Resolve(db)[q]
      BY <1>b, <2>1 DEF PhaseOf, CommitPhase
    <2>4. /\ tx'[p].how = "set" /\ tx'[p].props = dirties[p]
          /\ \A q \in Props \ dirties[p] : self'[p][q] = Resolve(db')[q]
      BY <2>1, <2>3
    <2>5. PhaseOf(p)'
      BY <2>1, <2>3, <2>4 DEF PhaseOf, CommitPhase, IncrPhase
    <2>6. QED
      BY <2>1, <2>2, <2>5, BlockStep
  <1>15. ASSUME NEW p \in Procs, WriteIncr(p)
         PROVE  Goal
    <2> DEFINE c == op[p].prop
               how == IncrHow(c, self[p][c] - op[p].amt)
    <2>1. /\ pc[p] = "write" /\ op[p].name = "incr" /\ pc'[p] = "setcache"
          /\ op' = op /\ self' = self /\ dirties' = dirties
          /\ tx'[p] = [props |-> {c}, how |-> how]
          /\ UNCHANGED <<db, cache, lock, committed>>
          /\ \A o \in Procs \ {p} : Same(o)
      BY <1>0, <1>15 DEF WriteIncr, Write, Goto, Same, TypeOK
    <2>2. InLock(p) /\ ~InWindow(p) /\ InLock(p)' /\ ~InWindow(p)'
      BY <2>1 DEF InLock, InWindow
    <2>3. c \in Props /\ op[p].amt \in Int
      BY <1>0, <2>1, OpType, ThingAssumption DEF TypeOK
    <2>4. self[p][c] = Resolve(db)[c] + op[p].amt /\ Resolve(db)[c] \in Int
      BY <1>a, <1>b, <2>1, <2>3, ResolveType
      DEF PhaseOf, IncrPhase, Bumped, Plus, Copy
    <2>5. how \in {"set", "add"} /\ (how = "add" => db[c] # Unset)
      <3>1. how = IncrHow(c, Resolve(db)[c])
        BY <2>3, <2>4
      <3>2. c \in BaseProps => db[c] # Unset
        BY <1>0 DEF TypeInv, RowFirst, ThingInv
      <3>3. db[c] = Unset => Resolve(db)[c] = Default[c]
        BY <2>3 DEF Resolve
      <3>4. QED
        BY <2>3, <3>1, <3>2, <3>3 DEF IncrHow, Props
    <2> HIDE DEF how
    <2>6. PhaseOf(p)'
      BY <1>b, <2>1, <2>5 DEF PhaseOf, CommitPhase, IncrPhase, Bumped, Resolve
    <2>7. QED
      BY <2>1, <2>2, <2>6, BlockStep
  <1>16. ASSUME NEW p \in Procs, WriteError(p) \/ DbCommitError(p)
         PROVE  Goal
    <2>1. /\ pc[p] \in {"write", "dbcommit"}
          /\ pc[p] = "dbcommit" => op[p].name = "commit"
          /\ Raise(p) /\ cache' = cache
      BY <1>c, <1>16 DEF WriteError, DbCommitError
    <2>2. /\ pc'[p] = "release" /\ dirties' = dirties
          /\ UNCHANGED <<db, cache, lock, committed>>
          /\ \A o \in Procs \ {p} : Same(o)
      BY <1>0, <2>1 DEF Raise, Goto, Same, TypeOK
    <2>3. InLock(p) /\ ~InWindow(p) /\ InLock(p)' /\ ~InWindow(p)'
      BY <2>1, <2>2 DEF InLock, InWindow
    <2>4. PhaseOf(p)'
      BY <1>b, <2>2 DEF PhaseOf, CommitPhase, IncrPhase
    <2>5. QED
      BY <2>2, <2>3, <2>4, BlockStep
  <1>17. ASSUME NEW p \in Procs, DbCommit(p)
         PROVE  Goal
    <2>1. /\ pc[p] = "dbcommit"
          /\ db' = Applied(db, tx[p].props, tx[p].how, self[p], Amt(op[p]))
          /\ pc'[p] = IF op[p].name = "commit" THEN "setcache" ELSE "release"
          /\ op' = op /\ self' = self /\ dirties' = dirties /\ cache' = cache /\ lock' = lock
          /\ \A o \in Procs \ {p} : Same(o)
      BY <1>0, <1>17 DEF DbCommit, Goto, Same, TypeOK
    <2>2. InLock(p) /\ InLock(p)'
      BY <2>1 DEF InLock
    <2>3. cache # None /\ \A o \in Procs \ {p} : ~InLock(o)
      BY <2>2, HolderSees
    <2>4. \A o \in Procs \ {p} : PhaseOf(o)' /\ ~InLock(o)'
      BY <1>b, <2>1, <2>3, OthersKeep
    <2>5. self[p] \in Copy /\ tx[p].props \in SUBSET Props
      BY <1>0 DEF TypeOK, Txs
    <2>6. CASE op[p].name = "commit"
      <3>1. /\ tx[p].how = "set" /\ tx[p].props \cap IncrProps = {}
            /\ \A q \in Props \ tx[p].props : self[p][q] = Resolve(db)[q]
        BY <1>b, <2>1, <2>6 DEF PhaseOf, CommitPhase
      <3>2. db' = Applied(db, tx[p].props, "set", self[p], 0)
        BY <2>1, <2>6, <3>1 DEF Amt
      <3>3. Resolve(db') = self[p]
        BY <1>a, <2>5, <3>1, <3>2, CommitApplies
      <3>4. PhaseOf(p)' /\ InWindow(p)'
        BY <1>b, <2>1, <2>6, <3>3
        DEF PhaseOf, CommitPhase, IncrPhase, InWindow
      <3>5. committed' = committed
        BY <1>17, <2>6 DEF DbCommit
      <3>6. \A q \in IncrProps : Resolve(db')[q] = Resolve(db)[q]
        BY <3>1, <3>3, ThingAssumption
      <3>7. CountersKept
        BY <3>5, <3>6 DEF CountersKept, CountersExact
      <3>8. Phases' /\ LockHeld' /\ MissIsFresh' /\ CacheCoherent'
        BY <2>1, <2>2, <2>3, <2>4, <3>4
        DEF Phases, PhaseOf, ThingInv, LockHeld, MissIsFresh, CacheCoherent
      <3>9. QED
        BY <3>7, <3>8
    <2>7. CASE op[p].name = "incr"
      <3> DEFINE c == op[p].prop
                 a == op[p].amt
      <3>1. /\ tx[p].props = {c} /\ tx[p].how \in {"set", "add"}
            /\ tx[p].how = "add" => db[c] # Unset
            /\ self[p] = Plus(Resolve(db), c, a)
            /\ cache = self[p]
        BY <1>b, <2>1, <2>7 DEF PhaseOf, IncrPhase, Bumped
      <3>2. c \in IncrProps /\ c \in Props /\ a \in Int /\ Amt(op[p]) = a
        BY <1>0, <2>7, OpType, ThingAssumption DEF TypeOK, Amt
      <3>3. db' = Applied(db, {c}, tx[p].how, self[p], a)
        BY <2>1, <3>1, <3>2
      <3>4. committed' = [committed EXCEPT ![c] = @ + a]
        BY <1>17, <2>7 DEF DbCommit
      <3> HIDE DEF c, a
      <3>5. Resolve(db') = self[p]
        <4>1. Resolve(Applied(db, {c}, tx[p].how, self[p], a)) = self[p]
          BY <1>a, <2>5, <3>1, <3>2, IncrApplies
        <4>2. QED
          BY <3>3, <4>1
      <3>6. \A q \in IncrProps :
              Resolve(db')[q] = IF q = c THEN Resolve(db)[q] + a ELSE Resolve(db)[q]
        BY <1>a, <3>1, <3>2, <3>5, ResolveType, ThingAssumption DEF Plus, Copy
      <3>7. CountersKept
        <4> SUFFICES ASSUME CountersExact
                     PROVE  CountersExact'
          BY DEF CountersKept
        <4>1. \A q \in IncrProps : Resolve(db)[q] = Default[q] + committed[q]
          BY DEF CountersExact
        <4>2. \A q \in IncrProps : committed[q] \in Int /\ Default[q] \in Int
          BY <1>0, ThingAssumption DEF TypeOK
        <4>3. \A q \in IncrProps : committed'[q] = IF q = c THEN committed[q] + a ELSE committed[q]
          BY <1>0, <3>4 DEF TypeOK
        <4>4. QED
          BY <3>2, <3>6, <4>1, <4>2, <4>3 DEF CountersExact
      <3>8. pc'[p] = "release" /\ PhaseOf(p)' /\ ~InWindow(p)'
        BY <1>b, <2>1, <2>7 DEF PhaseOf, CommitPhase, IncrPhase, InWindow
      <3>9. CacheCoherent'
        BY <1>0, <1>a, <2>1, <2>3, <3>1, <3>5
        DEF CacheCoherent, Coherent, TypeInv, RowFirst
      <3>10. Phases' /\ LockHeld' /\ MissIsFresh'
        BY <2>1, <2>2, <2>3, <2>4, <3>8
        DEF Phases, PhaseOf, ThingInv, LockHeld, MissIsFresh
      <3>11. QED
        BY <3>7, <3>9, <3>10
    <2>8. QED
      BY <1>0, <2>6, <2>7, OpType DEF TypeOK
  <1>18. ASSUME NEW p \in Procs, SetCache(p)
         PROVE  Goal
    <2>1. /\ pc[p] = "setcache"
          /\ pc'[p] = IF op[p].name = "commit" THEN "release" ELSE "dbcommit"
          /\ cache' = self[p] /\ self' = self /\ op' = op /\ dirties' = dirties /\ tx' = tx
          /\ UNCHANGED <<db, lock, committed>>
          /\ \A o \in Procs \ {p} : Same(o)
      BY <1>0, <1>18 DEF SetCache, Goto, Same, TypeOK
    <2>2. InLock(p) /\ InLock(p)'
      BY <2>1 DEF InLock
    <2>3. \A o \in Procs \ {p} : ~InLock(o)
      BY <2>2, HolderSees
    <2>4. \A o \in Procs \ {p} : PhaseOf(o)' /\ ~InLock(o)'
      BY <1>b, <2>1, <2>3, OthersKeep
    <2>5. cache' # None
      BY <1>0, <2>1, ThingAssumption DEF TypeOK, Copy
    <2>6. PhaseOf(p)'
      <3>1. CASE op[p].name = "commit"
        BY <1>b, <2>1, <3>1 DEF PhaseOf, CommitPhase, IncrPhase
      <3>2. CASE op[p].name = "incr"
        BY <1>b, <2>1, <3>2 DEF PhaseOf, CommitPhase, IncrPhase, Bumped, Resolve
      <3>3. QED
        BY <1>0, <3>1, <3>2, OpType DEF TypeOK
    <2>7. CacheCoherent'
      <3>1. CASE op[p].name = "commit"
        BY <1>b, <2>1, <3>1
        DEF PhaseOf, CommitPhase, CacheCoherent, Coherent, ThingInv, Resolve
      <3>2. CASE op[p].name = "incr"
        BY <2>1, <3>2 DEF CacheCoherent, InWindow
      <3>3. QED
        BY <1>0, <3>1, <3>2, OpType DEF TypeOK
    <2>8. Phases' /\ LockHeld' /\ MissIsFresh'
      BY <2>1, <2>2, <2>4, <2>5, <2>6
      DEF Phases, PhaseOf, ThingInv, LockHeld, MissIsFresh
    <2>9. CountersKept
      BY <2>1 DEF CountersKept, CountersExact, Resolve
    <2>10. QED
      BY <2>7, <2>8, <2>9
  <1>19. ASSUME NEW p \in Procs, SetCacheError(p)
         PROVE  FALSE
    BY <1>c, <1>19 DEF SetCacheError
  <1>20. ASSUME NEW p \in Procs, pc'[p] \in {"idle", "have"}, dirties'[p] \cap IncrProps = {},
                ~InWindow(p), \A o \in Procs \ {p} : Same(o),
                UNCHANGED <<db, cache, committed>>,
                lock' = lock \/ InLock(p), pc'[p] = "have" => cache # None
         PROVE  Goal
    <2>1. \A o \in Procs \ {p} :
            PhaseOf(o)' /\ (InWindow(o)' <=> InWindow(o)) /\ (InLock(o)' <=> InLock(o))
      BY <1>20, <1>b, OthersKeep
    <2>2. PhaseOf(p)' /\ ~InWindow(p)' /\ ~InLock(p)'
      BY <1>20 DEF PhaseOf, CommitPhase, IncrPhase, InWindow, InLock
    <2>3. Phases'
      BY <2>1, <2>2 DEF Phases, PhaseOf
    <2>4. LockHeld'
      BY <1>20, <2>1, <2>2, HolderSees DEF ThingInv, LockHeld
    <2>5. CacheCoherent'
      BY <1>20, <2>1, <2>2 DEF ThingInv, CacheCoherent, Coherent, Resolve
    <2>6. CountersKept
      BY <1>20 DEF CountersKept, CountersExact, Resolve
    <2>7. MissIsFresh'
      BY <1>20 DEF ThingInv, MissIsFresh, Same, Resolve
    <2>8. QED
      BY <2>3, <2>4, <2>5, <2>6, <2>7
  <1>21. ASSUME NEW p \in Procs, Release(p)
         PROVE  Goal
    <2>1. InLock(p) /\ ~InWindow(p)
      BY <1>21 DEF Release, InLock, InWindow
    <2>2. cache # None
      BY <2>1, HolderSees
    <2>3. pc'[p] = "have" /\ dirties'[p] \cap IncrProps = {} /\ \A o \in Procs \ {p} : Same(o)
      BY <1>0, <1>21, <1>b DEF Release, Goto, Same, TypeOK, PhaseOf
    <2>4. UNCHANGED <<db, cache, committed>>
      BY <1>21 DEF Release
    <2>5. QED
      BY <1>20, <2>1, <2>2, <2>3, <2>4
  <1>22. ASSUME NEW p \in Procs, Crash(p)
         PROVE  Goal
    <2>1. ~InWindow(p)
      BY <1>c, <1>22 DEF Crash
    <2>2. pc'[p] = "idle" /\ dirties'[p] = {} /\ \A o \in Procs \ {p} : Same(o)
      BY <1>0, <1>22 DEF Crash, Forget, Goto, Same, TypeOK
    <2>3. UNCHANGED <<db, cache, lock, committed>>
      BY <1>22 DEF Crash
    <2>4. QED
      BY <1>20, <2>1, <2>2, <2>3
  <1>23. ASSUME NEW p \in Procs, Create(p) \/ CreateSetCache(p)
         PROVE  FALSE
    BY <1>23, <1>b DEF Create, CreateSetCache, ThingInv, PhaseOf
  <1>24. ASSUME LockExpires
         PROVE  Goal
    <2>1. ~InLock(lock) /\ lock \in Procs
      BY <1>0, <1>c, <1>24 DEF LockExpires, TypeOK
    <2>2. \A p \in Procs : ~InLock(p)
      BY <2>1 DEF ThingInv, LockHeld
    <2>3. \A p \in Procs : Same(p)
      BY <1>24 DEF LockExpires, Same
    <2>4. \A p \in Procs :
            PhaseOf(p)' /\ (InWindow(p)' <=> InWindow(p)) /\ (InLock(p)' <=> InLock(p))
      BY <1>b, <2>2, <2>3, OthersKeep
    <2>5. Phases' /\ LockHeld'
      BY <2>2, <2>4 DEF Phases, PhaseOf, LockHeld
    <2>6. UNCHANGED <<db, cache, pc, self, committed>>
      BY <1>24 DEF LockExpires
    <2>7. MissIsFresh' /\ CacheCoherent' /\ CountersKept
      BY <2>4, <2>6
      DEF ThingInv, MissIsFresh, CacheCoherent, Coherent, CountersKept, CountersExact,
          Resolve
    <2>8. QED
      BY <2>5, <2>7
  <1>25. ASSUME Evict
         PROVE  Goal
    <2>1. \A p \in Procs : pc[p] = "idle"
      BY <1>25 DEF Evict, Harmed
    <2>2. \A p \in Procs : Same(p) /\ ~InLock(p)
      BY <1>25, <2>1 DEF Evict, Same, InLock
    <2>3. \A p \in Procs : PhaseOf(p)' /\ ~InLock(p)'
      BY <1>b, <2>2, OthersKeep
    <2>4. cache' = None /\ UNCHANGED <<db, pc, committed>>
      BY <1>25 DEF Evict
    <2>5. QED
      BY <2>1, <2>3, <2>4
      DEF Phases, PhaseOf, LockHeld, ThingInv, MissIsFresh, CacheCoherent, Coherent,
          CountersKept, CountersExact, Resolve
  <1>26. ASSUME UNCHANGED vars
         PROVE  Goal
    <2>1. \A p \in Procs : Same(p)
      BY <1>26 DEF vars, Same
    <2>2. UNCHANGED <<db, cache, lock, pc, self, committed>>
      BY <1>26 DEF vars
    <2>3. \A p \in Procs :
            PhaseOf(p)' /\ (InWindow(p)' <=> InWindow(p)) /\ (InLock(p)' <=> InLock(p))
      BY <1>b, <2>1, <2>2, OthersKeep
    <2>4. Phases' /\ LockHeld'
      BY <2>2, <2>3 DEF Phases, PhaseOf, ThingInv, LockHeld
    <2>5. MissIsFresh' /\ CacheCoherent' /\ CountersKept
      BY <2>2, <2>3
      DEF ThingInv, MissIsFresh, CacheCoherent, Coherent, CountersKept, CountersExact,
          Resolve
    <2>6. QED
      BY <2>4, <2>5
  <1>27. Goal
    BY <1>1, <1>2, <1>3, <1>4, <1>5, <1>7, <1>8, <1>9, <1>10, <1>11, <1>12,
       <1>13, <1>14, <1>15, <1>16, <1>17, <1>18, <1>19, <1>21, <1>22, <1>23,
       <1>24, <1>25, <1>26
    DEF Next, Step, Proceed
  <1>28. db' # None
    <2>1. \/ db' = db
          \/ \E p \in Procs : DbCommit(p)
      <3>1. ASSUME NEW p \in Procs,
                   \/ FetchHit(p) \/ FetchMiss(p) \/ ReadData(p) \/ Fill(p) \/ FillError(p)
                   \/ StartCommit(p) \/ EndRequest(p) \/ Acquire(p) \/ TimeoutExpired(p)
            PROVE  db' = db
        BY <3>1, Zenon DEF FetchHit, FetchMiss, ReadData, Fill, FillError, StartCommit,
                    EndRequest, Acquire, TimeoutExpired
      <3>2. ASSUME NEW p \in Procs,
                   \/ SyncHit(p) \/ SyncMiss(p) \/ WriteChanges(p) \/ WriteIncr(p)
                   \/ WriteError(p) \/ DbCommitError(p) \/ SetCache(p)
                   \/ SetCacheError(p) \/ Release(p) \/ Crash(p)
            PROVE  db' = db
        BY <3>2, Zenon DEF SyncHit, SyncMiss, AfterSync, WriteChanges, WriteIncr, WriteError,
                    DbCommitError, SetCache, SetCacheError, Raise, Release, Crash
      <3>3. ASSUME NEW p \in Procs,
                   \/ \E q \in Props \ IncrProps, v \in Values : SetAttr(p, q, v)
                   \/ \E q \in IncrProps, a \in Amounts : StartIncr(p, q, a)
            PROVE  db' = db
        BY <3>3, Zenon DEF SetAttr, StartIncr
      <3>4. ASSUME LockExpires \/ Evict \/ UNCHANGED vars
            PROVE  db' = db
        BY <3>4 DEF LockExpires, Evict, vars
      <3>5. QED
        BY <1>23, <3>1, <3>2, <3>3, <3>4, Zenon DEF Next, Step, Proceed
    <2>2. ASSUME NEW p \in Procs, DbCommit(p)
          PROVE  db' \in Row
      BY <1>0, <1>a, <2>2, AppliedType, OpType DEF DbCommit, TypeOK, Txs
    <2>3. QED
      BY <2>1, <2>2, ThingAssumption DEF ThingInv, Row
  <1>29. QED
    BY <1>0, <1>27, <1>28 DEF ThingInv

(***************************************************************************)
(* Tolerable failures harm nothing: the others are not among Faults.       *)
(***************************************************************************)
LEMMA CleanStep ==
    ASSUME Clean, ThingInv, [Next]_vars PROVE ~Harmed
  <1>1. ASSUME NEW kind \in Harmful PROVE ~Harm(kind)
    BY <1>1 DEF Harm, Harmful, Clean, Tolerable
  <1>2. harm' = harm
    <2>1. ASSUME NEW p \in Procs,
                 \/ FetchHit(p) \/ FetchMiss(p) \/ ReadData(p) \/ Fill(p) \/ FillError(p)
                 \/ StartCommit(p) \/ EndRequest(p) \/ Acquire(p) \/ TimeoutExpired(p)
          PROVE  harm' = harm
      BY <1>1, <2>1 DEF FetchHit, FetchMiss, ReadData, Fill, FillError, StartCommit,
                  EndRequest, Acquire, TimeoutExpired, Harmful
    <2>2. ASSUME NEW p \in Procs,
                 \/ SyncHit(p) \/ SyncMiss(p) \/ WriteChanges(p) \/ WriteIncr(p)
                 \/ DbCommit(p) \/ SetCache(p) \/ Release(p)
          PROVE  harm' = harm
      BY <2>2, Zenon DEF SyncHit, SyncMiss, AfterSync, WriteChanges, WriteIncr, DbCommit,
                  SetCache, Release
    <2>3. ASSUME NEW p \in Procs,
                 \/ WriteError(p) \/ DbCommitError(p) \/ SetCacheError(p) \/ Crash(p)
          PROVE  harm' = harm
      BY <1>1, <2>3 DEF WriteError, DbCommitError, SetCacheError, Crash, Harmful
    <2>4. ASSUME NEW p \in Procs,
                 \/ \E q \in Props \ IncrProps, v \in Values : SetAttr(p, q, v)
                 \/ \E q \in IncrProps, a \in Amounts : StartIncr(p, q, a)
                 \/ Create(p) \/ CreateSetCache(p)
          PROVE  harm' = harm
      BY <2>4, Zenon DEF SetAttr, StartIncr, Create, CreateSetCache
    <2>5. ASSUME LockExpires \/ Evict \/ UNCHANGED vars
          PROVE  harm' = harm
      BY <1>1, <2>5 DEF LockExpires, Evict, vars, Harmful
    <2>6. QED
      BY <2>1, <2>2, <2>3, <2>4, <2>5, Zenon DEF Next, Step, Proceed
  <1>3. ASSUME cache # None, cache' = None
        PROVE  \A p \in Procs : pc[p] = "idle"
    <2>1. \A p \in Procs : self[p] # None
      BY ThingAssumption DEF ThingInv, TypeInv, TypeOK, Copy
    <2>2. ASSUME NEW p \in Procs,
                 \/ FetchHit(p) \/ FetchMiss(p) \/ ReadData(p) \/ Fill(p) \/ FillError(p)
                 \/ StartCommit(p) \/ EndRequest(p) \/ Acquire(p) \/ TimeoutExpired(p)
          PROVE  cache' # None
      BY <1>3, <2>1, <2>2 DEF FetchHit, FetchMiss, ReadData, Fill, FillError, StartCommit,
                  EndRequest, Acquire, TimeoutExpired
    <2>3. ASSUME NEW p \in Procs,
                 \/ SyncHit(p) \/ SyncMiss(p) \/ WriteChanges(p) \/ WriteIncr(p)
                 \/ DbCommit(p) \/ SetCache(p) \/ Release(p)
          PROVE  cache' # None
      BY <1>3, <2>1, <2>3, Zenon DEF SyncHit, SyncMiss, AfterSync, WriteChanges, WriteIncr,
                  DbCommit, SetCache, Release
    <2>4. ASSUME NEW p \in Procs,
                 \/ WriteError(p) \/ DbCommitError(p) \/ SetCacheError(p) \/ Crash(p)
          PROVE  cache' # None
      BY <1>3, <2>1, <2>4 DEF WriteError, DbCommitError, SetCacheError, Crash
    <2>5. ASSUME NEW p \in Procs,
                 \/ \E q \in Props \ IncrProps, v \in Values : SetAttr(p, q, v)
                 \/ \E q \in IncrProps, a \in Amounts : StartIncr(p, q, a)
                 \/ Create(p) \/ CreateSetCache(p)
          PROVE  cache' # None
      BY <1>3, <2>1, <2>5, Zenon DEF SetAttr, StartIncr, Create, CreateSetCache
    <2>6. ASSUME LockExpires \/ UNCHANGED vars
          PROVE  cache' # None
      BY <1>3, <2>6 DEF LockExpires, vars
    <2>7. Evict
      BY <1>3, <2>2, <2>3, <2>4, <2>5, <2>6, Zenon DEF Next, Step, Proceed
    <2>8. QED
      BY <2>7 DEF Evict, Clean, Tolerable
  <1>4. QED
    BY <1>2, <1>3 DEF Harmed, ThingInv

(***************************************************************************)
(* The invariant holds of every behaviour with tolerable failures.         *)
(***************************************************************************)
LEMMA ThingInvariant ==
    ASSUME Clean PROVE Spec => [](ThingInv /\ CountersExact)
  <1>1. Init => ThingInv /\ CountersExact
    <2>0. Init => tainted \in BOOLEAN
      BY Zenon DEF Init
    <2>1. Init => TypeInv /\ db = NewRow /\ NewRow \in Row
      BY <2>0, ThingAssumption
      DEF Clean, Tolerable, Init, NewRow, TypeInv, TypeOK, RowFirst, PCs, Ops,
          Txs, NoTx, Copy, Row, Props
    <2>2. \A q \in Props : Resolve(NewRow)[q] = Default[q]
      BY ThingAssumption DEF Resolve, NewRow
    <2>3. Init => db # None /\ CountersExact
      BY <2>1, <2>2, ThingAssumption DEF CountersExact, Init, Row
    <2>4. Init => LockHeld /\ MissIsFresh /\ CacheCoherent /\ Phases
      BY DEF Init, LockHeld, MissIsFresh, CacheCoherent, Coherent, Phases,
             CommitPhase, IncrPhase, InLock
    <2>5. QED
      BY <2>1, <2>3, <2>4 DEF ThingInv
  <1>2. (ThingInv /\ CountersExact) /\ [Next]_vars => (ThingInv /\ CountersExact)'
    BY CleanStep, ThingStep DEF CountersKept
  <1>3. QED
    BY <1>1, <1>2, PTL DEF Spec

(***************************************************************************)
(* Under failures of database writes, lock timeouts, process deaths outside *)
(* the two-write window, expiry of dead holders' locks and eviction while   *)
(* no request has a copy, what is cached is what postgres holds.            *)
(***************************************************************************)
THEOREM CacheStaysCoherent ==
    ASSUME Clean PROVE Spec => []CacheCoherent
  <1>1. ThingInv /\ CountersExact => CacheCoherent
    BY DEF ThingInv
  <1>2. QED
    BY <1>1, ThingInvariant, PTL

(***************************************************************************)
(* Under the same failures _incr counts every committed increment once,    *)
(* through all three of its ways to write a counter.                       *)
(***************************************************************************)
THEOREM CountersStayExact ==
    ASSUME Clean PROVE Spec => []CountersExact
  <1>1. QED
    BY ThingInvariant, PTL

-----------------------------------------------------------------------------
(* Base counters under every failure                                       *)

\* What an open transaction may do to a counter: _commit nothing, _incr of a
\* base counter adds to it in postgres.
BaseTx ==
    \A p \in Procs :
        /\ dirties[p] \cap IncrProps = {}
        /\ pc[p] \in {"setcache", "dbcommit"} /\ op[p].name = "incr" =>
              /\ tx[p].props = {op[p].prop}
              /\ op[p].prop \in BaseProps => tx[p].how = "add"
        /\ pc[p] = "dbcommit" /\ op[p].name = "commit" =>
              tx[p].props \cap IncrProps = {}

\* Nothing is incremented before the thing exists.
Uncounted == db = None => \A q \in IncrProps : committed[q] = 0

BaseInv == TypeInv /\ BaseTx /\ Uncounted /\ BaseCountersExact

(***************************************************************************)
(* The transaction contents stay as described, and only the end of a       *)
(* transaction changes a counter or the count of its increments.           *)
(***************************************************************************)
LEMMA BaseStep == BaseInv /\ [Next]_vars => BaseInv'
  <1> SUFFICES ASSUME BaseInv, [Next]_vars
               PROVE  BaseTx' /\ Uncounted' /\ BaseCountersExact'
    BY TypeStep DEF BaseInv
  <1>0. TypeInv /\ TypeInv' /\ TypeOK /\ BaseTx /\ Uncounted /\ BaseCountersExact
    BY TypeStep DEF BaseInv, TypeInv
  <1> USE DEF Goto
  <1>1. ASSUME NEW p \in Procs, DbCommit(p)
        PROVE  BaseTx' /\ Uncounted' /\ BaseCountersExact'
    <2>1. BaseTx'
      <3>1. /\ op' = op /\ dirties' = dirties
            /\ pc'[p] = IF op[p].name = "commit" THEN "setcache" ELSE "release"
            /\ \A o \in Procs \ {p} : pc'[o] = pc[o] /\ tx'[o] = tx[o]
        BY <1>0, <1>1 DEF DbCommit, TypeOK
      <3>2. QED
        BY <1>0, <3>1 DEF BaseTx
    <2>2. db \in Row /\ db # None
      BY <1>0, <1>1, ThingAssumption DEF DbCommit, TypeInv, RowFirst, TypeOK, Row
    <2>3. ASSUME NEW q \in IncrProps \cap BaseProps
          PROVE  db'[q] = Default[q] + committed'[q]
      <3>1. db[q] = Default[q] + committed[q] /\ db[q] # Unset
        BY <1>0, <2>2 DEF BaseCountersExact, TypeInv, RowFirst
      <3>2. q \in Props /\ committed[q] \in Int /\ Default[q] \in Int /\ db[q] \in Int
        BY <1>0, <2>2, <3>1, ThingAssumption DEF TypeOK, Row
      <3>3. CASE q \in tx[p].props
        <4>1. op[p].name = "incr" /\ op[p].prop = q /\ tx[p].how = "add"
          BY <1>0, <1>1, <3>3, OpType DEF DbCommit, BaseTx, TypeOK
        <4>2. op[p].amt \in Int /\ Amt(op[p]) = op[p].amt
          BY <1>0, <4>1, OpType DEF TypeOK, Amt
        <4>3. db'[q] = db[q] + op[p].amt
          BY <1>1, <3>1, <3>2, <3>3, <4>1, <4>2 DEF DbCommit, Applied
        <4>4. committed'[q] = committed[q] + op[p].amt
          BY <1>0, <1>1, <4>1 DEF DbCommit, TypeOK
        <4>5. QED
          BY <3>1, <3>2, <4>2, <4>3, <4>4
      <3>4. CASE q \notin tx[p].props
        <4>1. db'[q] = db[q]
          BY <1>1, <3>2, <3>4 DEF DbCommit, Applied
        <4>2. op[p].name = "incr" => op[p].prop # q
          BY <1>0, <1>1, <3>4 DEF DbCommit, BaseTx
        <4>3. committed'[q] = committed[q]
          BY <1>0, <1>1, <4>2 DEF DbCommit, TypeOK
        <4>4. QED
          BY <3>1, <4>1, <4>3
      <3>5. QED
        BY <3>3, <3>4
    <2>4. db' # None
      <3>1. tx[p].props \in SUBSET Props /\ Amt(op[p]) \in Int /\ self[p] \in Copy
        BY <1>0, OpType DEF TypeOK, Txs
      <3>2. db' \in Row
        BY <1>1, <2>2, <3>1, AppliedType DEF DbCommit
      <3>3. QED
        BY <3>2, ThingAssumption DEF Row
    <2>5. QED
      BY <2>1, <2>3, <2>4 DEF BaseCountersExact, Uncounted
  <1>2. ASSUME NEW p \in Procs, Create(p)
        PROVE  BaseTx' /\ Uncounted' /\ BaseCountersExact'
    <2>1. BaseTx'
      BY <1>0, <1>2 DEF Create, BaseTx, TypeOK
    <2>2. db' # None /\ \A q \in IncrProps \cap BaseProps : db'[q] = Default[q] + committed'[q]
      <3>1. db' = NewRow /\ db = None /\ committed' = committed
        BY <1>2 DEF Create
      <3>2. NewRow \in Row
        BY ThingAssumption DEF NewRow, Row
      <3>3. QED
        BY <1>0, <3>1, <3>2, ThingAssumption DEF NewRow, Row, Uncounted
    <2>3. QED
      BY <2>1, <2>2 DEF BaseCountersExact, Uncounted
  <1>3. ASSUME db' = db, committed' = committed
        PROVE  Uncounted' /\ BaseCountersExact'
    BY <1>0, <1>3 DEF BaseCountersExact, Uncounted
  <1>4. ASSUME NEW p \in Procs, dirties'[p] \cap IncrProps = {},
               pc'[p] \notin {"setcache", "dbcommit"},
               \A o \in Procs \ {p} : Same(o)
        PROVE  BaseTx'
    BY <1>0, <1>4 DEF BaseTx, Same
  <1>5. ASSUME NEW p \in Procs,
               FetchHit(p) \/ FetchMiss(p) \/ ReadData(p) \/ Fill(p) \/ FillError(p)
        PROVE  BaseTx' /\ Uncounted' /\ BaseCountersExact'
    <2>1. BaseTx'
      BY <1>0, <1>4, <1>5
      DEF FetchHit, FetchMiss, ReadData, Fill, FillError, Same, TypeOK, BaseTx
    <2>2. QED
      BY <1>3, <1>5, <2>1 DEF FetchHit, FetchMiss, ReadData, Fill, FillError
  <1>6. ASSUME NEW p \in Procs, NEW q \in Props \ IncrProps, NEW v \in Values,
               SetAttr(p, q, v)
        PROVE  BaseTx' /\ Uncounted' /\ BaseCountersExact'
    <2>1. dirties'[p] = dirties[p] \cup {q} /\ \A o \in Procs \ {p} : Same(o)
      BY <1>0, <1>6 DEF SetAttr, Same, TypeOK
    <2>2. BaseTx'
      BY <1>0, <1>4, <1>6, <2>1 DEF SetAttr, BaseTx
    <2>3. QED
      BY <1>3, <1>6, <2>2 DEF SetAttr
  <1>7. ASSUME NEW p \in Procs,
               \/ StartCommit(p) \/ Acquire(p) \/ TimeoutExpired(p) \/ Release(p)
               \/ CreateSetCache(p)
               \/ \E q \in IncrProps, a \in Amounts : StartIncr(p, q, a)
        PROVE  BaseTx' /\ Uncounted' /\ BaseCountersExact'
    <2>1. BaseTx'
      BY <1>0, <1>4, <1>7
      DEF StartCommit, StartIncr, Acquire, TimeoutExpired, Release, CreateSetCache,
          Same, TypeOK, BaseTx
    <2>2. QED
      BY <1>3, <1>7, <2>1
      DEF StartCommit, StartIncr, Acquire, TimeoutExpired, Release, CreateSetCache
  <1>8. ASSUME NEW p \in Procs, EndRequest(p) \/ Crash(p)
        PROVE  BaseTx' /\ Uncounted' /\ BaseCountersExact'
    <2>1. pc'[p] = "idle" /\ dirties'[p] = {} /\ \A o \in Procs \ {p} : Same(o)
      BY <1>0, <1>8 DEF EndRequest, Crash, Forget, Same, TypeOK
    <2>2. QED
      BY <1>3, <1>4, <1>8, <2>1 DEF EndRequest, Crash
  <1>9. ASSUME NEW p \in Procs, NEW copy, NEW dirty, dirty \subseteq dirties[p],
               AfterSync(p, copy, dirty)
        PROVE  BaseTx' /\ Uncounted' /\ BaseCountersExact'
    <2>1. /\ pc'[p] \in {"release", "write"} /\ dirties'[p] = dirty
          /\ \A o \in Procs \ {p} : Same(o)
      BY <1>0, <1>9 DEF AfterSync, Same, TypeOK
    <2>2. dirties'[p] \cap IncrProps = {}
      BY <1>0, <1>9, <2>1 DEF BaseTx
    <2>3. QED
      BY <1>3, <1>4, <1>9, <2>1, <2>2 DEF AfterSync
  <1>10. ASSUME NEW p \in Procs, SyncHit(p) \/ SyncMiss(p)
         PROVE  BaseTx' /\ Uncounted' /\ BaseCountersExact'
    <2>1. CASE SyncHit(p)
      BY <1>9, <2>1 DEF SyncHit
    <2>2. CASE SyncMiss(p)
      BY <1>9, <2>2 DEF SyncMiss
    <2>3. QED
      BY <1>10, <2>1, <2>2
  <1>11. ASSUME NEW p \in Procs, WriteChanges(p) \/ WriteIncr(p)
         PROVE  BaseTx' /\ Uncounted' /\ BaseCountersExact'
    <2>1. \A o \in Procs \ {p} : Same(o)
      BY <1>0, <1>11 DEF WriteChanges, WriteIncr, Write, Same, TypeOK
    <2>2. CASE WriteChanges(p)
      <3>1. /\ pc'[p] = "dbcommit" /\ op'[p].name = "commit" /\ dirties'[p] = {}
            /\ tx'[p] = [props |-> dirties[p], how |-> "set"]
        BY <1>0, <2>2 DEF WriteChanges, Write, TypeOK
      <3>2. BaseTx'
        BY <1>0, <2>1, <3>1 DEF BaseTx, Same
      <3>3. QED
        BY <1>3, <2>2, <3>2 DEF WriteChanges
    <2>3. CASE WriteIncr(p)
      <3>1. op[p].prop \in IncrProps
        BY <1>0, <2>3, OpType DEF WriteIncr, TypeOK
      <3>2. /\ pc'[p] = "setcache" /\ op' = op /\ op[p].name = "incr" /\ dirties' = dirties
            /\ tx'[p].props = {op[p].prop}
            /\ op[p].prop \in BaseProps => tx'[p].how = "add"
        BY <1>0, <2>3, <3>1, ThingAssumption DEF WriteIncr, Write, IncrHow, TypeOK, Props
      <3>3. BaseTx'
        BY <1>0, <2>1, <3>2 DEF BaseTx, Same
      <3>4. QED
        BY <1>3, <2>3, <3>3 DEF WriteIncr
    <2>4. QED
      BY <1>11, <2>2, <2>3
  <1>12. ASSUME NEW p \in Procs, SetCache(p)
         PROVE  BaseTx' /\ Uncounted' /\ BaseCountersExact'
    <2>1. /\ pc[p] = "setcache" /\ op' = op /\ tx' = tx /\ dirties' = dirties
          /\ pc'[p] = IF op[p].name = "commit" THEN "release" ELSE "dbcommit"
          /\ \A o \in Procs \ {p} : pc'[o] = pc[o]
      BY <1>0, <1>12 DEF SetCache, TypeOK
    <2>2. op[p].name \in {"commit", "incr"}
      BY <1>0, OpType DEF TypeOK
    <2>3. BaseTx'
      BY <1>0, <2>1, <2>2 DEF BaseTx
    <2>4. QED
      BY <1>3, <1>12, <2>3 DEF SetCache
  <1>13. ASSUME NEW p \in Procs,
                WriteError(p) \/ DbCommitError(p) \/ SetCacheError(p)
         PROVE  BaseTx' /\ Uncounted' /\ BaseCountersExact'
    <2>1. Raise(p)
      BY <1>13 DEF WriteError, DbCommitError, SetCacheError
    <2>2. /\ pc'[p] = "release" /\ dirties' = dirties
          /\ \A o \in Procs \ {p} : Same(o)
      BY <1>0, <2>1 DEF Raise, Same, TypeOK
    <2>3. BaseTx'
      BY <1>0, <1>4, <2>2 DEF BaseTx
    <2>4. QED
      BY <1>3, <2>1, <2>3 DEF Raise
  <1>14. ASSUME LockExpires \/ Evict \/ UNCHANGED vars
         PROVE  BaseTx' /\ Uncounted' /\ BaseCountersExact'
    <2>1. UNCHANGED <<db, pc, dirties, op, tx, committed>>
      BY <1>14 DEF LockExpires, Evict, vars
    <2>2. QED
      BY <1>0, <1>3, <2>1 DEF BaseTx
  <1>15. QED
    BY <1>1, <1>2, <1>5, <1>6, <1>7, <1>8, <1>10, <1>11, <1>12, <1>13, <1>14
    DEF Next, Step, Proceed

(***************************************************************************)
(* It holds of a thing that nobody has loaded.                             *)
(***************************************************************************)
LEMMA BaseInit == Init => BaseInv
  <1>1. Init => TypeInv
    <2>1. NewRow \in Row /\ \A q \in BaseProps : NewRow[q] # Unset
      BY ThingAssumption DEF NewRow, Row, Props
    <2>2. Init => tainted \in BOOLEAN
      BY Zenon DEF Init
    <2>3. QED
      BY <2>1, <2>2, ThingAssumption
      DEF Init, TypeInv, TypeOK, RowFirst, PCs, Ops, Txs, NoTx, Copy, Row
  <1>2. Init => BaseTx /\ Uncounted
    BY DEF Init, BaseTx, Uncounted
  <1>3. Init => BaseCountersExact
    BY ThingAssumption DEF Init, BaseCountersExact, NewRow
  <1>4. QED
    BY <1>1, <1>2, <1>3 DEF BaseInv

(***************************************************************************)
(* _ups and _downs, which _incr has postgres add to, count exactly the     *)
(* committed increments under every failure: lost lock entries, eviction,  *)
(* failed and half-done writes to memcached, crashes anywhere.             *)
(***************************************************************************)
THEOREM BaseCountersStayExact == Spec => []BaseCountersExact
  <1>1. Init => BaseInv
    BY BaseInit
  <1>2. BaseInv => BaseCountersExact
    BY DEF BaseInv
  <1>3. QED
    BY <1>1, <1>2, BaseStep, PTL DEF Spec

-----------------------------------------------------------------------------
(* Coherence after a harmful failure                                       *)

\* What is known while nothing harmful has happened since the thing was last
\* loaded afresh: it does not exist yet, or all of the invariant.
AfreshInv == BaseInv /\ (~tainted => db = None \/ ThingInv)

(***************************************************************************)
(* With no copy in memcached and none in a process, the invariant holds    *)
(* whatever went wrong before.                                             *)
(***************************************************************************)
LEMMA AfreshRestores ==
    ASSUME BaseInv, Afresh, db # None PROVE ThingInv
  <1>1. \A p \in Procs : pc[p] = "idle" /\ dirties[p] \cap IncrProps = {}
    BY DEF Afresh, BaseInv, BaseTx
  <1>2. LockHeld /\ Phases
    BY <1>1 DEF LockHeld, InLock, Phases, CommitPhase, IncrPhase
  <1>3. MissIsFresh /\ CacheCoherent
    BY <1>1 DEF Afresh, MissIsFresh, CacheCoherent, Coherent
  <1>4. QED
    BY <1>2, <1>3 DEF ThingInv, BaseInv

(***************************************************************************)
(* Whatever fails, and however often: once the copy has left memcached     *)
(* while no process had one, cache and postgres agree until the next       *)
(* harmful failure.                                                        *)
(***************************************************************************)
THEOREM CacheRecovers == Spec => []CoherentAfresh
  <1>1. Init => AfreshInv
    <2>1. Init => Afresh
      BY DEF Init, Afresh
    <2>2. QED
      BY <2>1, BaseInit, AfreshRestores DEF AfreshInv
  <1>2. AfreshInv /\ [Next]_vars => AfreshInv'
    <2> SUFFICES ASSUME AfreshInv, [Next]_vars, ~tainted'
                 PROVE  db' = None \/ ThingInv'
      BY BaseStep DEF AfreshInv
    <2>1. CASE UNCHANGED vars
      <3>1. ~tainted
        BY <2>1 DEF vars
      <3>2. CASE db = None
        BY <2>1, <3>2 DEF vars
      <3>3. CASE ThingInv
        BY <2>1, <3>3, ThingStep DEF vars, Harmed
      <3>4. QED
        BY <3>1, <3>2, <3>3 DEF AfreshInv
    <2>2. CASE Next
      <3>1. ~Harmed /\ (~tainted \/ Afresh)
        BY <2>2 DEF Next
      <3>2. CASE db = None
        BY <3>1, <3>2 DEF Harmed
      <3>3. CASE db # None
        <4>1. ThingInv
          BY <3>1, <3>3, AfreshRestores DEF AfreshInv
        <4>2. QED
          BY <3>1, <4>1, ThingStep
      <3>4. QED
        BY <3>2, <3>3
    <2>3. QED
      BY <2>1, <2>2
  <1>3. AfreshInv => CoherentAfresh
    <2>1. ASSUME AfreshInv, db = None
          PROVE  CacheCoherent
      BY <2>1 DEF AfreshInv, BaseInv, TypeInv, RowFirst, CacheCoherent, Coherent
    <2>2. ThingInv => CacheCoherent
      BY DEF ThingInv
    <2>3. QED
      BY <2>1, <2>2 DEF AfreshInv, CoherentAfresh
  <1>4. QED
    BY <1>1, <1>2, <1>3, PTL DEF Spec

=============================================================================
