------------------------------ MODULE QueryCache ------------------------------
(***************************************************************************)
(* r2/models/query_cache.py: listings kept as rows of Cassandra, one       *)
(* column per thing, changed by many processes without a lock.             *)
(*                                                                         *)
(* A process opens a CachedQueryMutator, adds insertions and deletions,    *)
(* each stamped when it is added, and sends them together; an insertion    *)
(* may also have the row read, sorted and pruned to MAX_CACHED_ITEMS.      *)
(* Things are numbers, in the order of their fullnames; the sort is on one *)
(* column, descending.                                                     *)
(***************************************************************************)
EXTENDS Integers, Sequences, FiniteSets, FiniteSetsExt, Functions

CONSTANTS
    Things,          \* things, as numbers
    SortValues,      \* values of the sort column
    Gone,            \* the value of a deleted column
    Queries,         \* cached queries
    ModelOf,         \* ModelOf[q]: the column family q is kept in
    ModelOrder,      \* the models in the order a dict of them is iterated in
    Writers,         \* processes
    MaxCachedItems,  \* MAX_CACHED_ITEMS
    PruneSize,       \* int(1.5 * 1 / PRUNE_CHANCE)
    MaxOps,          \* bound: insertions and deletions
    MaxBatch         \* bound: those sent together

ASSUME QueryCacheAssumption ==
    /\ Things \subseteq Nat /\ IsFiniteSet(Things)
    /\ SortValues \subseteq Nat /\ Gone \notin SortValues
    /\ ModelOrder \in Seq(Range(ModelOrder)) /\ ModelOf \in [Queries -> Range(ModelOrder)]
    /\ MaxCachedItems \in Nat \ {0} /\ PruneSize \in Nat \ {0}
    /\ MaxOps \in Nat /\ MaxBatch \in Nat

VARIABLES
    clock,     \* the last timestamp given out
    row,       \* row[q][x]: the column of x, live or deleted
    rowTomb,   \* rowTomb[q]: the time of the last removal of the whole row
    truth,     \* truth[q][x]: the newest insertion or deletion sent
    batch,     \* batch[p]: what p's mutator holds
    toPrune,   \* toPrune[p]: queries p will prune
    fetched,   \* fetched[p][q]: the columns p read to prune
    qcAt,      \* qcAt[p]: where p is
    cut,       \* versions that a prune found beyond MAX_CACHED_ITEMS
    seen,      \* seen[q]: the newest time of a column some prune has read
    late       \* versions stamped before such a time and sent after the read

qcVars == <<clock, row, rowTomb, truth, batch, toPrune, fetched, qcAt, cut, seen, late>>

Column == [ts : Nat, val : SortValues \cup {Gone}]
Op == [query : Queries, thing : Things, ts : Nat, val : SortValues \cup {Gone}]
Version == Queries \X Things \X Nat
Never == [ts |-> 0, val |-> Gone]
Empty == [x \in Things |-> Never]

QueryCacheTypeOK ==
    /\ clock \in Nat
    /\ row \in [Queries -> [Things -> Column]]
    /\ truth \in [Queries -> [Things -> Column]]
    /\ rowTomb \in [Queries -> Nat]
    /\ batch \in [Writers -> Seq(Op)]
    /\ toPrune \in [Writers -> SUBSET Queries]
    /\ fetched \in [Writers -> [Queries -> [Things -> Column]]]
    /\ qcAt \in [Writers -> {"open", "fetch", "prune"}]
    /\ cut \subseteq Version /\ late \subseteq Version
    /\ seen \in [Queries -> Nat]

QueryCacheInit ==
    /\ clock = 0
    /\ row = [q \in Queries |-> Empty]
    /\ truth = [q \in Queries |-> Empty]
    /\ rowTomb = [q \in Queries |-> 0]
    /\ batch = [p \in Writers |-> <<>>]
    /\ toPrune = [p \in Writers |-> {}]
    /\ fetched = [p \in Writers |-> [q \in Queries |-> Empty]]
    /\ qcAt = [p \in Writers |-> "open"]
    /\ cut = {} /\ late = {} /\ seen = [q \in Queries |-> 0]

-----------------------------------------------------------------------------
(* Cassandra                                                               *)

\* The newer of two columns; a deletion wins a tie.
Newer(old, new) ==
    IF new.ts > old.ts \/ (new.ts = old.ts /\ new.val = Gone) THEN new ELSE old

\* A column is read if it is newer than the removal of its row.
Live(q, x) == row[q][x].val # Gone /\ row[q][x].ts > rowTomb[q]

\* Mutator.send: every operation of the batch on its row.  No two have the same
\* timestamp, so that the newest about a thing decides.
Sent(cols, q, ops) ==
    [x \in Things |->
        LET about == {op \in Range(ops) : op.query = q /\ op.thing = x}
            last == CHOOSE op \in about : \A o \in about : o.ts <= op.ts
        IN  IF about = {} THEN cols[x]
            ELSE Newer(cols[x], [ts |-> last.ts, val |-> last.val])]

-----------------------------------------------------------------------------
(* CachedQueryMutator                                                      *)

Enqueue(p, q, x, val) ==
    /\ qcAt[p] = "open"
    /\ clock < MaxOps /\ Len(batch[p]) < MaxBatch
    /\ clock' = clock + 1
    /\ batch' = [batch EXCEPT ![p] =
                   Append(@, [query |-> q, thing |-> x, ts |-> clock', val |-> val])]

\* insert: now and then the query is marked for pruning.
Insert(p, q, x, v) ==
    /\ Enqueue(p, q, x, v)
    /\ \E prune \in BOOLEAN :
         toPrune' = [toPrune EXCEPT ![p] = IF prune THEN @ \cup {q} ELSE @]
    /\ UNCHANGED <<row, rowTomb, truth, fetched, qcAt, cut, seen, late>>

Delete(p, q, x) ==
    /\ Enqueue(p, q, x, Gone)
    /\ UNCHANGED <<row, rowTomb, truth, toPrune, fetched, qcAt, cut, seen, late>>

Send(p) ==
    /\ qcAt[p] = "open"
    /\ batch[p] # <<>>
    /\ row' = [q \in Queries |-> Sent(row[q], q, batch[p])]
    /\ truth' = [q \in Queries |-> Sent(truth[q], q, batch[p])]
    /\ late' = late \cup {<<op.query, op.thing, op.ts>> :
                            op \in {o \in Range(batch[p]) : o.ts < seen[o.query]}}
    /\ batch' = [batch EXCEPT ![p] = <<>>]
    /\ qcAt' = [qcAt EXCEPT ![p] = IF toPrune[p] = {} THEN "open" ELSE "fetch"]
    /\ UNCHANGED <<clock, rowTomb, toPrune, fetched, cut, seen>>

-----------------------------------------------------------------------------
(* Pruning                                                                 *)

Present(cols) == {x \in Things : cols[x].val # Gone}

\* _sort_data: by the sort column, and by column name as Cassandra returns them.
Before(cols, y, x) ==
    cols[y].val > cols[x].val \/ (cols[y].val = cols[x].val /\ y < x)

Position(cols, x) == Cardinality({y \in Present(cols) : Before(cols, y, x)})
Kept(cols) == {x \in Present(cols) : Position(cols, x) < MaxCachedItems}
Overflow(cols) == Present(cols) \ Kept(cols)

\* _fetch_multi: the loop over by_model rebinds "queries", so that only those
\* of the last model are given what was read.
FetchesOf(qs) ==
    LET last == Max({i \in DOMAIN ModelOrder : \E q \in qs : ModelOf[q] = ModelOrder[i]})
    IN  {q \in qs : ModelOf[q] = ModelOrder[last]}

\* q.data: what q is given of the columns that were read.
Data(p, q) == IF q \in FetchesOf(toPrune[p]) THEN fetched[p][q] ELSE Empty

Fetch(p) ==
    /\ qcAt[p] = "fetch"
    /\ fetched' = [fetched EXCEPT ![p] =
                     [q \in Queries |-> [x \in Things |->
                        IF q \in toPrune[p] /\ Live(q, x) THEN row[q][x] ELSE Never]]]
    /\ cut' = cut \cup UNION {{<<q, x, row[q][x].ts>> : x \in Overflow(fetched'[p][q])} :
                                q \in Queries}
    /\ seen' = [q \in Queries |->
                  Max({seen[q]} \cup {fetched'[p][q][x].ts : x \in Things})]
    /\ qcAt' = [qcAt EXCEPT ![p] = "prune"]
    /\ UNCHANGED <<clock, row, rowTomb, truth, batch, toPrune, late>>

OldestKept(cols) == Min({cols[x].ts : x \in Kept(cols)})
FastPrunable(cols) == {x \in Overflow(cols) : cols[x].ts < OldestKept(cols)}

PrunesFast(cols) ==
    LET toPruneN == Cardinality(Overflow(cols))
        fastN == Cardinality(FastPrunable(cols))
    IN  2 * fastN > toPruneN /\ 2 * (toPruneN - fastN) < MaxCachedItems

\* The removal of the row is as old as the newest column it is meant for.
RemovalTime(cols) == Max({cols[x].ts : x \in FastPrunable(cols)})

\* Mutant of RemovedSlowly: one too few.
RemovedTooFew(cols) ==
    {x \in Overflow(cols) :
        Position(cols, x) > Cardinality(Present(cols)) - PruneSize}

\* to_prune[-prune_size:], each removed with the timestamp it was read with.
RemovedSlowly(cols) ==
    {x \in Overflow(cols) :
        Position(cols, x) >= Cardinality(Present(cols)) - PruneSize}

\* Mutant of RemoveIfUnchanged: columns are removed as of now.
RemoveAnyway(cols, read) ==
    [x \in Things |-> IF x \in RemovedSlowly(read)
                      THEN Newer(cols[x], [ts |-> clock, val |-> Gone])
                      ELSE cols[x]]

RemoveIfUnchanged(cols, read) ==
    [x \in Things |-> IF x \in RemovedSlowly(read)
                      THEN Newer(cols[x], [ts |-> read[x].ts, val |-> Gone])
                      ELSE cols[x]]

\* _prune of each query in one mutator, which is then sent.
Prune(p) ==
    /\ qcAt[p] = "prune"
    /\ LET fast(q) == Overflow(Data(p, q)) # {} /\ PrunesFast(Data(p, q))
       IN  /\ rowTomb' = [q \in Queries |->
                            IF fast(q) THEN Max({rowTomb[q], RemovalTime(Data(p, q))})
                            ELSE rowTomb[q]]
           /\ row' = [q \in Queries |->
                        IF fast(q) THEN row[q] ELSE RemoveIfUnchanged(row[q], Data(p, q))]
    /\ toPrune' = [toPrune EXCEPT ![p] = {}]
    /\ fetched' = [fetched EXCEPT ![p] = [q \in Queries |-> Empty]]
    /\ qcAt' = [qcAt EXCEPT ![p] = "open"]
    /\ UNCHANGED <<clock, truth, batch, cut, seen, late>>

QueryCacheNext ==
    \E p \in Writers :
        \/ \E q \in Queries, x \in Things :
              (\E v \in SortValues : Insert(p, q, x, v)) \/ Delete(p, q, x)
        \/ Send(p) \/ Fetch(p) \/ Prune(p)

QueryCacheSpec == QueryCacheInit /\ [][QueryCacheNext]_qcVars

-----------------------------------------------------------------------------
(* Properties                                                              *)

(***************************************************************************)
(* query_cache.py:618 "If the things have been changed since the specified *)
(* timestamps, they will not be removed": what the row shows of a thing is *)
(* the newest change of it, and a thing is missing only if it was deleted, *)
(* or a prune saw this very version of it beyond MAX_CACHED_ITEMS, or it   *)
(* was still in its mutator when a prune read the row with later changes.  *)
(***************************************************************************)
QueryShowsChanges ==
    \A q \in Queries, x \in Things :
        IF Live(q, x) THEN row[q][x] = truth[q][x]
        ELSE truth[q][x].val # Gone => <<q, x, truth[q][x].ts>> \in cut \cup late

(***************************************************************************)
(* query_cache.py:123 "we need to ensure the listing does not grow too     *)
(* large": after a prune more than half of the versions that were read     *)
(* beyond MAX_CACHED_ITEMS, or prune_size of them, are gone from every     *)
(* query that was to be pruned.                                            *)
(***************************************************************************)
PruneShrinks ==
    [][\A p \in Writers, q \in Queries :
         (qcAt[p] = "prune" /\ qcAt'[p] = "open" /\ q \in toPrune[p]) =>
            LET over == Overflow(fetched[p][q])
                gone == {x \in over : row'[q][x] # fetched[p][q][x] \/ ~Live(q, x)'}
            IN  \/ over = {}
                \/ 2 * Cardinality(gone) > Cardinality(over)
                \/ Cardinality(gone) >= PruneSize]_qcVars

=============================================================================
