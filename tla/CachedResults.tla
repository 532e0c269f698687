---------------------------- MODULE CachedResults ----------------------------
(***************************************************************************)
(* CachedResults (r2/lib/db/queries.py), one precomputed listing kept in   *)
(* the Permacache (r2/lib/cache.py): a Cassandra row with memcached in     *)
(* front of it.  The local cache of the chain is reset for every request   *)
(* and message, and none of them reads the listing twice.                  *)
(*                                                                         *)
(* Processes insert and delete things and recompute the listing; readers   *)
(* fetch it and fill the caches after a miss.  A listing is the set of its *)
(* tuples: the sort columns end with the date, so they order it totally.   *)
(***************************************************************************)
EXTENDS Integers, FiniteSets

CONSTANTS
    CRThings,    \* things, numbered by date
    CRValues,    \* values of the sort column
    CRProcs,     \* processes
    PrecomputeLimits,  \* possible values of g.precompute_limit
    Missing,     \* no value in a cache or a row
    MaxMutations,  \* bound: insertions, deletions and recomputations
    MaxReads,    \* bound: fetches
    MaxCRFaults  \* bound: evictions and crashes

ASSUME CachedResultsAssumption ==
    /\ CRThings \subseteq Nat /\ CRValues \subseteq Nat
    /\ Missing \notin CRProcs /\ \A s \in SUBSET [x : CRThings, v : CRValues] : s # Missing
    /\ PrecomputeLimits \subseteq Nat \ {0, 1}
    /\ MaxMutations \in Nat /\ MaxReads \in Nat /\ MaxCRFaults \in Nat

Tuples == [x : CRThings, v : CRValues]
NoItem == [kind |-> "none", x |-> 0, v |-> 0]

VARIABLES
    limit,     \* precompute_limit
    cass,      \* the row in Cassandra: a set of tuples, or Missing
    memcached, \* the value in memcached
    mutateLock,  \* who holds the lock "mutate_<iden>"
    crAt,      \* crAt[p]: where p is
    call,      \* call[p]: what p was called for
    value,     \* value[p]: what p has read or computed
    current,   \* the things that belong in the listing, with their values
    dropped,   \* some thing was deleted, or its value became smaller
    ever,      \* things that were ever inserted
    poisoned,  \* a cache or the row was given an outdated value (see below)
    mutations, reads, crFaults  \* against the bounds

crCaches == <<cass, memcached>>
crGhosts == <<current, dropped, ever, poisoned>>
crBounds == <<mutations, reads, crFaults>>
crVars == <<limit, crCaches, mutateLock, crAt, call, value, crGhosts, crBounds>>

CRTypeOK ==
    /\ limit \in PrecomputeLimits
    /\ cass \in (SUBSET Tuples) \cup {Missing}
    /\ memcached \in (SUBSET Tuples) \cup {Missing}
    /\ mutateLock \in CRProcs \cup {Missing}
    /\ crAt \in [CRProcs -> {"idle", "lock", "read", "write", "cache", "backend", "fill",
                             "set", "setcache"}]
    /\ call \in [CRProcs -> [kind : {"none", "insert", "delete", "replace", "update",
                                     "pessimistic"},
                             x : Nat, v : Nat]]
    /\ \A p \in CRProcs : crAt[p] = "idle" => call[p] = NoItem
    /\ value \in [CRProcs -> (SUBSET Tuples) \cup {Missing}]
    /\ current \subseteq Tuples /\ ever \subseteq CRThings
    /\ dropped \in BOOLEAN /\ poisoned \in BOOLEAN
    /\ mutations \in 0..MaxMutations /\ reads \in 0..MaxReads /\ crFaults \in 0..MaxCRFaults

CRInit ==
    /\ limit \in PrecomputeLimits
    /\ cass = Missing /\ memcached = Missing
    /\ mutateLock = Missing
    /\ crAt = [p \in CRProcs |-> "idle"]
    /\ call = [p \in CRProcs |-> NoItem]
    /\ value = [p \in CRProcs |-> Missing]
    /\ current = {} /\ dropped = FALSE /\ ever = {} /\ poisoned = FALSE
    /\ mutations = 0 /\ reads = 0 /\ crFaults = 0

CRGoto(p, place) == crAt' = [crAt EXCEPT ![p] = place]

\* Mutant of CRReturn: the call is not forgotten.
CRReturnKept(p) ==
    /\ CRGoto(p, "idle")
    /\ value' = [value EXCEPT ![p] = Missing]
    /\ UNCHANGED call

CRReturn(p) ==
    /\ CRGoto(p, "idle")
    /\ call' = [call EXCEPT ![p] = NoItem]
    /\ value' = [value EXCEPT ![p] = Missing]

-----------------------------------------------------------------------------
(* The mutations                                                           *)

AtLeast(a, b) == a.v > b.v \/ (a.v = b.v /\ a.x >= b.x)
Names(data) == {d.x : d \in data}
Without(data, x) == {d \in data : d.x # x}
Smallest(data) == CHOOSE d \in data : \A e \in data : AtLeast(e, d)
Rank(data, d) == Cardinality({e \in data : AtLeast(e, d)})
TopOf(data, n) == {d \in data : Rank(data, d) <= n}

\* A mutation function is given None where there is no value.
ListingOf(val) == IF val = Missing THEN {} ELSE val

\* Mutant of Refused: a full listing takes no new thing.
RefusedWhenFull(data, new) ==
    /\ Cardinality(Names(data) \cup {new.x}) >= limit
    /\ data # {}
    /\ new.x \notin Names(data)

\* _insert_tuples: items that would be truncated at once are left out.
Refused(data, new) ==
    /\ Cardinality(Names(data) \cup {new.x}) >= limit
    /\ data # {}
    /\ new.x \notin Names(data)
    /\ ~AtLeast(new, Smallest(data))

Inserted(data, new) ==
    IF Refused(data, new) THEN data
    ELSE TopOf(Without(data, new.x) \cup {new}, limit)

Mutation(p) ==
    LET c == call[p]
    IN  CASE c.kind = "insert" -> Inserted(ListingOf(value[p]), [x |-> c.x, v |-> c.v])
          [] c.kind = "delete" -> Without(ListingOf(value[p]), c.x)
          [] OTHER -> ListingOf(value[p])

-----------------------------------------------------------------------------
(* Permacache.mutate                                                       *)

Called(p, c) ==
    /\ crAt[p] = "idle"
    /\ mutations < MaxMutations
    /\ mutations' = mutations + 1
    /\ call' = [call EXCEPT ![p] = c]

\* One process at a time works on a thing: so it is while one consumer has the
\* thing's queue, and not when a request changes the listing beside it.
NoneAbout(x) == \A p \in CRProcs : call[p].kind = "none" \/ call[p].x # x

\* A recomputation has run its query and not yet stored the result.
Recomputing == \E p \in CRProcs : call[p].kind \in {"replace", "update", "pessimistic"}

CallInsert(p, x, v) ==
    /\ Called(p, [kind |-> "insert", x |-> x, v |-> v])
    /\ current' = Without(current, x) \cup {[x |-> x, v |-> v]}
    /\ dropped' = (dropped \/ \E d \in current : d.x = x /\ d.v > v)
    /\ ever' = ever \cup {x}
    /\ poisoned' = (poisoned \/ Recomputing \/ ~NoneAbout(x))
    /\ CRGoto(p, "lock")
    /\ UNCHANGED <<crCaches, mutateLock, value, reads, crFaults>>

CallDelete(p, x) ==
    /\ x \in Names(current)
    /\ Called(p, [kind |-> "delete", x |-> x, v |-> 0])
    /\ current' = Without(current, x)
    /\ dropped' = TRUE
    /\ poisoned' = (poisoned \/ Recomputing \/ ~NoneAbout(x))
    /\ CRGoto(p, "lock")
    /\ UNCHANGED <<crCaches, mutateLock, value, ever, reads, crFaults>>

\* Mutant of TakeMutateLock: two processes in the block at a time.
NoMutateLock(p) ==
    /\ crAt[p] = "lock"
    /\ mutateLock' = p
    /\ CRGoto(p, IF call[p].kind = "replace" THEN "write" ELSE "read")
    /\ UNCHANGED <<crCaches, call, value, crGhosts, crBounds>>

TakeMutateLock(p) ==
    /\ crAt[p] = "lock"
    /\ mutateLock = Missing
    /\ mutateLock' = p
    /\ CRGoto(p, IF call[p].kind = "replace" THEN "write" ELSE "read")
    /\ UNCHANGED <<crCaches, call, value, crGhosts, crBounds>>

MutateRead(p) ==
    /\ crAt[p] = "read"
    /\ value' = [value EXCEPT ![p] = IF memcached = Missing THEN cass ELSE memcached]
    /\ CRGoto(p, "write")
    /\ UNCHANGED <<cass, memcached, mutateLock, call, crGhosts, crBounds>>

\* Cassandra is written only if the mutation has changed anything.
MutateWrite(p) ==
    /\ crAt[p] = "write"
    /\ cass' = IF call[p].kind = "replace" \/ value[p] # Mutation(p) THEN Mutation(p) ELSE cass
    /\ value' = [value EXCEPT ![p] = Mutation(p)]
    /\ CRGoto(p, "cache")
    /\ UNCHANGED <<memcached, mutateLock, call, crGhosts, crBounds>>

MutateCache(p) ==
    /\ crAt[p] = "cache"
    /\ memcached' = value[p]
    /\ mutateLock' = Missing
    /\ CRReturn(p)
    /\ UNCHANGED <<cass, crGhosts, crBounds>>

-----------------------------------------------------------------------------
(* Recomputations                                                          *)

\* The query is run first; what is called meanwhile is overwritten.
Recompute(p, kind) ==
    /\ Called(p, [kind |-> kind, x |-> 0, v |-> 0])
    /\ value' = [value EXCEPT ![p] = TopOf(current, limit)]
    /\ CRGoto(p, IF kind = "replace" THEN "lock" ELSE "set")
    /\ poisoned' = (poisoned \/ \E q \in CRProcs : call[q].kind # "none")
    /\ UNCHANGED <<crCaches, mutateLock, current, dropped, ever, reads, crFaults>>

\* Permacache.set and pessimistically_set take no lock.
BackendSet(p) ==
    /\ crAt[p] = "set"
    /\ cass' = value[p]
    /\ CRGoto(p, "setcache")
    /\ UNCHANGED <<memcached, mutateLock, call, value, crGhosts, crBounds>>

\* Mutant of SetOrDelete: the cached listing stays.
SetOrKeep(p) ==
    /\ crAt[p] = "setcache"
    /\ memcached' = IF call[p].kind = "update" THEN value[p] ELSE memcached
    /\ CRReturn(p)
    /\ UNCHANGED <<cass, mutateLock, crGhosts, crBounds>>

SetOrDelete(p) ==
    /\ crAt[p] = "setcache"
    /\ memcached' = IF call[p].kind = "update" THEN value[p] ELSE Missing
    /\ CRReturn(p)
    /\ UNCHANGED <<cass, mutateLock, crGhosts, crBounds>>

-----------------------------------------------------------------------------
(* Permacache.get and get_multi                                            *)

\* get_multi reads every key from Cassandra when any is missing from the
\* caches, so this one may be read, and set, even if memcached has it.
FetchListing(p) ==
    /\ crAt[p] = "idle"
    /\ reads < MaxReads
    /\ reads' = reads + 1
    /\ CRGoto(p, "backend")
    /\ UNCHANGED <<crCaches, mutateLock, call, value, crGhosts, mutations, crFaults>>

BackendGet(p) ==
    /\ crAt[p] = "backend"
    /\ value' = [value EXCEPT ![p] = cass]
    /\ CRGoto(p, IF cass = Missing THEN "idle" ELSE "fill")
    /\ UNCHANGED <<crCaches, mutateLock, call, crGhosts, crBounds>>

Fill(p) ==
    /\ crAt[p] = "fill"
    /\ memcached' = value[p]
    /\ poisoned' = (poisoned \/ value[p] # cass)
    /\ CRReturn(p)
    /\ UNCHANGED <<cass, mutateLock, current, dropped, ever, crBounds>>

-----------------------------------------------------------------------------
(* The environment                                                         *)

CRFault == crFaults < MaxCRFaults /\ crFaults' = crFaults + 1

EvictListing ==
    /\ memcached # Missing
    /\ CRFault
    /\ memcached' = Missing
    /\ UNCHANGED <<cass, mutateLock, crAt, call, value, crGhosts, mutations, reads>>

\* A process dies and its lock expires; what it was called for is called
\* again, unless it has left memcached behind Cassandra.
CRCrash(p) ==
    /\ crAt[p] \notin {"idle", "backend", "fill"}
    /\ CRFault
    /\ poisoned' = (poisoned \/ crAt[p] \in {"cache", "setcache"})
    /\ mutateLock' = IF mutateLock = p THEN Missing ELSE mutateLock
    /\ CRGoto(p, IF call[p].kind \in {"insert", "delete", "replace"} THEN "lock" ELSE "set")
    /\ UNCHANGED <<cass, memcached, call, value, current, dropped, ever, mutations, reads>>

CRStep(p) ==
    \/ TakeMutateLock(p) \/ MutateRead(p) \/ MutateWrite(p) \/ MutateCache(p)
    \/ BackendSet(p) \/ SetOrDelete(p) \/ BackendGet(p) \/ Fill(p)

CRNext ==
    /\ \/ \E p \in CRProcs :
           \/ \E x \in CRThings : (\E v \in CRValues : CallInsert(p, x, v)) \/ CallDelete(p, x)
           \/ \E kind \in {"replace", "update", "pessimistic"} : Recompute(p, kind)
           \/ CRStep(p) \/ FetchListing(p) \/ CRCrash(p)
       \/ EvictListing
    /\ UNCHANGED limit

CRSpec == CRInit /\ [][CRNext]_crVars

-----------------------------------------------------------------------------
(* Properties                                                              *)

CRQuiet == \A p \in CRProcs : call[p].kind = "none"

(***************************************************************************)
(* cache.py:990 "Mutate a Cassandra key as atomically as possible": every  *)
(* insertion and deletion is in the stored listing once its call is over,  *)
(* with the last value of each thing, as long as the things fit below      *)
(* precompute_limit.  Not promised once an old value was put over a newer  *)
(* one, which the code lets happen in four ways: a reader fills memcached  *)
(* with what it has read before a mutation (cache.py:981), a process dies  *)
(* between Cassandra and memcached (cache.py:1006), the listing is         *)
(* recomputed while it is being changed (queries.py:284), or two processes *)
(* insert or delete one thing at a time, each with the value it has loaded *)
(* (add_queries in a request, beside the query queues of the votes).       *)
(***************************************************************************)
ListingComplete ==
    (CRQuiet /\ ~poisoned /\ Cardinality(ever) < limit) => ListingOf(cass) = current

(***************************************************************************)
(* _insert_tuples may leave out or truncate things, but while values only  *)
(* grow and nothing is deleted the best precompute_limit - 1 are there.    *)
(***************************************************************************)
ListingBest ==
    (CRQuiet /\ ~poisoned /\ ~dropped) => TopOf(current, limit - 1) \subseteq ListingOf(cass)

(***************************************************************************)
(* Between calls memcached holds what Cassandra holds, or nothing: evicted *)
(* values, fills and pessimistically_set do not bring back an older one.   *)
(***************************************************************************)
MemcachedFollows ==
    (CRQuiet /\ ~poisoned) => memcached \in {Missing, cass}

(***************************************************************************)
(* Both copies of a listing are right between calls: the one in Cassandra  *)
(* has every insertion and deletion, and memcached holds no other.         *)
(***************************************************************************)
ListingStored == ListingComplete /\ MemcachedFollows

=============================================================================
