------------------------------ MODULE RateLimit ------------------------------
(***************************************************************************)
(* r2/lib/ratelimit.py: one rate limit, counted per slice of time in       *)
(* g.ratelimitcache, a chain of a cache local to the request and memcached.*)
(*                                                                         *)
(* Its users follow one of three protocols: "check" first and record after *)
(* the deed (VRatelimitImproved), look at the "count" that record_usage    *)
(* returns (the site-wide limits of reddit_base.py), or "record_and_check" *)
(* (SimpleRateLimit).  The key of a slice shorter than a day is its time   *)
(* of day, so it comes back after RLDay slices.                            *)
(***************************************************************************)
EXTENDS Integers, FiniteSets

CONSTANTS
    Requests,   \* requests in progress at one time
    RLLimit,    \* limit
    RLSeconds,  \* seconds: the length of a slice
    RLDay,      \* slices in a day
    Protocols,  \* protocols in use
    MaxTime,    \* bound: seconds
    MaxUses,    \* bound: requests
    MaxEvicts   \* bound: evictions from memcached

ASSUME RateLimitAssumption ==
    /\ IsFiniteSet(Requests)
    /\ RLLimit \in Nat \ {0} /\ RLSeconds \in Nat \ {0} /\ RLDay \in Nat \ {0, 1}
    /\ Protocols \subseteq {"check", "count", "record_and_check"}
    /\ MaxTime \in Nat /\ MaxUses \in Nat /\ MaxEvicts \in Nat

VARIABLES
    protocol,  \* the one the limit is used with
    now,       \* time.time()
    mc,        \* mc[k]: memcached's [count, expires]
    local,     \* local[p][k]: the count in p's local cache, or Absent
    slice,     \* slice[p]: the time slice p records in
    rlAt,      \* rlAt[p]: where p is
    reported,  \* reported[p]: what record_usage returned
    used,      \* used[s]: usages recorded in slice s
    admitted,  \* admitted[s]: requests let through while slice s lasted
    immortal,  \* an entry was added with no expiration
    uses, evicts  \* against the bounds

rlVars == <<protocol, now, mc, local, slice, rlAt, reported, used, admitted, immortal,
            uses, evicts>>

Slices == 0..(MaxTime \div RLSeconds)
TimesOfDay == 0..(RLDay - 1)
Forever == MaxTime + RLSeconds + 2
Absent == -1
Nothing == [count |-> 0, expires |-> 0]

\* get_timeslice and _make_ratelimit_cache_key
SliceAt(t) == t \div RLSeconds
SliceEnd(s) == (s + 1) * RLSeconds
KeyOf(s) == s % RLDay

RateLimitTypeOK ==
    /\ protocol \in Protocols
    /\ now \in 0..MaxTime
    /\ mc \in [TimesOfDay -> [count : Nat, expires : 0..Forever]]
    /\ local \in [Requests -> [TimesOfDay -> Nat \cup {Absent}]]
    /\ slice \in [Requests -> Slices]
    /\ rlAt \in [Requests -> {"idle", "check", "slice", "add", "incr", "readd", "recheck"}]
    /\ reported \in [Requests -> Nat]
    /\ used \in [Slices -> Nat] /\ admitted \in [Slices -> Nat]
    /\ immortal \in BOOLEAN
    /\ uses \in 0..MaxUses /\ evicts \in 0..MaxEvicts

RateLimitInit ==
    /\ protocol \in Protocols
    /\ now = 0
    /\ mc = [k \in TimesOfDay |-> Nothing]
    /\ local = [p \in Requests |-> [k \in TimesOfDay |-> Absent]]
    /\ slice = [p \in Requests |-> 0]
    /\ rlAt = [p \in Requests |-> "idle"]
    /\ reported = [p \in Requests |-> 0]
    /\ used = [s \in Slices |-> 0]
    /\ admitted = [s \in Slices |-> 0]
    /\ immortal = FALSE
    /\ uses = 0 /\ evicts = 0

-----------------------------------------------------------------------------
(* The cache chain                                                         *)

Stored(k) == mc[k].expires > now

\* CacheChain.get: the first cache that has the key; memcached's value is
\* copied to the local cache.
Usage(p, k) ==
    IF local[p][k] # Absent THEN local[p][k]
    ELSE IF Stored(k) THEN mc[k].count ELSE Absent

LocalAdd(p, k, n) ==
    local' = [local EXCEPT ![p][k] = IF @ = Absent THEN n ELSE @]

\* Mutant of McAdd: the entry has no TTL.
McAddForever(k, n, ttl) ==
    /\ mc' = IF Stored(k) THEN mc ELSE [mc EXCEPT ![k] = [count |-> n, expires |-> Forever]]
    /\ UNCHANGED immortal

\* A TTL of zero means that the entry does not expire.
McAdd(k, n, ttl) ==
    /\ mc' = IF Stored(k) THEN mc
             ELSE [mc EXCEPT ![k] = [count |-> n,
                                     expires |-> IF ttl = 0 THEN Forever ELSE now + ttl]]
    /\ immortal' = (immortal \/ (ttl = 0 /\ ~Stored(k)))

-----------------------------------------------------------------------------
(* A request                                                               *)

Goto(p, place) == rlAt' = [rlAt EXCEPT ![p] = place]

\* reset_caches, and the protocol's first call.
Arrive(p) ==
    /\ rlAt[p] = "idle"
    /\ uses < MaxUses
    /\ uses' = uses + 1
    /\ local' = [local EXCEPT ![p] = [k \in TimesOfDay |-> Absent]]
    /\ reported' = [reported EXCEPT ![p] = 0]
    /\ Goto(p, IF protocol = "check" THEN "check" ELSE "slice")
    /\ UNCHANGED <<protocol, now, mc, slice, used, admitted, immortal, evicts>>

\* Mutant of BelowLimit: off by one.
UpToLimit(usage) == usage = Absent \/ usage <= RLLimit

\* RateLimit.check: below the limit, or not counted at all.
BelowLimit(usage) == usage = Absent \/ usage < RLLimit

Admit(s, yes) ==
    admitted' = IF yes /\ now < SliceEnd(s) THEN [admitted EXCEPT ![s] = @ + 1]
                ELSE admitted

Check(p) ==
    /\ rlAt[p] \in {"check", "recheck"}
    /\ LET s == SliceAt(now)
           usage == Usage(p, KeyOf(s))
       IN  /\ local' = [local EXCEPT ![p][KeyOf(s)] = usage]
           /\ Admit(s, BelowLimit(usage))
           /\ Goto(p, IF rlAt[p] = "check" /\ BelowLimit(usage) THEN "slice" ELSE "idle")
    /\ UNCHANGED <<protocol, now, mc, slice, reported, used, immortal, uses, evicts>>

GetTimeslice(p) ==
    /\ rlAt[p] = "slice"
    /\ slice' = [slice EXCEPT ![p] = SliceAt(now)]
    /\ Goto(p, "add")
    /\ UNCHANGED <<protocol, now, mc, local, reported, used, admitted, immortal, uses, evicts>>

\* record_usage: add(key, 0, time=time_slice.remaining).
Add(p) ==
    /\ rlAt[p] = "add"
    /\ LocalAdd(p, KeyOf(slice[p]), 0)
    /\ LET remaining == SliceEnd(slice[p]) - now
       IN  \/ /\ remaining >= 0
              /\ McAdd(KeyOf(slice[p]), 0, remaining)
              /\ Goto(p, "incr")
           \/ /\ remaining < 0  \* "Rejecting negative TTL": the request fails
              /\ Goto(p, "idle")
              /\ UNCHANGED <<mc, immortal>>
    /\ UNCHANGED <<protocol, now, slice, reported, used, admitted, uses, evicts>>

\* What the protocol does with the usage that was recorded.
Recorded(p, n) ==
    /\ reported' = [reported EXCEPT ![p] = n]
    /\ used' = [used EXCEPT ![slice[p]] = @ + 1]
    /\ Admit(slice[p], protocol = "count" /\ n < RLLimit)
    /\ Goto(p, IF protocol = "record_and_check" THEN "recheck" ELSE "idle")

LocalIncr(p, k) ==
    local' = [local EXCEPT ![p][k] = IF @ = Absent THEN Absent ELSE @ + 1]

Incr(p) ==
    /\ rlAt[p] = "incr"
    /\ LocalIncr(p, KeyOf(slice[p]))
    /\ LET k == KeyOf(slice[p])
       IN  \/ /\ Stored(k)
              /\ mc' = [mc EXCEPT ![k].count = @ + 1]
              /\ Recorded(p, mc[k].count + 1)
           \/ /\ ~Stored(k)  \* NotFound
              /\ Goto(p, "readd")
              /\ UNCHANGED <<mc, reported, used, admitted>>
    /\ UNCHANGED <<protocol, now, slice, immortal, uses, evicts>>

\* "Previous round of ratelimiting fell out": add 1 if the slice still lasts.
Readd(p) ==
    /\ rlAt[p] = "readd"
    /\ IF now < SliceEnd(slice[p])
       THEN /\ LocalAdd(p, KeyOf(slice[p]), 1)
            /\ McAdd(KeyOf(slice[p]), 1, SliceEnd(slice[p]) - now + 1)
       ELSE UNCHANGED <<local, mc, immortal>>
    /\ Recorded(p, 1)
    /\ UNCHANGED <<protocol, now, slice, uses, evicts>>

\* A request does not last until the key of its slice comes back.
Tick ==
    /\ now < MaxTime
    /\ \A p \in Requests :
         rlAt[p] \in {"add", "incr", "readd"} => SliceAt(now + 1) < slice[p] + RLDay
    /\ now' = now + 1
    /\ mc' = [k \in TimesOfDay |-> IF mc[k].expires > now' THEN mc[k] ELSE Nothing]
    /\ UNCHANGED <<protocol, local, slice, rlAt, reported, used, admitted, immortal,
                   uses, evicts>>

Evict(k) ==
    /\ Stored(k)
    /\ evicts < MaxEvicts
    /\ evicts' = evicts + 1
    /\ mc' = [mc EXCEPT ![k] = Nothing]
    /\ UNCHANGED <<protocol, now, local, slice, rlAt, reported, used, admitted, immortal, uses>>

RateLimitNext ==
    \/ \E p \in Requests :
         Arrive(p) \/ Check(p) \/ GetTimeslice(p) \/ Add(p) \/ Incr(p) \/ Readd(p)
    \/ Tick
    \/ \E k \in TimesOfDay : Evict(k)

RateLimitSpec == RateLimitInit /\ [][RateLimitNext]_rlVars

-----------------------------------------------------------------------------
(* Properties                                                              *)

\* How far requests that run at the same time may exceed the limit.
Slack == IF protocol = "check" THEN Cardinality(Requests) ELSE 0

(***************************************************************************)
(* ratelimit.py:257 "Check that the usage in the current timeslice is      *)
(* below the limit": in every slice fewer requests than the limit are let  *)
(* through, but for those that run at the same time when the usage is only *)
(* recorded afterwards, and for counts that were evicted.                  *)
(***************************************************************************)
LimitHolds ==
    evicts = 0 => \A s \in Slices : admitted[s] < RLLimit + Slack

(***************************************************************************)
(* ratelimit.py:90 "The total usage (including this one) of the ratelimit  *)
(* is returned": never more than what was used in this very slice, whatever*)
(* was counted under the same key the day before; unless the first usage   *)
(* of a slice was recorded at the moment it ended, with a TTL of zero.     *)
(***************************************************************************)
UsageIsOfSlice ==
    ~immortal => \A p \in Requests : reported[p] <= used[slice[p]]

(***************************************************************************)
(* Rate limits as check, record_usage and get_usage keep them: requests    *)
(* are admitted up to the limit, by a count that is of the slice.          *)
(***************************************************************************)
RateLimitExact == LimitHolds /\ UsageIsOfSlice

=============================================================================
