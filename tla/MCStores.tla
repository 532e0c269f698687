------------------------------ MODULE MCStores ------------------------------
(* Six stores that share no state, checked side by side: cached queries,   *)
(* the counts of a rate limit, a precomputed listing, memoized results, a  *)
(* wiki page and a promoted link.  Each behaviour is one of them, and the  *)
(* others rest.                                                            *)
EXTENDS QueryCache, RateLimit, CachedResults, Memoize, Wiki, Promote, TLC

CONSTANT camp2  \* a campaign of the promoted link

VARIABLE store

OneModel == [q \in Queries |-> "UserQueryCache"]
Models == <<"UserQueryCache", "SubredditQueryCache">>

\* The two processes of each store are alike, and have the same names in all.
Alike == Permutations(Web)

StoresInit ==
    /\ store \in {"query", "ratelimit", "listing", "memo", "wiki", "promoted"}
    /\ QueryCacheInit /\ RateLimitInit /\ CRInit /\ MemoizeInit /\ WikiInit /\ PromoteInit
    /\ store # "ratelimit" => protocol = CHOOSE p \in Protocols : TRUE
    /\ store # "listing" => limit = CHOOSE n \in PrecomputeLimits : TRUE

Working == {p \in Procs : ~Idle(p)}
Created == {c \in Campaigns : camps[c].state # "none"}

\* A link with one campaign and two processes at work, or the other way round.
\* The campaigns are alike; camp2 is the second, created with the other one or when
\* the link is finished.  None is created empty, though an edit may leave one so.  A
\* link that was changed since its acceptance counts as one request more.
PromoteStep ==
    /\ PromoteNext
    /\ promoRequests' + promoFaults' + (IF edited' THEN 1 ELSE 0) <= 3
    /\ \A c \in Created' \ Created : camps'[c].start < camps'[c].end
    /\ Cardinality(Working') + Cardinality(Created') <= 3
    /\ camp2 \in Created' => Created' = Campaigns
    /\ camp2 \in Created' \ Created => day + promoRequests = 0 \/ status = "finished"

\* One thing has different values, and comes before and after the others.
ListingStep ==
    /\ CRNext
    /\ \A p \in CRProcs : call'[p].kind = "insert" /\ call'[p].x # 2 => call'[p].v = 1

QueryStep ==
    /\ QueryCacheNext
    /\ \A p \in Writers : \A op \in Range(batch'[p]) : op.thing # 2 => op.val \in {1, Gone}

\* A revision is hidden, or a request dies.
WikiStep == WikiNext /\ deletions' + wikiCrashes' <= 1

StoresNext ==
    /\ \/ /\ store = "query" /\ QueryStep
          /\ UNCHANGED <<rlVars, crVars, memoVars, wikiVars, promoVars>>
       \/ /\ store = "ratelimit" /\ RateLimitNext
          /\ UNCHANGED <<qcVars, crVars, memoVars, wikiVars, promoVars>>
       \/ /\ store = "listing" /\ ListingStep
          /\ UNCHANGED <<qcVars, rlVars, memoVars, wikiVars, promoVars>>
       \/ /\ store = "memo" /\ MemoizeNext
          /\ UNCHANGED <<qcVars, rlVars, crVars, wikiVars, promoVars>>
       \/ /\ store = "wiki" /\ WikiStep
          /\ UNCHANGED <<qcVars, rlVars, crVars, memoVars, promoVars>>
       \/ /\ store = "promoted" /\ PromoteStep
          /\ UNCHANGED <<qcVars, rlVars, crVars, memoVars, wikiVars>>
    /\ UNCHANGED store

StoresSpec ==
    /\ StoresInit
    /\ [][StoresNext]_<<store, qcVars, rlVars, crVars, memoVars, wikiVars, promoVars>>

(***************************************************************************)
(* The state of each store stays within its type, and a process that has   *)
(* returned from a call remembers nothing of it.                           *)
(***************************************************************************)
StoresTypeOK ==
    /\ QueryCacheTypeOK /\ RateLimitTypeOK /\ CRTypeOK /\ MemoizeTypeOK /\ WikiTypeOK
    /\ PromoteTypeOK
=============================================================================
