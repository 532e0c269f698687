--------------------------- MODULE ReentrantLock ---------------------------
(***************************************************************************)
(* What a lock made by g.make_lock promises its callers: a named lock that *)
(* one thread at a time has, that the thread having it may enter again,    *)
(* and that becomes free only when the outermost block is left (or the     *)
(* thread's process dies).                                                 *)
(***************************************************************************)
EXTENDS Naturals

CONSTANTS Threads, Keys, None

VARIABLES
    owner,   \* owner[k]: the thread inside a block on k, or None
    depth    \* depth[k]: how many nested blocks on k that thread is inside

lockVars == <<owner, depth>>

Init ==
    /\ owner = [k \in Keys |-> None]
    /\ depth = [k \in Keys |-> 0]

Enter(t, k) ==
    /\ owner[k] \in {None, t}
    /\ owner' = [owner EXCEPT ![k] = t]
    /\ depth' = [depth EXCEPT ![k] = @ + 1]

Leave(t, k) ==
    /\ owner[k] = t
    /\ depth' = [depth EXCEPT ![k] = @ - 1]
    /\ owner' = [owner EXCEPT ![k] = IF depth[k] = 1 THEN None ELSE t]

Die(t) ==
    /\ owner' = [k \in Keys |-> IF owner[k] = t THEN None ELSE owner[k]]
    /\ depth' = [k \in Keys |-> IF owner[k] = t THEN 0 ELSE depth[k]]

Next ==
    \E t \in Threads :
        \/ \E k \in Keys : Enter(t, k) \/ Leave(t, k)
        \/ Die(t)

Spec == Init /\ [][Next]_lockVars

=============================================================================
