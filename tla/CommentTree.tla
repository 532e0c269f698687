------------------------------ MODULE CommentTree ------------------------------
(***************************************************************************)
(* The comment tree of one link: r2/models/comment_tree.py on top of       *)
(* Permacache (r2/lib/cache.py), with the processes that consume           *)
(* commentstree_q, page views that read the tree, and the batch job that   *)
(* rebuilds it.                                                            *)
(*                                                                         *)
(* The tree is a dict of parent to children; parents never change, so it   *)
(* is the set of the comments in it.  Permacache keeps it in Cassandra, in *)
(* memcached and in a local cache each process empties between messages.   *)
(* The lock is MemcacheLock at the level of ReentrantLock.                 *)
(***************************************************************************)
EXTENDS Naturals, FiniteSets, Sequences

LOCAL INSTANCE SequencesExt

CONSTANTS
    Comments,    \* comments that will be posted
    Parent,      \* Parent[c]: the comment c replies to, or None
    Consumers,   \* processes consuming commentstree_q
    Readers,     \* app server processes showing the link
    Rebuilders,  \* processes running CommentTree.rebuild
    None,
    Limit,       \* messages handle_items collects for one call
    MaxFaults,   \* bound: failures of the kinds in Faults
    Faults       \* what may go wrong

Procs == Consumers \cup Readers \cup Rebuilders
FaultKinds == {"crash", "windowcrash", "expire", "evict", "again", "rebuild"}

ASSUME CommentTreeAssumption ==
    /\ Parent \in [Comments -> Comments \cup {None}]
    /\ None \notin Comments /\ \A t \in SUBSET Comments : None # t
    /\ None \notin Procs /\ "dead" \notin Procs
    /\ Consumers \cap (Readers \cup Rebuilders) = {}
    /\ Readers \cap Rebuilders = {}
    /\ Limit \in Nat \ {0} /\ MaxFaults \in Nat
    /\ Faults \subseteq FaultKinds

VARIABLES
    posted,   \* comments in postgres
    queue,    \* commentstree_q
    backend,  \* the tree in Cassandra
    cache,    \* the tree in memcached, or None
    local,    \* local[p]: the tree in p's local cache, or None
    lock,     \* holder of "comment_lock_<link>", "dead" or None
    pc,       \* pc[p]: where p is
    next,     \* next[p]: where p goes on after permacache.get
    batch,    \* batch[p]: the comments p is adding, or rebuilding the tree from
    tree,     \* tree[p]: the tree p has in hand
    faults,   \* failures so far, against MaxFaults
    harm      \* what has happened that the code does not guard against

vars == <<posted, queue, backend, cache, local, lock, pc, next, batch, tree, faults, harm>>

Tree == SUBSET Comments
PCs == {"idle", "get", "backend", "fill", "lock", "add", "write", "writecache",
        "unlock", "ack"}

TypeOK ==
    /\ posted \subseteq Comments
    /\ queue \in Seq(Comments)
    /\ backend \in Tree
    /\ cache \in Tree \cup {None}
    /\ local \in [Procs -> Tree \cup {None}]
    /\ lock \in Procs \cup {"dead", None}
    /\ pc \in [Procs -> PCs]
    /\ next \in [Procs -> {"lock", "add", "idle"}]
    /\ batch \in [Procs -> Seq(Comments)]
    /\ \A p \in Procs : pc[p] = "idle" => batch[p] = <<>>
    /\ tree \in [Procs -> Tree]
    /\ faults \in Nat
    /\ harm \subseteq {"rebuild", "evict", "expire"}

\* on_new_link has stored an empty tree.
Init ==
    /\ posted = {}
    /\ queue = <<>>
    /\ backend = {}
    /\ cache = {}
    /\ local = [p \in Procs |-> None]
    /\ lock = None
    /\ pc = [p \in Procs |-> "idle"]
    /\ next = [p \in Procs |-> "idle"]
    /\ batch = [p \in Procs |-> <<>>]
    /\ tree = [p \in Procs |-> {}]
    /\ faults = 0
    /\ harm = {}

Goto(p, label) == pc' = [pc EXCEPT ![p] = label]

Fault(kind) ==
    /\ kind \in Faults
    /\ faults < MaxFaults
    /\ faults' = faults + 1

-----------------------------------------------------------------------------
(* The queue                                                               *)

\* new_comment
Post(c) ==
    /\ c \notin posted
    /\ Parent[c] \in posted \cup {None}
    /\ posted' = posted \cup {c}
    /\ queue' = Append(queue, c)
    /\ UNCHANGED <<backend, cache, local, lock, pc, next, batch, tree, faults, harm>>

\* A vote on a comment queues it once more for its scores.
VoteAgain(c) ==
    /\ c \in posted
    /\ Fault("again")
    /\ queue' = Append(queue, c)
    /\ UNCHANGED <<posted, backend, cache, local, lock, pc, next, batch, tree, harm>>

\* handle_items collects messages and empties the local caches; add_comments
\* then reads the tree for the "_qa" scores, before it takes the lock.
Take(p, n) ==
    /\ pc[p] = "idle"
    /\ n <= Len(queue)
    /\ batch' = [batch EXCEPT ![p] = SubSeq(queue, 1, n)]
    /\ queue' = SubSeq(queue, n + 1, Len(queue))
    /\ local' = [local EXCEPT ![p] = None]
    /\ next' = [next EXCEPT ![p] = "lock"]
    /\ Goto(p, "get")
    /\ UNCHANGED <<posted, backend, cache, lock, tree, faults, harm>>

-----------------------------------------------------------------------------
(* Permacache.get, without a lock                                          *)

Return(p, val) ==
    /\ tree' = [tree EXCEPT ![p] = val]
    /\ Goto(p, next[p])

GetLocal(p) ==
    /\ pc[p] = "get"
    /\ local[p] # None
    /\ Return(p, local[p])
    /\ UNCHANGED <<posted, queue, backend, cache, local, lock, next, batch, faults, harm>>

GetCached(p) ==
    /\ pc[p] = "get"
    /\ local[p] = None
    /\ cache # None
    /\ local' = [local EXCEPT ![p] = cache]
    /\ Return(p, cache)
    /\ UNCHANGED <<posted, queue, backend, cache, lock, next, batch, faults, harm>>

GetMiss(p) ==
    /\ pc[p] = "get"
    /\ local[p] = None
    /\ cache = None
    /\ Goto(p, "backend")
    /\ UNCHANGED <<posted, queue, backend, cache, local, lock, next, batch, tree, faults, harm>>

\* An empty tree is not cached.
BackendGet(p) ==
    /\ pc[p] = "backend"
    /\ tree' = [tree EXCEPT ![p] = backend]
    /\ Goto(p, IF backend = {} THEN next[p] ELSE "fill")
    /\ UNCHANGED <<posted, queue, backend, cache, local, lock, next, batch, faults, harm>>

Fill(p) ==
    /\ pc[p] = "fill"
    /\ local' = [local EXCEPT ![p] = tree[p]]
    /\ cache' = tree[p]
    /\ Goto(p, next[p])
    /\ UNCHANGED <<posted, queue, backend, lock, next, batch, tree, faults, harm>>

\* A page view.
Read(p) ==
    /\ pc[p] = "idle"
    /\ local' = [local EXCEPT ![p] = None]
    /\ next' = [next EXCEPT ![p] = "idle"]
    /\ Goto(p, "get")
    /\ UNCHANGED <<posted, queue, backend, cache, lock, batch, tree, faults, harm>>

-----------------------------------------------------------------------------
(* CommentTreePermacache.add_comments and rebuild                          *)

\* Mutant of Lock: two processes in the block at a time.
LockAnyway(p) ==
    /\ pc[p] = "lock"
    /\ lock' = p
    /\ next' = [next EXCEPT ![p] = "add"]
    /\ Goto(p, IF p \in Rebuilders THEN "write" ELSE "get")
    /\ UNCHANGED <<posted, queue, backend, cache, local, batch, tree, faults, harm>>

Lock(p) ==
    /\ pc[p] = "lock"
    /\ lock = None
    /\ lock' = p
    /\ next' = [next EXCEPT ![p] = "add"]
    /\ Goto(p, IF p \in Rebuilders THEN "write" ELSE "get")
    /\ UNCHANGED <<posted, queue, backend, cache, local, batch, tree, faults, harm>>

\* Mutant of Add: the tree is replaced by the new comments.
AddReplace(p) ==
    LET new == ToSet(batch[p]) \ tree[p]
    IN  /\ pc[p] = "add"
        /\ tree' = [tree EXCEPT ![p] = new]
        /\ Goto(p, IF new = {} THEN "unlock" ELSE "write")
        /\ UNCHANGED <<posted, queue, backend, cache, local, lock, next, batch, faults, harm>>

\* Comments already in the tree are skipped.
Add(p) ==
    LET new == ToSet(batch[p]) \ tree[p]
    IN  /\ pc[p] = "add"
        /\ tree' = [tree EXCEPT ![p] = @ \cup new]
        /\ Goto(p, IF new = {} THEN "unlock" ELSE "write")
        /\ UNCHANGED <<posted, queue, backend, cache, local, lock, next, batch, faults, harm>>

\* rebuild queries the comments, then takes the lock.  No comment is posted
\* without its parent, so none is removed.
StartRebuild(p) ==
    /\ pc[p] = "idle"
    /\ tree' = [tree EXCEPT ![p] = posted]
    /\ local' = [local EXCEPT ![p] = None]
    /\ Goto(p, "lock")
    /\ Fault("rebuild")
    /\ harm' = harm \cup {"rebuild"}
    /\ UNCHANGED <<posted, queue, backend, cache, lock, next, batch>>

\* Permacache.set: Cassandra first, then the caches.
WriteBackend(p) ==
    /\ pc[p] = "write"
    /\ backend' = tree[p]
    /\ Goto(p, "writecache")
    /\ UNCHANGED <<posted, queue, cache, local, lock, next, batch, tree, faults, harm>>

WriteCache(p) ==
    /\ pc[p] = "writecache"
    /\ cache' = tree[p]
    /\ local' = [local EXCEPT ![p] = tree[p]]
    /\ Goto(p, "unlock")
    /\ UNCHANGED <<posted, queue, backend, lock, next, batch, tree, faults, harm>>

Unlock(p) ==
    /\ pc[p] = "unlock"
    /\ lock' = IF lock = p THEN None ELSE lock
    /\ Goto(p, "ack")
    /\ UNCHANGED <<posted, queue, backend, cache, local, next, batch, tree, faults, harm>>

Reset(p) ==
    /\ batch' = [batch EXCEPT ![p] = <<>>]
    /\ tree' = [tree EXCEPT ![p] = {}]
    /\ local' = [local EXCEPT ![p] = None]
    /\ next' = [next EXCEPT ![p] = "idle"]
    /\ Goto(p, "idle")

\* Mutant of Ack: the batch is not emptied.
AckKept(p) ==
    /\ pc[p] = "ack"
    /\ Goto(p, "idle")
    /\ UNCHANGED <<posted, queue, backend, cache, local, lock, next, batch, tree, faults, harm>>

\* basic_ack of the whole batch.
Ack(p) ==
    /\ pc[p] = "ack"
    /\ Reset(p)
    /\ UNCHANGED <<posted, queue, backend, cache, lock, faults, harm>>

\* Mutant of Die: the batch was acknowledged when it was taken.
DieAcked(p) ==
    /\ lock' = IF lock = p THEN "dead" ELSE lock
    /\ Reset(p)
    /\ UNCHANGED <<posted, queue, backend, cache>>

\* Mutant of Die: rejected messages go to the end of the queue.
DieBehind(p) ==
    /\ queue' = queue \o batch[p]
    /\ lock' = IF lock = p THEN "dead" ELSE lock
    /\ Reset(p)
    /\ UNCHANGED <<posted, backend, cache>>

\* The process ends and its unacknowledged messages go back to the queue.
Die(p) ==
    /\ queue' = batch[p] \o queue
    /\ lock' = IF lock = p THEN "dead" ELSE lock
    /\ Reset(p)
    /\ UNCHANGED <<posted, backend, cache>>

\* TimeoutExpired leaves handle_items, which rejects the batch and raises.
TimeoutExpired(p) ==
    /\ pc[p] = "lock"
    /\ lock # None
    /\ Die(p)
    /\ UNCHANGED <<faults, harm>>

-----------------------------------------------------------------------------
(* The environment                                                         *)

Crash(p) ==
    /\ pc[p] # "idle"
    /\ Fault(IF pc[p] = "writecache" THEN "windowcrash" ELSE "crash")
    /\ Die(p)
    /\ UNCHANGED harm

LockExpires ==
    /\ lock # None
    /\ \/ lock = "dead" /\ UNCHANGED <<faults, harm>>
       \/ lock # "dead" /\ Fault("expire") /\ harm' = harm \cup {"expire"}
    /\ lock' = None
    /\ UNCHANGED <<posted, queue, backend, cache, local, pc, next, batch, tree>>

Evict ==
    /\ cache # None
    /\ Fault("evict")
    /\ harm' = harm \cup {"evict"}
    /\ cache' = None
    /\ UNCHANGED <<posted, queue, backend, local, lock, pc, next, batch, tree>>

Proceed(p) ==
    \/ GetLocal(p) \/ GetCached(p) \/ GetMiss(p) \/ BackendGet(p) \/ Fill(p)
    \/ Lock(p) \/ TimeoutExpired(p)
    \/ Add(p) \/ WriteBackend(p) \/ WriteCache(p) \/ Unlock(p) \/ Ack(p)

Next ==
    \/ \E c \in Comments : Post(c) \/ VoteAgain(c)
    \/ \E p \in Consumers, n \in 1..Limit : Take(p, n)
    \/ \E p \in Readers : Read(p)
    \/ \E p \in Rebuilders : StartRebuild(p)
    \/ \E p \in Procs : Proceed(p) \/ Crash(p)
    \/ LockExpires
    \/ Evict

Spec == Init /\ [][Next]_vars

\* Consumers run and are restarted, a dead process's lock reaches its TTL.
FairSpec ==
    /\ Spec
    /\ \A p \in Consumers : WF_vars(\E n \in 1..Limit : Take(p, n))
    /\ \A p \in Procs : WF_vars(Proceed(p))
    /\ WF_vars(LockExpires)

-----------------------------------------------------------------------------
(* Properties                                                              *)

Pending == ToSet(queue) \cup UNION {ToSet(batch[p]) : p \in Consumers}

(***************************************************************************)
(* comment_tree.py:116 "adding comments requires read-modify-write, so get *)
(* the lock": a comment whose message was acknowledged is in the stored    *)
(* tree and in the cached one, whatever was added to the tree since. Not   *)
(* promised after a rebuild, whose query is older than its lock            *)
(* (comment_tree.py:198), nor after an eviction, when a page view may fill *)
(* memcached with an older tree (cache.py:949).                            *)
(***************************************************************************)
NothingLost ==
    harm \subseteq {"expire"} =>
        \A c \in posted \ Pending :
            /\ c \in backend
            /\ cache # None => c \in cache

(***************************************************************************)
(* comment_tree.py:131 a comment whose parent is missing from the tree     *)
(* "will never be displayed unless their parent is added": with a single   *)
(* consumer the stored tree never has a comment without its parent, unless *)
(* one of the two events above has lost the parent.                        *)
(***************************************************************************)
NoOrphans ==
    harm \subseteq {"expire"} => \A c \in backend : Parent[c] \in backend \cup {None}

(***************************************************************************)
(* The tree that add_comments keeps is whole: every comment that was       *)
(* acknowledged is there, and each with its parent.                        *)
(***************************************************************************)
TreeWhole == NothingLost /\ NoOrphans

(***************************************************************************)
(* comment_tree.py:153 "we should block other read-modify-write operations *)
(* to avoid being clobbered by their write": between the two writes of one *)
(* process, to Cassandra and to memcached, no other changes Cassandra,     *)
(* while locks do not expire under their holders.                          *)
(***************************************************************************)
WritesPaired ==
    "expire" \notin harm => \A p \in Procs : pc[p] = "writecache" => backend = tree[p]

(***************************************************************************)
(* Every posted comment is in the tree for good, in both places, in spite  *)
(* of crashes between them, timeouts and expired locks, and comments put   *)
(* back in the queue; but for the two events NothingLost names.            *)
(***************************************************************************)
CommentsLand ==
    <>[](harm \subseteq {"expire"} => /\ backend = posted
                                     /\ cache \in {posted, None})

=============================================================================
