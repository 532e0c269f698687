-------------------------- MODULE CommentTreeProofs --------------------------
(***************************************************************************)
(* For any comments, processes and failures: the state of CommentTree is   *)
(* typed and the two writes of Permacache.set are paired while locks do    *)
(* not expire; with one consumer, any number of readers and any batches,   *)
(* the tree is whole.                                                      *)
(***************************************************************************)
EXTENDS CommentTree, SequenceTheorems, TLAPS

LOCAL INSTANCE SequencesExt

-----------------------------------------------------------------------------
(* Type correctness                                                        *)

\* Only consumers have messages, and only until they go back to waiting.
BatchesHeld ==
    \A p \in Procs : (p \notin Consumers \/ next[p] = "idle") => batch[p] = <<>>

TypeInv == TypeOK /\ BatchesHeld

(***************************************************************************)
(* Taking n messages splits the queue; they are typed, and put together    *)
(* again they are the queue.                                               *)
(***************************************************************************)
LEMMA TakeSplits ==
    ASSUME NEW S, NEW s \in Seq(S), NEW n \in Nat, n <= Len(s)
    PROVE  /\ SubSeq(s, 1, n) \in Seq(S)
           /\ SubSeq(s, n + 1, Len(s)) \in Seq(S)
           /\ SubSeq(s, 1, n) \o SubSeq(s, n + 1, Len(s)) = s
  <1>1. Len(s) \in Nat /\ \A i \in 1..Len(s) : s[i] \in S
    BY LenProperties, ElementOfSeq
  <1>2. SubSeq(s, 1, n) \in Seq(S)
    <2>1. \A i \in 1..n : s[i] \in S
      BY <1>1
    <2>2. QED
      BY <2>1, SubSeqProperties
  <1>3. SubSeq(s, n + 1, Len(s)) \in Seq(S)
    <2>1. \A i \in (n + 1)..Len(s) : s[i] \in S
      BY <1>1
    <2>2. n + 1 \in Int /\ Len(s) \in Int
      BY <1>1
    <2>3. QED
      BY <2>1, <2>2, SubSeqProperties
  <1>4. SubSeq(s, 1, n) \o SubSeq(s, n + 1, Len(s)) = SubSeq(s, 1, Len(s))
    <2>1. 1 \in 1..(Len(s) + 1) /\ n \in (1 - 1)..Len(s) /\ Len(s) \in n..Len(s)
      BY <1>1
    <2>2. QED
      BY <2>1, ConcatAdjacentSubSeq
  <1>5. QED
    BY <1>2, <1>3, <1>4, SubSeqFull

(***************************************************************************)
(* A process that ends puts back typed messages and leaves nothing of its  *)
(* own.                                                                    *)
(***************************************************************************)
LEMMA DieTyped ==
    ASSUME TypeInv, NEW p \in Procs, Die(p), faults' \in Nat, harm' = harm
    PROVE  TypeInv'
  <1> USE CommentTreeAssumption
  <1>1. queue' \in Seq(Comments)
    <2>1. batch[p] \in Seq(Comments) /\ queue \in Seq(Comments)
      BY DEF TypeInv, TypeOK
    <2>2. QED
      BY <2>1, ConcatProperties DEF Die
  <1>2. <<>> \in Seq(Comments)
    BY EmptySeq
  <1>3. batch' \in [Procs -> Seq(Comments)]
    BY <1>2 DEF Die, Reset, TypeInv, TypeOK
  <1>4. lock' \in Procs \cup {"dead", None}
    BY DEF Die, TypeInv, TypeOK
  <1>5. QED
    BY <1>1, <1>3, <1>4
    DEF Die, Reset, Goto, TypeInv, TypeOK, BatchesHeld, Tree, PCs

(***************************************************************************)
(* Every step of the processes, the queue and the environment keeps the    *)
(* state typed, and messages with consumers only.                          *)
(***************************************************************************)
LEMMA TypeStep == TypeInv /\ [Next]_vars => TypeInv'
  <1> SUFFICES ASSUME TypeInv, [Next]_vars
               PROVE  TypeInv'
    OBVIOUS
  <1> USE CommentTreeAssumption
  <1>1. ASSUME NEW c \in Comments, Post(c) \/ VoteAgain(c)
        PROVE  TypeInv'
    <2>1. queue' \in Seq(Comments)
      <3>1. queue \in Seq(Comments) /\ queue' = Append(queue, c)
        BY <1>1 DEF Post, VoteAgain, TypeInv, TypeOK
      <3>2. QED
        BY <3>1, AppendProperties
    <2>2. posted' \subseteq Comments /\ faults' \in Nat
      BY <1>1 DEF Post, VoteAgain, Fault, TypeInv, TypeOK
    <2>3. QED
      BY <1>1, <2>1, <2>2 DEF Post, VoteAgain, TypeInv, TypeOK, BatchesHeld
  <1>2. ASSUME NEW p \in Consumers, NEW n \in 1..Limit, Take(p, n)
        PROVE  TypeInv'
    <2>1. n \in Nat /\ n <= Len(queue) /\ queue \in Seq(Comments) /\ p \in Procs
      BY <1>2 DEF Take, TypeInv, TypeOK, Procs
    <2>2. /\ SubSeq(queue, 1, n) \in Seq(Comments)
          /\ SubSeq(queue, n + 1, Len(queue)) \in Seq(Comments)
      BY <2>1, TakeSplits
    <2>3. queue' \in Seq(Comments) /\ batch' \in [Procs -> Seq(Comments)]
      BY <1>2, <2>1, <2>2 DEF Take, TypeInv, TypeOK
    <2>4. QED
      BY <1>2, <2>1, <2>3 DEF Take, Goto, TypeInv, TypeOK, BatchesHeld, PCs
  <1>3. ASSUME NEW p \in Readers, Read(p)
        PROVE  TypeInv'
    BY <1>3 DEF Read, Goto, TypeInv, TypeOK, BatchesHeld, PCs, Procs
  <1>4. ASSUME NEW p \in Rebuilders, StartRebuild(p)
        PROVE  TypeInv'
    BY <1>4 DEF StartRebuild, Fault, Goto, TypeInv, TypeOK, BatchesHeld, PCs, Procs, Tree
  <1>5. ASSUME NEW p \in Procs, GetLocal(p) \/ GetCached(p) \/ GetMiss(p)
        PROVE  TypeInv'
    <2>1. CASE GetLocal(p)
      BY <2>1 DEF GetLocal, Return, Goto, TypeInv, TypeOK, BatchesHeld, PCs, Tree
    <2>2. CASE GetCached(p)
      BY <2>2 DEF GetCached, Return, Goto, TypeInv, TypeOK, BatchesHeld, PCs, Tree
    <2>3. CASE GetMiss(p)
      BY <2>3 DEF GetMiss, Goto, TypeInv, TypeOK, BatchesHeld, PCs
    <2>4. QED
      BY <1>5, <2>1, <2>2, <2>3
  <1>6. ASSUME NEW p \in Procs, BackendGet(p) \/ Fill(p)
        PROVE  TypeInv'
    <2>1. CASE BackendGet(p)
      BY <2>1 DEF BackendGet, Goto, TypeInv, TypeOK, BatchesHeld, PCs
    <2>2. CASE Fill(p)
      BY <2>2 DEF Fill, Goto, TypeInv, TypeOK, BatchesHeld, PCs
    <2>3. QED
      BY <1>6, <2>1, <2>2
  <1>7. ASSUME NEW p \in Procs, Lock(p)
        PROVE  TypeInv'
    BY <1>7 DEF Lock, Goto, TypeInv, TypeOK, BatchesHeld, PCs
  <1>8. ASSUME NEW p \in Procs, Add(p)
        PROVE  TypeInv'
    <2>1. ToSet(batch[p]) \subseteq Comments
      BY LenProperties DEF ToSet, TypeInv, TypeOK
    <2>2. tree' \in [Procs -> Tree]
      BY <1>8, <2>1 DEF Add, TypeInv, TypeOK, Tree
    <2>3. QED
      BY <1>8, <2>2 DEF Add, Goto, TypeInv, TypeOK, BatchesHeld, PCs
  <1>9. ASSUME NEW p \in Procs, WriteBackend(p) \/ WriteCache(p) \/ Unlock(p)
        PROVE  TypeInv'
    <2>1. CASE WriteBackend(p)
      BY <2>1 DEF WriteBackend, Goto, TypeInv, TypeOK, BatchesHeld, PCs
    <2>2. CASE WriteCache(p)
      BY <2>2 DEF WriteCache, Goto, TypeInv, TypeOK, BatchesHeld, PCs
    <2>3. CASE Unlock(p)
      BY <2>3 DEF Unlock, Goto, TypeInv, TypeOK, BatchesHeld, PCs
    <2>4. QED
      BY <1>9, <2>1, <2>2, <2>3
  <1>10. ASSUME NEW p \in Procs, Ack(p)
         PROVE  TypeInv'
    <2>1. <<>> \in Seq(Comments)
      BY EmptySeq
    <2>2. QED
      BY <1>10, <2>1 DEF Ack, Reset, Goto, TypeInv, TypeOK, BatchesHeld, PCs, Tree
  <1>11. ASSUME NEW p \in Procs, TimeoutExpired(p) \/ Crash(p)
         PROVE  TypeInv'
    <2>1. Die(p) /\ faults' \in Nat /\ harm' = harm
      BY <1>11 DEF TimeoutExpired, Crash, Fault, TypeInv, TypeOK
    <2>2. QED
      BY <2>1, DieTyped
  <1>12. CASE LockExpires \/ Evict
    <2>1. CASE LockExpires
      <3>1. faults' \in Nat /\ harm' \subseteq {"rebuild", "evict", "expire"}
        <4>1. faults \in Nat /\ harm \subseteq {"rebuild", "evict", "expire"}
          BY DEF TypeInv, TypeOK
        <4>2. CASE faults' = faults /\ harm' = harm
          BY <4>1, <4>2
        <4>3. CASE faults' = faults + 1 /\ harm' = harm \cup {"expire"}
          BY <4>1, <4>3
        <4>4. QED
          BY <2>1, <4>2, <4>3 DEF LockExpires, Fault
      <3>2. QED
        BY <2>1, <3>1 DEF LockExpires, TypeInv, TypeOK, BatchesHeld
    <2>2. CASE Evict
      BY <2>2 DEF Evict, Fault, TypeInv, TypeOK, BatchesHeld
    <2>3. QED
      BY <1>12, <2>1, <2>2
  <1>13. CASE UNCHANGED vars
    BY <1>13 DEF vars, TypeInv, TypeOK, BatchesHeld
  <1>14. QED
    BY <1>1, <1>2, <1>3, <1>4, <1>5, <1>6, <1>7, <1>8, <1>9, <1>10, <1>11, <1>12, <1>13
    DEF Next, Proceed

(***************************************************************************)
(* The type invariant of the tree's stores, caches and processes holds     *)
(* under every failure.                                                    *)
(***************************************************************************)
THEOREM TypeCorrect == Spec => []TypeOK
  <1>1. Init => TypeInv
    <2>1. <<>> \in Seq(Comments)
      BY EmptySeq
    <2>2. QED
      BY <2>1, CommentTreeAssumption DEF Init, TypeInv, TypeOK, BatchesHeld, Tree, PCs
  <1>2. TypeInv => TypeOK
    BY DEF TypeInv
  <1>3. QED
    BY <1>1, <1>2, TypeStep, PTL DEF Spec

-----------------------------------------------------------------------------
(* Paired writes                                                           *)

\* Where the code of add_comments and rebuild has the lock.
InBlock(p) ==
    \/ pc[p] \in {"add", "write", "writecache", "unlock"}
    \/ pc[p] \in {"get", "backend", "fill"} /\ next[p] = "add"

BlockAlone == \A p \in Procs : InBlock(p) => lock = p

Paired == \A p \in Procs : pc[p] = "writecache" => backend = tree[p]

PairInv == TypeInv /\ ("expire" \notin harm => BlockAlone /\ Paired)

(***************************************************************************)
(* A step of one process that has the lock, or is outside the block, does  *)
(* not disturb another's.                                                  *)
(***************************************************************************)
LEMMA PairStep ==
    ASSUME TypeInv, TypeInv', BlockAlone, Paired, "expire" \notin harm', [Next]_vars
    PROVE  BlockAlone' /\ Paired'
  <1> USE CommentTreeAssumption DEF BlockAlone, Paired, InBlock
  <1>0. /\ pc \in [Procs -> PCs] /\ tree \in [Procs -> Tree]
        /\ next \in [Procs -> {"lock", "add", "idle"}]
        /\ lock \in Procs \cup {"dead", None}
    BY DEF TypeInv, TypeOK
  <1>1. ASSUME NEW c \in Comments, Post(c) \/ VoteAgain(c)
        PROVE  BlockAlone' /\ Paired'
    BY <1>1 DEF Post, VoteAgain
  <1>2. ASSUME NEW p \in Consumers, NEW n \in 1..Limit, Take(p, n)
        PROVE  BlockAlone' /\ Paired'
    BY <1>0, <1>2 DEF Take, Goto, Procs
  <1>3. ASSUME NEW p \in Readers, Read(p)
        PROVE  BlockAlone' /\ Paired'
    BY <1>0, <1>3 DEF Read, Goto, Procs
  <1>4. ASSUME NEW p \in Rebuilders, StartRebuild(p)
        PROVE  BlockAlone' /\ Paired'
    BY <1>0, <1>4 DEF StartRebuild, Goto, Procs
  <1>5. ASSUME NEW p \in Procs, GetLocal(p) \/ GetCached(p)
        PROVE  BlockAlone' /\ Paired'
    BY <1>0, <1>5 DEF GetLocal, GetCached, Return, Goto
  <1>6. ASSUME NEW p \in Procs, GetMiss(p) \/ BackendGet(p) \/ Fill(p)
        PROVE  BlockAlone' /\ Paired'
    BY <1>0, <1>6 DEF GetMiss, BackendGet, Fill, Goto
  <1>7. ASSUME NEW p \in Procs, Lock(p)
        PROVE  BlockAlone' /\ Paired'
    BY <1>0, <1>7 DEF Lock, Goto
  <1>8. ASSUME NEW p \in Procs, Add(p)
        PROVE  BlockAlone' /\ Paired'
    BY <1>0, <1>8 DEF Add, Goto
  <1>9. ASSUME NEW p \in Procs, WriteBackend(p)
        PROVE  BlockAlone' /\ Paired'
    BY <1>0, <1>9 DEF WriteBackend, Goto
  <1>10. ASSUME NEW p \in Procs, WriteCache(p) \/ Unlock(p)
         PROVE  BlockAlone' /\ Paired'
    BY <1>0, <1>10 DEF WriteCache, Unlock, Goto
  <1>11. ASSUME NEW p \in Procs, Ack(p) \/ TimeoutExpired(p) \/ Crash(p)
         PROVE  BlockAlone' /\ Paired'
    <2>1. Reset(p) /\ backend' = backend /\ lock' \in {lock, "dead"}
            /\ (lock' # lock => lock = p)
      BY <1>11 DEF Ack, TimeoutExpired, Crash, Die
    <2>2. QED
      BY <1>0, <2>1 DEF Reset, Goto
  <1>12. CASE LockExpires \/ Evict
    <2>1. CASE LockExpires
      <3>1. lock = "dead"
        BY <2>1 DEF LockExpires
      <3>2. QED
        BY <1>0, <2>1, <3>1 DEF LockExpires
    <2>2. CASE Evict
      BY <2>2 DEF Evict
    <2>3. QED
      BY <1>12, <2>1, <2>2
  <1>13. CASE UNCHANGED vars
    BY <1>13 DEF vars
  <1>14. QED
    BY <1>1, <1>2, <1>3, <1>4, <1>5, <1>6, <1>7, <1>8, <1>9, <1>10, <1>11, <1>12, <1>13
    DEF Next, Proceed

(***************************************************************************)
(* What has gone wrong stays recorded.                                     *)
(***************************************************************************)
LEMMA HarmGrows == [Next]_vars => harm \subseteq harm'
  BY DEF Next, Proceed, Post, VoteAgain, Take, Read, StartRebuild, GetLocal, GetCached, GetMiss,
         BackendGet, Fill, Lock, Add, WriteBackend, WriteCache, Unlock, Ack, TimeoutExpired,
         Crash, LockExpires, Evict, vars

(***************************************************************************)
(* Between the two writes of one process, to Cassandra and to memcached,   *)
(* no other changes Cassandra, for any consumers, readers and rebuilders,  *)
(* until a lock has expired under its holder.                              *)
(***************************************************************************)
THEOREM WritesStayPaired == Spec => []WritesPaired
  <1>1. Init => PairInv
    <2>1. <<>> \in Seq(Comments)
      BY EmptySeq
    <2>2. QED
      BY <2>1, CommentTreeAssumption
      DEF Init, PairInv, TypeInv, TypeOK, BatchesHeld, Tree, PCs, BlockAlone, InBlock, Paired
  <1>2. PairInv /\ [Next]_vars => PairInv'
    BY TypeStep, HarmGrows, PairStep DEF PairInv
  <1>3. PairInv => WritesPaired
    BY DEF PairInv, Paired, WritesPaired
  <1>4. QED
    BY <1>1, <1>2, <1>3, PTL DEF Spec

-----------------------------------------------------------------------------
(* The whole tree, with one consumer c                                     *)

Closed(S) == \A x \in S : Parent[x] \in S \cup {None}

\* Each message's parent is in S, or among the messages before it.
InOrder(s, S) ==
    \A i \in 1..Len(s) : Parent[s[i]] \in S \cup {None} \/ \E j \in 1..(i - 1) : Parent[s[i]] = s[j]

\* What is taken and not acknowledged, then what is not taken.
Outstanding(c) == batch[c] \o queue

\* Nobody but the consumer writes, and pages are served from memcached.
OneWriter(c) ==
    /\ cache # None
    /\ \A p \in Procs : pc[p] \notin {"backend", "fill"}
    /\ \A p \in Rebuilders : pc[p] = "idle"
    /\ \A p \in Readers : pc[p] \in {"idle", "get"} /\ next[p] = "idle"

\* What the consumer has in hand, against memcached.
InHand(c) ==
    /\ local[c] # None => local[c] = cache
    /\ pc[c] = "add" => tree[c] = cache
    /\ pc[c] \in {"write", "writecache"} => tree[c] = cache \cup ToSet(batch[c])
    /\ pc[c] = "writecache" => backend = tree[c]
    /\ pc[c] \in {"unlock", "ack"} => ToSet(batch[c]) \subseteq cache

\* memcached has what is acknowledged, Cassandra as much, neither with orphans.
Stores == cache \subseteq backend /\ Closed(cache) /\ Closed(backend)

Accounted(c) ==
    /\ Closed(posted)
    /\ ToSet(Outstanding(c)) \subseteq posted
    /\ posted \subseteq cache \cup ToSet(Outstanding(c))
    /\ InOrder(Outstanding(c), cache)

Whole(c) == OneWriter(c) /\ InHand(c) /\ Stores /\ Accounted(c)

TreeInv(c) == TypeInv /\ (harm \subseteq {"expire"} => Whole(c))

(***************************************************************************)
(* The messages of a sequence are its elements.                            *)
(***************************************************************************)
LEMMA ToSetOfSeq ==
    ASSUME NEW S, NEW s \in Seq(S)
    PROVE  /\ Len(s) \in Nat
           /\ \A x : x \in ToSet(s) <=> \E i \in 1..Len(s) : s[i] = x
           /\ ToSet(s) \subseteq S
  <1>1. Len(s) \in Nat /\ DOMAIN s = 1..Len(s) /\ s \in [1..Len(s) -> S]
    BY LenProperties
  <1>2. QED
    BY <1>1 DEF ToSet

(***************************************************************************)
(* No messages: a process that has reset.                                  *)
(***************************************************************************)
LEMMA ToSetEmpty == ToSet(<<>>) = {}
  BY DEF ToSet

(***************************************************************************)
(* Queueing a message behind a batch and a queue, or behind the two read   *)
(* as one sequence of outstanding messages, is the same.                   *)
(***************************************************************************)
LEMMA AppendBehind ==
  ASSUME NEW S, NEW b \in Seq(S), NEW q \in Seq(S), NEW x \in S
  PROVE  b \o Append(q, x) = Append(b \o q, x)
  <1>1. b \o q \in Seq(S)
    BY ConcatProperties
  <1>2. Append(q, x) = q \o <<x>>
    BY AppendIsConcat
  <1>3. Append(b \o q, x) = (b \o q) \o <<x>>
    BY <1>1, AppendIsConcat
  <1>4. <<x>> \in Seq(S)
    OBVIOUS
  <1>5. \A u \in Seq(S) : (b \o q) \o u = b \o (q \o u)
    BY ConcatAssociative
  <1>6. QED
    BY <1>2, <1>3, <1>4, <1>5, Zenon

(***************************************************************************)
(* The messages of a queue that was appended to.                           *)
(***************************************************************************)
LEMMA ToSetAppend ==
    ASSUME NEW S, NEW s \in Seq(S), NEW e \in S
    PROVE  ToSet(Append(s, e)) = ToSet(s) \cup {e}
  <1>1. /\ Append(s, e) \in Seq(S) /\ Len(Append(s, e)) = Len(s) + 1
        /\ \A i \in 1..Len(s) : Append(s, e)[i] = s[i]
        /\ Append(s, e)[Len(s) + 1] = e
    BY AppendProperties
  <1>2. /\ Len(s) \in Nat
        /\ \A x : x \in ToSet(s) <=> \E i \in 1..Len(s) : s[i] = x
    BY ToSetOfSeq
  <1>3. \A x : x \in ToSet(Append(s, e)) <=> \E i \in 1..(Len(s) + 1) : Append(s, e)[i] = x
    <2>1. \A x : x \in ToSet(Append(s, e))
                  <=> \E i \in 1..Len(Append(s, e)) : Append(s, e)[i] = x
      BY <1>1, ToSetOfSeq
    <2>2. QED
      BY <1>1, <2>1
  <1>4. ASSUME NEW x
        PROVE  x \in ToSet(Append(s, e)) <=> x \in ToSet(s) \cup {e}
    <2>1. ASSUME x \in ToSet(Append(s, e))
          PROVE  x \in ToSet(s) \cup {e}
      BY <1>1, <1>2, <1>3, <2>1
    <2>2. ASSUME x \in ToSet(s)
          PROVE  x \in ToSet(Append(s, e))
      <3>1. PICK i \in 1..Len(s) : s[i] = x
        BY <1>2, <2>2
      <3>2. i \in 1..(Len(s) + 1) /\ Append(s, e)[i] = x
        BY <1>1, <1>2, <3>1
      <3>3. QED
        BY <1>3, <3>2
    <2>3. e \in ToSet(Append(s, e))
      <3>1. Len(s) + 1 \in 1..(Len(s) + 1)
        BY <1>2
      <3>2. QED
        BY <1>1, <1>3, <3>1
    <2>4. QED
      BY <2>1, <2>2, <2>3
  <1>5. QED
    BY <1>4

(***************************************************************************)
(* The messages of a queue that a batch was put back in front of.          *)
(***************************************************************************)
LEMMA ToSetConcat ==
    ASSUME NEW S, NEW s \in Seq(S), NEW t \in Seq(S)
    PROVE  ToSet(s \o t) = ToSet(s) \cup ToSet(t)
  <1>1. /\ s \o t \in Seq(S) /\ Len(s \o t) = Len(s) + Len(t)
        /\ \A i \in 1..(Len(s) + Len(t)) :
              (s \o t)[i] = IF i <= Len(s) THEN s[i] ELSE t[i - Len(s)]
    BY ConcatProperties
  <1>2. /\ Len(s) \in Nat /\ Len(t) \in Nat
        /\ \A x : x \in ToSet(s) <=> \E i \in 1..Len(s) : s[i] = x
        /\ \A x : x \in ToSet(t) <=> \E i \in 1..Len(t) : t[i] = x
    BY ToSetOfSeq
  <1>3. \A x : x \in ToSet(s \o t) <=> \E i \in 1..(Len(s) + Len(t)) : (s \o t)[i] = x
    BY <1>1, ToSetOfSeq
  <1>4. ASSUME NEW x, x \in ToSet(s \o t)
        PROVE  x \in ToSet(s) \cup ToSet(t)
    <2>1. PICK i \in 1..(Len(s) + Len(t)) : (s \o t)[i] = x
      BY <1>3, <1>4
    <2>2. CASE i <= Len(s)
      BY <1>1, <1>2, <2>1, <2>2
    <2>3. CASE i > Len(s)
      <3>1. i - Len(s) \in 1..Len(t) /\ t[i - Len(s)] = x
        BY <1>1, <1>2, <2>1, <2>3
      <3>2. QED
        BY <1>2, <3>1
    <2>4. QED
      BY <1>2, <2>2, <2>3
  <1>5. ASSUME NEW x, x \in ToSet(s)
        PROVE  x \in ToSet(s \o t)
    <2>1. PICK i \in 1..Len(s) : s[i] = x
      BY <1>2, <1>5
    <2>2. i \in 1..(Len(s) + Len(t)) /\ (s \o t)[i] = x
      BY <1>1, <1>2, <2>1
    <2>3. QED
      BY <1>3, <2>2
  <1>6. ASSUME NEW x, x \in ToSet(t)
        PROVE  x \in ToSet(s \o t)
    <2>1. PICK i \in 1..Len(t) : t[i] = x
      BY <1>2, <1>6
    <2>2. Len(s) + i \in 1..(Len(s) + Len(t)) /\ (s \o t)[Len(s) + i] = x
      BY <1>1, <1>2, <2>1
    <2>3. QED
      BY <1>3, <2>2
  <1>7. QED
    BY <1>4, <1>5, <1>6

(***************************************************************************)
(* A message whose parent is in the tree or queued may join the end.       *)
(***************************************************************************)
LEMMA InOrderAppend ==
    ASSUME NEW S, NEW s \in Seq(Comments), NEW e \in Comments, InOrder(s, S),
           Parent[e] \in S \cup {None} \cup ToSet(s)
    PROVE  InOrder(Append(s, e), S)
  <1>1. /\ Len(Append(s, e)) = Len(s) + 1
        /\ \A i \in 1..Len(s) : Append(s, e)[i] = s[i]
        /\ Append(s, e)[Len(s) + 1] = e
    BY AppendProperties
  <1>2. /\ Len(s) \in Nat
        /\ \A x : x \in ToSet(s) <=> \E i \in 1..Len(s) : s[i] = x
    BY ToSetOfSeq
  <1> DEFINE a == Append(s, e)
  <1> HIDE DEF a
  <1>3. ASSUME NEW i \in 1..(Len(s) + 1)
        PROVE  Parent[a[i]] \in S \cup {None} \/ \E j \in 1..(i - 1) : Parent[a[i]] = a[j]
    <2>1. CASE i \in 1..Len(s)
      <3>1. a[i] = s[i] /\ \A j \in 1..(i - 1) : j \in 1..Len(s) /\ a[j] = s[j]
        BY <1>1, <1>2, <2>1 DEF a
      <3>2. QED
        BY <2>1, <3>1 DEF InOrder
    <2>2. CASE i = Len(s) + 1
      <3>1. a[i] = e /\ \A j \in 1..Len(s) : j \in 1..(i - 1) /\ a[j] = s[j]
        BY <1>1, <1>2, <2>2 DEF a
      <3>2. QED
        BY <1>2, <3>1
    <2>3. QED
      BY <1>2, <2>1, <2>2
  <1>4. QED
    BY <1>1, <1>3 DEF InOrder, a

(***************************************************************************)
(* Messages in order for a tree are in order for a larger one.             *)
(***************************************************************************)
LEMMA InOrderMore ==
    ASSUME NEW S, NEW T, S \subseteq T, NEW s, InOrder(s, S)
    PROVE  InOrder(s, T)
  BY DEF InOrder

(***************************************************************************)
(* Once the messages of a batch are in the tree, the others are in order   *)
(* without them.                                                           *)
(***************************************************************************)
LEMMA InOrderDrop ==
    ASSUME NEW S, NEW b \in Seq(Comments), NEW q \in Seq(Comments),
           InOrder(b \o q, S), ToSet(b) \subseteq S
    PROVE  InOrder(q, S)
  <1> DEFINE w == b \o q
  <1>1. /\ Len(w) = Len(b) + Len(q)
        /\ \A i \in 1..(Len(b) + Len(q)) :
              w[i] = IF i <= Len(b) THEN b[i] ELSE q[i - Len(b)]
    BY ConcatProperties
  <1>2. /\ Len(b) \in Nat /\ Len(q) \in Nat
        /\ \A x : x \in ToSet(b) <=> \E i \in 1..Len(b) : b[i] = x
    BY ToSetOfSeq
  <1>3. InOrder(w, S)
    OBVIOUS
  <1> HIDE DEF w
  <1>4. ASSUME NEW i \in 1..Len(q), Parent[q[i]] \notin S \cup {None}
        PROVE  \E j \in 1..(i - 1) : Parent[q[i]] = q[j]
    <2>1. Len(b) + i \in 1..Len(w) /\ w[Len(b) + i] = q[i]
      BY <1>1, <1>2
    <2>2. PICK k \in 1..(Len(b) + i - 1) : Parent[q[i]] = w[k]
      BY <1>3, <1>4, <2>1 DEF InOrder
    <2>3. ~(k <= Len(b))
      <3>1. SUFFICES ASSUME k <= Len(b)
                     PROVE  FALSE
        OBVIOUS
      <3>2. k \in 1..Len(b) /\ w[k] = b[k]
        BY <1>1, <1>2, <3>1
      <3>3. QED
        BY <1>2, <1>4, <2>2, <3>2
    <2>4. k - Len(b) \in 1..(i - 1) /\ w[k] = q[k - Len(b)]
      BY <1>1, <1>2, <2>3
    <2>5. QED
      BY <2>2, <2>4
  <1>5. QED
    BY <1>4 DEF InOrder

(***************************************************************************)
(* A batch that is in order completes the tree it is added to: no orphan   *)
(* joins.                                                                  *)
(***************************************************************************)
LEMMA BatchCompletes ==
    ASSUME NEW S, NEW b \in Seq(Comments), NEW q \in Seq(Comments),
           InOrder(b \o q, S), Closed(S)
    PROVE  Closed(S \cup ToSet(b))
  <1> DEFINE w == b \o q
  <1>1. /\ Len(w) = Len(b) + Len(q)
        /\ \A i \in 1..(Len(b) + Len(q)) :
              w[i] = IF i <= Len(b) THEN b[i] ELSE q[i - Len(b)]
    BY ConcatProperties
  <1>2. /\ Len(b) \in Nat /\ Len(q) \in Nat
        /\ \A x : x \in ToSet(b) <=> \E i \in 1..Len(b) : b[i] = x
    BY ToSetOfSeq
  <1>3. InOrder(w, S)
    OBVIOUS
  <1> HIDE DEF w
  <1>4. ASSUME NEW x \in ToSet(b), Parent[x] \notin S \cup {None}
        PROVE  Parent[x] \in ToSet(b)
    <2>1. PICK i \in 1..Len(b) : b[i] = x
      BY <1>2
    <2>2. i \in 1..Len(w) /\ w[i] = x
      BY <1>1, <1>2, <2>1
    <2>3. PICK j \in 1..(i - 1) : Parent[x] = w[j]
      BY <1>3, <1>4, <2>2 DEF InOrder
    <2>4. j \in 1..Len(b) /\ w[j] = b[j]
      BY <1>1, <1>2
    <2>5. QED
      BY <1>2, <2>3, <2>4
  <1>5. QED
    BY <1>4 DEF Closed

(***************************************************************************)
(* With one consumer, every step that is neither a rebuild nor an eviction *)
(* keeps the tree whole: memcached changes only by what the consumer adds, *)
(* so what it read before it took the lock is still what it adds to.       *)
(***************************************************************************)
LEMMA WholeStep ==
    ASSUME NEW c, Consumers = {c}, TypeInv, TypeInv', Whole(c),
           harm' \subseteq {"expire"}, [Next]_vars
    PROVE  Whole(c)'
  <1> USE CommentTreeAssumption
  <1>a. /\ pc \in [Procs -> PCs] /\ tree \in [Procs -> Tree]
        /\ next \in [Procs -> {"lock", "add", "idle"}]
        /\ local \in [Procs -> Tree \cup {None}]
        /\ batch \in [Procs -> Seq(Comments)]
        /\ backend \in Tree /\ cache \in Tree \cup {None}
        /\ queue \in Seq(Comments) /\ posted \subseteq Comments
        /\ \A p \in Procs : pc[p] = "idle" => batch[p] = <<>>
        /\ \A p \in Procs : (p \notin Consumers \/ next[p] = "idle") => batch[p] = <<>>
    BY DEF TypeInv, TypeOK, BatchesHeld
  <1>b. c \in Procs /\ c \notin Readers /\ c \notin Rebuilders
    BY DEF Procs
  <1>c. OneWriter(c) /\ InHand(c) /\ Stores /\ Accounted(c)
    BY DEF Whole
  <1>d. /\ batch[c] \in Seq(Comments) /\ Outstanding(c) \in Seq(Comments)
        /\ <<>> \in Seq(Comments)
    <2>1. batch[c] \in Seq(Comments)
      BY <1>a, <1>b
    <2>2. QED
      BY <1>a, <2>1, ConcatProperties, EmptySeq DEF Outstanding
  <1>e. ASSUME NEW p \in Procs, pc[p] \notin {"idle", "get"}
        PROVE  p = c
    BY <1>c, <1>e DEF OneWriter, Procs
  <1>f. ASSUME NEW p \in Procs, p # c
        PROVE  p \in Readers \cup Rebuilders
    BY <1>f DEF Procs
  <1>1. ASSUME NEW x \in Comments, Post(x) \/ VoteAgain(x)
        PROVE  Whole(c)'
    <2>1. queue' = Append(queue, x) /\ posted' = posted \cup {x}
            /\ UNCHANGED <<backend, cache, local, pc, next, batch, tree>>
      BY <1>1 DEF Post, VoteAgain
    <2>2. Parent[x] \in posted \cup {None}
      BY <1>1, <1>c DEF Post, VoteAgain, Accounted, Closed
    <2>3. Outstanding(c)' = Append(Outstanding(c), x)
      <3>1. batch[c] \in Seq(Comments) /\ queue \in Seq(Comments)
        BY <1>a, <1>d
      <3>2. \A b, q \in Seq(Comments) : b \o Append(q, x) = Append(b \o q, x)
        BY AppendBehind
      <3>3. QED
        BY <2>1, <3>1, <3>2, Zenon DEF Outstanding
    <2>4. ToSet(Outstanding(c)') = ToSet(Outstanding(c)) \cup {x}
      BY <1>d, <2>3, ToSetAppend
    <2>5. InOrder(Outstanding(c)', cache)
      <3>1. Parent[x] \in cache \cup {None} \cup ToSet(Outstanding(c))
        BY <1>c, <2>2 DEF Accounted
      <3>2. InOrder(Outstanding(c), cache)
        BY <1>c DEF Accounted
      <3>3. QED
        BY <1>d, <2>3, <3>1, <3>2, InOrderAppend
    <2>6. Closed(posted')
      BY <1>c, <2>1, <2>2 DEF Closed, Accounted
    <2>7. Accounted(c)'
      BY <1>c, <2>1, <2>4, <2>5, <2>6 DEF Accounted
    <2>8. (OneWriter(c) /\ InHand(c) /\ Stores)'
      BY <1>c, <2>1 DEF OneWriter, InHand, Stores, Closed
    <2>9. QED
      BY <2>7, <2>8 DEF Whole
  <1>2. ASSUME NEW n \in 1..Limit, Take(c, n)
        PROVE  Whole(c)'
    <2>1. Outstanding(c)' = Outstanding(c)
      <3>1. batch[c] = <<>> /\ n \in Nat /\ n <= Len(queue)
        BY <1>2, <1>a, <1>b DEF Take
      <3>2. Outstanding(c) = queue
        BY <1>a, <3>1, ConcatEmptySeq DEF Outstanding
      <3>3. batch'[c] = SubSeq(queue, 1, n) /\ queue' = SubSeq(queue, n + 1, Len(queue))
        BY <1>2, <1>a, <1>b DEF Take
      <3>4. QED
        BY <1>a, <3>1, <3>2, <3>3, TakeSplits DEF Outstanding
    <2>2. Accounted(c)'
      BY <1>c, <1>2, <2>1 DEF Take, Accounted
    <2>3. OneWriter(c)'
      BY <1>a, <1>b, <1>c, <1>2 DEF Take, Goto, OneWriter
    <2>4. InHand(c)'
      BY <1>a, <1>b, <1>2 DEF Take, Goto, InHand
    <2>5. Stores'
      BY <1>c, <1>2 DEF Take, Stores
    <2>6. QED
      BY <2>2, <2>3, <2>4, <2>5 DEF Whole
  <1>3. ASSUME NEW p \in Procs, p # c, p \notin Rebuilders, cache' = cache, backend' = backend,
               posted' = posted, queue' = queue,
               pc' \in [Procs -> PCs], next' \in [Procs -> {"lock", "add", "idle"}],
               \A q \in Procs \ {p} : /\ pc'[q] = pc[q] /\ next'[q] = next[q]
                                      /\ local'[q] = local[q]
                                      /\ tree'[q] = tree[q] /\ batch'[q] = batch[q],
               pc'[p] \in {"idle", "get"}, next'[p] = "idle"
        PROVE  Whole(c)'
    <2>1. OneWriter(c)'
      <3>1. \A q \in Procs : pc'[q] \notin {"backend", "fill"}
        BY <1>3, <1>c DEF OneWriter
      <3>2. \A q \in Rebuilders : pc'[q] = "idle"
        BY <1>3, <1>c DEF OneWriter, Procs
      <3>3. \A q \in Readers : pc'[q] \in {"idle", "get"} /\ next'[q] = "idle"
        BY <1>3, <1>c DEF OneWriter, Procs
      <3>4. QED
        BY <1>3, <1>c, <3>1, <3>2, <3>3 DEF OneWriter
    <2>2. pc'[c] = pc[c] /\ local'[c] = local[c] /\ tree'[c] = tree[c] /\ batch'[c] = batch[c]
      BY <1>3, <1>b
    <2>3. InHand(c)'
      BY <1>3, <1>c, <2>2 DEF InHand
    <2>4. Accounted(c)'
      BY <1>3, <1>c, <2>2 DEF Accounted, Outstanding
    <2>5. Stores'
      BY <1>3, <1>c DEF Stores
    <2>6. QED
      BY <2>1, <2>3, <2>4, <2>5 DEF Whole
  <1>4. ASSUME NEW p \in Readers, Read(p)
        PROVE  Whole(c)'
    BY <1>3, <1>4, <1>a, <1>b DEF Read, Goto, Procs, TypeInv, TypeOK
  <1>5. ASSUME NEW p \in Rebuilders, StartRebuild(p)
        PROVE  FALSE
    BY <1>5 DEF StartRebuild
  <1>6. ASSUME NEW p \in Procs, GetLocal(p) \/ GetCached(p)
        PROVE  Whole(c)'
    <2>1. pc[p] = "get" /\ p \notin Rebuilders
      BY <1>6, <1>c DEF GetLocal, GetCached, OneWriter
    <2>2. CASE p # c
      <3>1. next[p] = "idle"
        BY <1>c, <1>f, <2>1, <2>2 DEF OneWriter
      <3>2. pc'[p] = "idle" /\ next'[p] = "idle"
        BY <1>6, <1>a, <3>1 DEF GetLocal, GetCached, Return, Goto
      <3>3. pc' \in [Procs -> PCs] /\ next' \in [Procs -> {"lock", "add", "idle"}]
        BY DEF TypeInv, TypeOK
      <3>4. \A q \in Procs \ {p} : /\ pc'[q] = pc[q] /\ next'[q] = next[q]
                                    /\ local'[q] = local[q]
                                    /\ tree'[q] = tree[q] /\ batch'[q] = batch[q]
        BY <1>6, <1>a DEF GetLocal, GetCached, Return, Goto
      <3>5. cache' = cache /\ backend' = backend /\ posted' = posted /\ queue' = queue
        BY <1>6 DEF GetLocal, GetCached
      <3>6. QED
        BY <1>3, <2>1, <2>2, <3>2, <3>3, <3>4, <3>5
    <2>3. CASE p = c
      <3>1. tree'[c] = cache /\ local'[c] = cache /\ pc'[c] = next[c]
        <4>1. CASE GetLocal(c)
          BY <1>a, <1>b, <1>c, <4>1 DEF GetLocal, Return, Goto, InHand
        <4>2. CASE GetCached(c)
          BY <1>a, <1>b, <4>2 DEF GetCached, Return, Goto
        <4>3. QED
          BY <1>6, <2>3, <4>1, <4>2
      <3>2. /\ UNCHANGED <<posted, queue, backend, cache, next, batch>>
            /\ \A q \in Procs \ {c} : pc'[q] = pc[q]
            /\ next[c] \in {"lock", "add", "idle"}
        BY <1>6, <1>a, <1>b, <2>3 DEF GetLocal, GetCached, Return, Goto
      <3>3. InHand(c)'
        BY <3>1, <3>2 DEF InHand
      <3>4. OneWriter(c)'
        BY <1>b, <1>c, <3>1, <3>2 DEF OneWriter, Procs
      <3>5. (Stores /\ Accounted(c))'
        BY <1>c, <3>2 DEF Stores, Accounted, Outstanding
      <3>6. QED
        BY <3>3, <3>4, <3>5 DEF Whole
    <2>4. QED
      BY <2>2, <2>3
  <1>7. ASSUME NEW p \in Procs, GetMiss(p) \/ BackendGet(p) \/ Fill(p)
        PROVE  FALSE
    BY <1>7, <1>c DEF GetMiss, BackendGet, Fill, OneWriter
  <1>8. ASSUME NEW p \in Procs, Lock(p) \/ Add(p) \/ Unlock(p)
        PROVE  Whole(c)'
    <2>1. p = c
      BY <1>8, <1>e DEF Lock, Add, Unlock
    <2>2. /\ UNCHANGED <<posted, queue, backend, cache, local, batch>>
          /\ \A q \in Procs \ {c} : pc'[q] = pc[q] /\ next'[q] = next[q]
      BY <1>8, <1>a, <1>b, <2>1 DEF Lock, Add, Unlock, Goto
    <2>3. pc'[c] \notin {"backend", "fill"} /\ InHand(c)'
      <3>1. CASE Lock(c)
        BY <1>a, <1>b, <1>c, <3>1 DEF Lock, Goto, InHand
      <3>2. CASE Add(c)
        BY <1>a, <1>b, <1>c, <3>2 DEF Add, Goto, InHand
      <3>3. CASE Unlock(c)
        BY <1>a, <1>b, <1>c, <3>3 DEF Unlock, Goto, InHand
      <3>4. QED
        BY <1>8, <2>1, <3>1, <3>2, <3>3
    <2>4. OneWriter(c)'
      BY <1>b, <1>c, <2>2, <2>3 DEF OneWriter, Procs
    <2>5. (Stores /\ Accounted(c))'
      BY <1>c, <2>2 DEF Stores, Accounted, Outstanding
    <2>6. QED
      BY <2>3, <2>4, <2>5 DEF Whole
  <1>9. ASSUME NEW p \in Procs, WriteBackend(p)
        PROVE  Whole(c)'
    <2>1. p = c
      BY <1>9, <1>e DEF WriteBackend
    <2>2. /\ UNCHANGED <<posted, queue, cache, local, next, batch, tree>>
          /\ pc'[c] = "writecache" /\ \A q \in Procs \ {c} : pc'[q] = pc[q]
          /\ backend' = cache \cup ToSet(batch[c]) /\ backend' = tree[c]
          /\ tree[c] = cache \cup ToSet(batch[c])
      BY <1>9, <1>a, <1>b, <1>c, <2>1 DEF WriteBackend, Goto, InHand
    <2>3. Closed(backend')
      <3>1. InOrder(batch[c] \o queue, cache) /\ Closed(cache)
        BY <1>c DEF Stores, Accounted, Outstanding
      <3>2. batch[c] \in Seq(Comments) /\ queue \in Seq(Comments)
        BY <1>a, <1>d
      <3>3. Closed(cache \cup ToSet(batch[c]))
        BY <3>1, <3>2, BatchCompletes
      <3>4. QED
        BY <2>2, <3>3
    <2>4. Stores'
      BY <1>c, <2>2, <2>3 DEF Stores
    <2>5. InHand(c)'
      BY <1>c, <2>2 DEF InHand
    <2>6. OneWriter(c)'
      BY <1>b, <1>c, <2>2 DEF OneWriter, Procs
    <2>7. Accounted(c)'
      BY <1>c, <2>2 DEF Accounted, Outstanding
    <2>8. QED
      BY <2>4, <2>5, <2>6, <2>7 DEF Whole
  <1>10. ASSUME NEW p \in Procs, WriteCache(p)
         PROVE  Whole(c)'
    <2>1. p = c
      BY <1>10, <1>e DEF WriteCache
    <2>2. /\ UNCHANGED <<posted, queue, backend, next, batch, tree>>
          /\ pc'[c] = "unlock" /\ \A q \in Procs \ {c} : pc'[q] = pc[q]
          /\ cache' = cache \cup ToSet(batch[c]) /\ cache' = backend
          /\ local'[c] = cache' /\ cache' \in Tree
      BY <1>10, <1>a, <1>b, <1>c, <2>1 DEF WriteCache, Goto, InHand
    <2>3. Stores'
      BY <1>c, <2>2 DEF Stores
    <2>4. InHand(c)'
      BY <2>2 DEF InHand
    <2>5. OneWriter(c)'
      BY <1>b, <1>c, <2>2 DEF OneWriter, Procs, Tree
    <2>6. Accounted(c)'
      <3>1. Outstanding(c)' = Outstanding(c) /\ cache \subseteq cache'
        BY <2>2 DEF Outstanding
      <3>2. InOrder(Outstanding(c), cache')
        BY <1>c, <3>1, InOrderMore DEF Accounted
      <3>3. QED
        BY <1>c, <2>2, <3>1, <3>2 DEF Accounted
    <2>7. QED
      BY <2>3, <2>4, <2>5, <2>6 DEF Whole
  <1>11. ASSUME NEW p \in Procs, Ack(p)
         PROVE  Whole(c)'
    <2>1. p = c
      BY <1>11, <1>e DEF Ack
    <2>2. /\ UNCHANGED <<posted, queue, backend, cache>>
          /\ pc'[c] = "idle" /\ \A q \in Procs \ {c} : pc'[q] = pc[q] /\ next'[q] = next[q]
          /\ local'[c] = None /\ batch'[c] = <<>>
          /\ ToSet(batch[c]) \subseteq cache
      BY <1>11, <1>a, <1>b, <1>c, <2>1 DEF Ack, Reset, Goto, InHand
    <2>3. InHand(c)'
      BY <2>2 DEF InHand
    <2>4. OneWriter(c)'
      BY <1>b, <1>c, <2>2 DEF OneWriter, Procs
    <2>5. Outstanding(c)' = queue
      BY <1>a, <2>2, ConcatEmptySeq DEF Outstanding
    <2>6. ToSet(Outstanding(c)) = ToSet(batch[c]) \cup ToSet(queue)
      BY <1>a, <1>d, ToSetConcat DEF Outstanding
    <2>7. InOrder(queue, cache)
      BY <1>a, <1>c, <1>d, <2>2, InOrderDrop DEF Accounted, Outstanding
    <2>8. Accounted(c)'
      BY <1>c, <2>2, <2>5, <2>6, <2>7 DEF Accounted
    <2>9. Stores'
      BY <1>c, <2>2 DEF Stores
    <2>10. QED
      BY <2>3, <2>4, <2>8, <2>9 DEF Whole
  <1>12. ASSUME NEW p \in Procs, TimeoutExpired(p) \/ Crash(p)
         PROVE  Whole(c)'
    <2>1. Die(p) /\ pc[p] # "idle"
      BY <1>12 DEF TimeoutExpired, Crash
    <2>2. p \notin Rebuilders
      BY <1>c, <2>1 DEF OneWriter
    <2>3. /\ posted' = posted /\ backend' = backend /\ cache' = cache
          /\ pc'[p] = "idle" /\ next'[p] = "idle" /\ local'[p] = None /\ batch'[p] = <<>>
          /\ queue' = batch[p] \o queue
          /\ \A q \in Procs \ {p} : /\ pc'[q] = pc[q] /\ next'[q] = next[q]
                                     /\ local'[q] = local[q]
                                     /\ tree'[q] = tree[q] /\ batch'[q] = batch[q]
      BY <1>a, <2>1 DEF Die, Reset, Goto
    <2>4. CASE p # c
      <3>1. batch[p] = <<>>
        BY <1>a, <2>4
      <3>2. queue' = queue
        BY <1>a, <2>3, <3>1, ConcatEmptySeq
      <3>3. pc' \in [Procs -> PCs] /\ next' \in [Procs -> {"lock", "add", "idle"}]
        BY DEF TypeInv, TypeOK
      <3>4. QED
        BY <1>3, <2>2, <2>3, <2>4, <3>2, <3>3
    <2>5. CASE p = c
      <3>1. Outstanding(c)' = Outstanding(c)
        BY <1>d, <2>3, <2>5, ConcatEmptySeq DEF Outstanding
      <3>2. Accounted(c)'
        BY <1>c, <2>3, <3>1 DEF Accounted
      <3>3. InHand(c)'
        BY <2>3, <2>5 DEF InHand
      <3>4. OneWriter(c)'
        BY <1>b, <1>c, <2>3, <2>5 DEF OneWriter, Procs
      <3>5. Stores'
        BY <1>c, <2>3 DEF Stores
      <3>6. QED
        BY <3>2, <3>3, <3>4, <3>5 DEF Whole
    <2>6. QED
      BY <2>4, <2>5
  <1>13. CASE LockExpires \/ UNCHANGED vars
    <2>1. UNCHANGED <<posted, queue, backend, cache, local, pc, next, batch, tree>>
      BY <1>13 DEF LockExpires, vars
    <2>2. QED
      BY <1>c, <2>1 DEF Whole, OneWriter, InHand, Stores, Accounted, Outstanding
  <1>14. CASE Evict
    BY <1>14 DEF Evict
  <1>15. QED
    BY <1>1, <1>2, <1>4, <1>5, <1>6, <1>7, <1>8, <1>9, <1>10, <1>11, <1>12, <1>13, <1>14
    DEF Next, Proceed

(***************************************************************************)
(* With a single consumer of commentstree_q, in spite of crashes between   *)
(* the two writes, timeouts, expired locks and repeated messages, every    *)
(* acknowledged comment is in both stores and none is without its parent,  *)
(* until a rebuild or an eviction; for any number of comments and readers. *)
(***************************************************************************)
THEOREM TreeStaysWhole ==
    ASSUME NEW c, Consumers = {c}
    PROVE  Spec => []TreeWhole
  <1>1. Init => TreeInv(c)
    <2> SUFFICES ASSUME Init
                 PROVE  TreeInv(c)
      OBVIOUS
    <2> USE CommentTreeAssumption
    <2>1. <<>> \in Seq(Comments) /\ Len(<<>>) = 0 /\ c \in Procs
      BY EmptySeq DEF Procs
    <2>2. TypeInv
      BY <2>1 DEF Init, TypeInv, TypeOK, BatchesHeld, Tree, PCs
    <2>3. Outstanding(c) = <<>>
      BY <2>1, ConcatEmptySeq DEF Outstanding, Init
    <2>4. Accounted(c)
      BY <2>1, <2>3, ToSetEmpty DEF Init, Accounted, Closed, InOrder
    <2>5. OneWriter(c)
      BY DEF Init, OneWriter, Procs
    <2>6. InHand(c) /\ Stores
      BY <2>1 DEF Init, InHand, Stores, Closed
    <2>7. QED
      BY <2>2, <2>4, <2>5, <2>6 DEF TreeInv, Whole
  <1>2. TreeInv(c) /\ [Next]_vars => TreeInv(c)'
    BY TypeStep, HarmGrows, WholeStep DEF TreeInv
  <1>3. TreeInv(c) => TreeWhole
    <2> SUFFICES ASSUME TreeInv(c), harm \subseteq {"expire"}
                 PROVE  /\ \A x \in posted \ Pending :
                              x \in backend /\ (cache # None => x \in cache)
                        /\ \A x \in backend : Parent[x] \in backend \cup {None}
      BY DEF TreeWhole, NothingLost, NoOrphans
    <2>1. Whole(c) /\ TypeInv /\ c \in Procs
      BY DEF TreeInv, Procs
    <2>2. ToSet(Outstanding(c)) = ToSet(batch[c]) \cup ToSet(queue)
      <3>1. batch[c] \in Seq(Comments) /\ queue \in Seq(Comments)
        BY <2>1 DEF TypeInv, TypeOK
      <3>2. QED
        BY <3>1, ToSetConcat DEF Outstanding
    <2>3. Pending = ToSet(batch[c]) \cup ToSet(queue)
      BY DEF Pending
    <2>4. QED
      BY <2>1, <2>2, <2>3 DEF Whole, Stores, Accounted, Closed
  <1>4. QED
    BY <1>1, <1>2, <1>3, PTL DEF Spec

=============================================================================
